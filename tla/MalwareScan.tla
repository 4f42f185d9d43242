----------------------------- MODULE MalwareScan ----------------------------
(***************************************************************************)
(* One scan of one stored object (MalwareScannerService.scan): two requests *)
(* to clamd, VERSION and INSTREAM, each on a socket of its own, over which  *)
(* clamdRequest sends while the events of socket, timer and storage stream  *)
(* race to settle it.  Every event is a step.                               *)
(*                                                                         *)
(* clamd is external: it judges the chunks up to the first frame of length  *)
(* zero, but may also answer too early with an error, stop within an        *)
(* answer, or say nothing.                                                  *)
(***************************************************************************)
EXTENDS Naturals, Sequences

CONSTANTS
  Bodies,     \* stored objects, as sequences of chunks
  MaxChunks   \* CLAMAV_MAX_BYTES, counted in chunks that are not empty

Chunk == {"empty", "harmless", "infected"}

VARIABLES
  body,     \* the object that is scanned
  request,  \* the clamd request that is under way
  socket,   \* its connection
  outcome   \* what scan() comes to

vars == <<body, request, socket, outcome>>

Requests == <<"VERSION", "INSTREAM">>

(* What the zero length of a frame means to clamd: the end of the stream.   *)
Frame == [empty |-> "end", harmless |-> "harmless", infected |-> "infected"]

Piece == {"version", "stream:", "OK", "name", "FOUND", "ERROR", "flood", "NUL"}

(* pulled: chunks taken from the stream, one more once its end is sent.     *)
Request == [no : 1..Len(Requests), sender : {"unconnected", "flushing", "pulling", "stopped"},
            pulled : Nat, submitted : BOOLEAN, response : Seq(Piece), settled : {"no", "value", "error"}]

(* sent: what clamd has received.  replies, ended: what it sent and is not  *)
(* read yet.                                                                *)
Socket == [state : {"connecting", "open", "destroyed"},
           sent : Seq({"command", "end", "harmless", "infected"}), replies : Seq(Piece), ended : BOOLEAN]

NewRequest(no) ==
  [no |-> no, sender |-> "unconnected", pulled |-> 0, submitted |-> FALSE, response |-> <<>>, settled |-> "no"]

NewSocket == [state |-> "connecting", sent |-> <<>>, replies |-> <<>>, ended |-> FALSE]

Init ==
  /\ body \in Bodies
  /\ request = NewRequest(1) /\ socket = NewSocket
  /\ outcome = "none"

Streams == Requests[request.no] = "INSTREAM"

-----------------------------------------------------------------------------
(* clamdRequest: every way to finish                                        *)

(* finish: the first result counts, and the socket is destroyed.            *)
Finish(r, result) ==
  /\ request' = [r EXCEPT !.settled = IF @ = "no" THEN result ELSE @]
  /\ socket' = [socket EXCEPT !.state = "destroyed"]

Contains(s, word) == \E i \in 1..Len(s) - Len(word) + 1 : SubSeq(s, i, i + Len(word) - 1) = word

Ok == <<"stream:", "OK">>

(* One message, ended by the only NUL.                                      *)
Complete(s) == Len(s) >= 2 /\ s[Len(s)] = "NUL" /\ ~Contains(SubSeq(s, 1, Len(s) - 1), <<"NUL">>)

Data(n) ==
  LET response == request.response \o SubSeq(socket.replies, 1, n)
      got == [request EXCEPT !.response = response]
  IN  /\ socket.state = "open"
      /\ IF Contains(response, <<"flood">>) \/ (~request.submitted /\ Contains(response, Ok))
         THEN Finish(got, "error")
         ELSE /\ request' = got
              /\ socket' = [socket EXCEPT !.replies = SubSeq(@, n + 1, Len(@))]
      /\ UNCHANGED <<body, outcome>>

End ==
  /\ socket.state = "open" /\ socket.ended /\ socket.replies = <<>>
  /\ Finish(request, IF request.submitted /\ Complete(request.response) THEN "value" ELSE "error")
  /\ UNCHANGED <<body, outcome>>

(* The events error and close: refused, reset, or never finished.           *)
Breaks ==
  /\ socket.state # "destroyed"
  /\ Finish(request, "error")
  /\ UNCHANGED <<body, outcome>>

(* Mutant of Deadline: the time runs from the connection.                   *)
DeadlineConnected ==
  /\ request.settled = "no" /\ socket.state = "open"
  /\ Finish(request, "error")
  /\ UNCHANGED <<body, outcome>>

(* The timer that starts with the request.                                  *)
Deadline ==
  /\ request.settled = "no"
  /\ Finish(request, "error")
  /\ UNCHANGED <<body, outcome>>

-----------------------------------------------------------------------------
(* The sender: the connect handler and the loop over the stored bytes       *)

Sends(frame, r) ==
  /\ request' = [r EXCEPT !.sender = "flushing"]
  /\ socket' = [socket EXCEPT !.sent = Append(@, frame)]

Connect ==
  /\ socket.state = "connecting"
  /\ request' = [request EXCEPT !.sender = "flushing"]
  /\ socket' = [socket EXCEPT !.state = "open", !.sent = <<"command">>]
  /\ UNCHANGED <<body, outcome>>

(* The callback of a write.  submitted follows the last of them.            *)
Flushed ==
  /\ request.sender = "flushing" /\ socket.state = "open"
  /\ request' = IF Streams /\ request.pulled <= Len(body)
                THEN [request EXCEPT !.sender = "pulling"]
                ELSE [request EXCEPT !.sender = "stopped", !.submitted = TRUE]
  /\ UNCHANGED <<body, socket, outcome>>

(* Mutant of Skipped: empty chunks are framed like the others.              *)
SkippedNone(chunk) == FALSE

Skipped(chunk) == chunk = "empty"

TooLong(n) == Len(SelectSeq(SubSeq(body, 1, n), LAMBDA chunk : chunk # "empty")) > MaxChunks

(* verifyObjectSha256 destroys the stream once scan() has settled.          *)
BodyDestroyed == outcome # "none"

(* The next chunk, or the end of the stored object.                         *)
Pull ==
  LET n == request.pulled + 1
      pulled == [request EXCEPT !.pulled = n]
  IN  /\ request.sender = "pulling" /\ ~BodyDestroyed
      /\ \/ n <= Len(body) /\ TooLong(n) /\ Finish([pulled EXCEPT !.sender = "stopped"], "error")
         \/ n <= Len(body) /\ ~TooLong(n) /\ Skipped(body[n]) /\ request' = pulled /\ UNCHANGED socket
         \/ /\ n <= Len(body) => ~TooLong(n) /\ ~Skipped(body[n])
            /\ IF socket.state = "open"
               THEN Sends(IF n <= Len(body) THEN Frame[body[n]] ELSE "end", pulled)
               ELSE Finish([pulled EXCEPT !.sender = "stopped"], "error")
      /\ UNCHANGED <<body, outcome>>

StorageFails ==
  /\ request.sender = "pulling" /\ ~BodyDestroyed
  /\ Finish([request EXCEPT !.sender = "stopped"], "error")
  /\ UNCHANGED <<body, outcome>>

(* A pending write fails with its socket, a pending read with its stream.   *)
SenderFails ==
  /\ \/ request.sender = "flushing" /\ socket.state = "destroyed"
     \/ request.sender = "pulling" /\ BodyDestroyed
  /\ Finish([request EXCEPT !.sender = "stopped"], "error")
  /\ UNCHANGED <<body, outcome>>

-----------------------------------------------------------------------------
(* scan: what the answers mean                                              *)

Value == SubSeq(request.response, 1, Len(request.response) - 1)

Good == Value = IF Streams THEN Ok ELSE <<"version">>

Found == Streams /\ Len(Value) >= 3 /\ Value[1] = "stream:" /\ Value[Len(Value)] = "FOUND"

Concludes(result) == outcome' = result /\ UNCHANGED <<request, socket>>

Conclude ==
  /\ request.settled # "no" /\ outcome = "none"
  /\ CASE request.settled = "error" -> Concludes("unavailable")
       [] request.settled = "value" /\ Found -> Concludes("detected")
       [] request.settled = "value" /\ Good /\ request.no = Len(Requests) -> Concludes("clean")
       [] request.settled = "value" /\ Good /\ request.no < Len(Requests) ->
            /\ request' = NewRequest(request.no + 1) /\ socket' = NewSocket
            /\ UNCHANGED outcome
       [] OTHER -> Concludes("unavailable")
  /\ UNCHANGED body

-----------------------------------------------------------------------------
(* clamd                                                                    *)

Says(pieces, ended) ==
  /\ socket' = [socket EXCEPT !.replies = @ \o pieces, !.ended = ended]
  /\ UNCHANGED <<body, request, outcome>>

Infected == \E i \in 1..Len(socket.sent) :
              socket.sent[i] = "infected" /\ ~Contains(SubSeq(socket.sent, 1, i), <<"end">>)

(* The name of a signature may begin like the other answer.                 *)
Answers ==
  IF ~Streams THEN {<<"version", "NUL">>}
  ELSE IF Infected THEN {<<"stream:", name, "FOUND", "NUL">> : name \in {"name", "OK"}}
  ELSE {<<"stream:", "OK", "NUL">>}

Speaks == socket.state = "open" /\ ~socket.ended

(* Its answer, or the first n pieces of it, before it closes.               *)
Answer(n) ==
  /\ Speaks /\ Contains(socket.sent, <<IF Streams THEN "end" ELSE "command">>)
  /\ \E answer \in Answers : n <= Len(answer) /\ Says(SubSeq(answer, 1, n), TRUE)

(* An error at any time, after which it may still answer.                   *)
Complains(pieces, ended) ==
  /\ Speaks /\ socket.replies = <<>> /\ request.response = <<>>
  /\ Says(pieces, ended)

Next ==
  \/ Connect \/ Flushed \/ Pull \/ StorageFails \/ SenderFails
  \/ \E n \in 1..Len(socket.replies) : Data(n)
  \/ End \/ Breaks \/ Deadline \/ Conclude
  \/ \E n \in 0..4 : Answer(n)
  \/ \E pieces \in {<<"ERROR", "NUL">>, <<"flood">>}, ended \in BOOLEAN : Complains(pieces, ended)

(* The timer fires, a destroyed socket or stream fails what waits for it,   *)
(* and a settled promise is taken up.  Nothing is expected of clamd, of the *)
(* network or of the object store.                                          *)
FairSpec == Init /\ [][Next]_vars /\ WF_vars(Deadline) /\ WF_vars(SenderFails) /\ WF_vars(Conclude)
-----------------------------------------------------------------------------
(* Properties                                                               *)

(* "The application trusts only a complete NUL-terminated stream: OK        *)
(* response after all bytes were sent" (docs/18_MALWARE_SCANNING.md:18):    *)
(* however chunks, answers and failures interleave, the verdict is the one  *)
(* on the whole object.                                                     *)
VerdictOnTheWhole ==
  /\ outcome = "clean" => ~Contains(body, <<"infected">>)
  /\ outcome = "detected" => Contains(body, <<"infected">>)
=============================================================================
