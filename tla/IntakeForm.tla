----------------------------- MODULE IntakeForm ------------------------------
(***************************************************************************)
(* The intake form of the website and the handler that stores what it sends. *)
(* A page draws one request id, with its first submission, and keeps it; the *)
(* visitor may change the answers at any time, before and after a request    *)
(* fails, and a request whose answer is lost may still be handled, late.     *)
(* A page stands for its id, a visit for a page.                             *)
(***************************************************************************)
EXTENDS Integers, Sequences, FiniteSets

CONSTANTS
  Pages, None,
  Forms,        \* what the fields may hold: [company, text, given, wrong], see MessageSize
  MaxText,      \* of the question (1500)
  Heading,      \* of the optional answers, with the lines between
  AnswerSize,   \* of a line
  MaxMessage,   \* of the composed message (3000)
  MaxHour,      \* requests of an address in an hour (5)
  MaxPosts      \* bound: submissions of a page

VARIABLES
  form,       \* per page: what is on screen
  posts,      \* per page: the requests it sent, [form, step]
  awaits,     \* per page: the request it waits for, or 0: busy
  reference,  \* per page: None, or the form whose answer carried the reference
  intakes,    \* per page: the row with its id, or None
  hour        \* the rows of the last hour, of the address of the pages

vars == <<form, posts, awaits, reference, intakes, hour>>

Init ==
  /\ form = [p \in Pages |-> None]   \* not filled in
  /\ posts = [p \in Pages |-> <<>>] /\ awaits = [p \in Pages |-> 0]
  /\ reference = [p \in Pages |-> None] /\ intakes = [p \in Pages |-> None] /\ hour = 0

(* The question, and a line for each of the answers that are given.         *)
MessageSize(f) == f.text + (IF f.given = {} THEN 0 ELSE Heading + AnswerSize * Cardinality(f.given))

(* Mutant of Composes: only the question is measured.                       *)
ComposesLong(f) == f.text <= MaxText /\ f.wrong = {}

(* composeIntakeMessage throws for a question that is too long, an answer   *)
(* of no known form, and a message that is too long as a whole.             *)
Composes(f) == f.text <= MaxText /\ f.wrong = {} /\ MessageSize(f) <= MaxMessage

(* intakeSchema, of the message and of the company, whose blanks are cut    *)
(* off after the browser has counted them.                                  *)
FitsMessage(f) == MessageSize(f) <= MaxMessage
Parses(f)      == FitsMessage(f) /\ f.company >= 2

Edit(p, f) ==
  /\ reference[p] = None
  /\ form' = [form EXCEPT ![p] = f]
  /\ UNCHANGED <<posts, awaits, reference, intakes, hour>>

Submit(p) ==
  /\ reference[p] = None /\ awaits[p] = 0 /\ Len(posts[p]) < MaxPosts
  /\ form[p] # None /\ Composes(form[p])
  /\ posts' = [posts EXCEPT ![p] = Append(@, [form |-> form[p], step |-> "sent"])]
  /\ awaits' = [awaits EXCEPT ![p] = Len(posts'[p])]
  /\ UNCHANGED <<form, reference, intakes, hour>>

(* The connection fails; the request may be under way or handled.           *)
Lost(p) ==
  /\ awaits[p] # 0 /\ awaits' = [awaits EXCEPT ![p] = 0]
  /\ UNCHANGED <<form, posts, reference, intakes, hour>>

-----------------------------------------------------------------------------
(* POST, for request n of page p                                            *)

Goes(p, n, step) == posts' = [posts EXCEPT ![p][n].step = step]

(* The answer counts for the page that waits for it; an error stays in the  *)
(* form.                                                                    *)
Answer(p, n, accepted) ==
  /\ Goes(p, n, "done")
  /\ awaits' = [awaits EXCEPT ![p] = IF @ = n THEN 0 ELSE @]
  /\ reference' = [reference EXCEPT ![p] = IF awaits[p] = n /\ accepted THEN posts[p][n].form ELSE @]
  /\ UNCHANGED form

(* Mutant of Repeated: a request id that is there was stored by this page.  *)
RepeatedAny(p, n) == Answer(p, n, TRUE)

(* repeated: the same again has its reference, anything else a conflict.    *)
Repeated(p, n) == Answer(p, n, intakes[p] = posts[p][n].form)

Refuse(p, n) == Answer(p, n, FALSE) /\ UNCHANGED <<intakes, hour>>

(* The wrong origin, too many bytes, out of service, no delivery worker, or *)
(* the data base fails before or between its statements.                    *)
Unavailable(p, n) == posts[p][n].step # "done" /\ Refuse(p, n)

Look(p, n) ==
  /\ posts[p][n].step = "sent"
  /\ \/ ~Parses(posts[p][n].form) /\ Refuse(p, n)
     \/ Parses(posts[p][n].form) /\ intakes[p] # None /\ Repeated(p, n) /\ UNCHANGED <<intakes, hour>>
     \/ /\ Parses(posts[p][n].form) /\ intakes[p] = None
        /\ Goes(p, n, "looked")
        /\ UNCHANGED <<form, awaits, reference, intakes, hour>>

(* INSERT OR IGNORE; the result of the statement may be lost.               *)
Insert(p, n) ==
  /\ posts[p][n].step = "looked" /\ intakes[p] = None /\ hour < MaxHour
  /\ intakes' = [intakes EXCEPT ![p] = posts[p][n].form] /\ hour' = hour + 1
  /\ \E told \in BOOLEAN : Answer(p, n, told)

(* Another request of the page was first, or the hour is full.              *)
Ignored(p, n) ==
  /\ posts[p][n].step = "looked"
  /\ \/ intakes[p] # None /\ Repeated(p, n)
     \/ intakes[p] = None /\ hour = MaxHour /\ Answer(p, n, FALSE)
  /\ UNCHANGED <<intakes, hour>>

(* Bound: the rows of the hour leave it together.                           *)
NextHour ==
  /\ hour > 0 /\ hour' = 0
  /\ UNCHANGED <<form, posts, awaits, reference, intakes>>

(* Others behind the same address store theirs.                             *)
Others ==
  /\ hour < MaxHour /\ hour' = hour + 1
  /\ UNCHANGED <<form, posts, awaits, reference, intakes>>

Next ==
  \/ NextHour \/ Others
  \/ \E p \in Pages :
       \/ \E f \in Forms : Edit(p, f)
       \/ Submit(p) \/ Lost(p)
       \/ \E n \in DOMAIN posts[p] : Unavailable(p, n) \/ Look(p, n) \/ Insert(p, n) \/ Ignored(p, n)

Spec == Init /\ [][Next]_vars

-----------------------------------------------------------------------------
(* Properties                                                               *)

(* Who reads "Uw intake is ontvangen" (intake-form.tsx:36) has the very      *)
(* request stored that the answer was for, however often it was sent, edited *)
(* in between, and whichever of two requests with the id was first; and what *)
(* the page composes is never too long for the handler.                      *)
ConfirmedIsStored ==
  \A p \in Pages :
    /\ reference[p] # None => intakes[p] = reference[p]
    /\ \A n \in DOMAIN posts[p] : FitsMessage(posts[p][n].form)
=============================================================================
