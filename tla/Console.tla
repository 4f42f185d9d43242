-------------------------------- MODULE Console --------------------------------
(***************************************************************************)
(* A page of the operator console in its browser.  Its session panel reads   *)
(* the session once, when the page opens; its commands go through the proxy  *)
(* to the API; signing out ends the session of all pages.  Whatever is sent  *)
(* may be lost, and the API may carry on with what the proxy gave up.        *)
(***************************************************************************)
EXTENDS Integers, FiniteSets

CONSTANTS
  Calls,               \* commands to the proxy, of the page or of a page elsewhere
  MAX_REQUEST_BYTES, MAX_RESPONSE_BYTES,
  Sizes,               \* of what is sent and answered
  MaxSessions,         \* bound: sessions of the browser
  None

VARIABLES
  configured,  \* sign-in is configured, origins and all
  session,     \* the browser's session, by number; None for none or a lapsed one
  sessions,    \* sessions the browser had
  panel,       \* what the page shows of it: checking, unset, out or in
  opening,     \* the request of the panel: asked, the answer on its way, or done
  leaving,     \* no, asked or answered, with the session it was sent with; left
  call,        \* per command: where it is, what it asks and what was told of it
  working,     \* the commands the API is working at
  applied      \* those it carried out

browser == <<configured, session, sessions>>
pagevars == <<panel, opening, leaving>>
vars == <<browser, pagevars, call, working, applied>>

Requests == [own : BOOLEAN, known : BOOLEAN, size : Sizes, json : BOOLEAN]

Unsent == [step |-> "unsent", asks |-> None, answer |-> None]

Init ==
  /\ configured \in BOOLEAN /\ sessions \in 0..1 /\ session = IF sessions = 0 THEN None ELSE sessions
  /\ panel = "checking" /\ opening = "asked" /\ leaving = [step |-> "no", with |-> None]
  /\ call = [c \in Calls |-> Unsent] /\ working = {} /\ applied = {}

-----------------------------------------------------------------------------
(* The session, which other pages and time change, too                      *)

SignIn ==
  /\ configured /\ session = None /\ sessions < MaxSessions
  /\ sessions' = sessions + 1 /\ session' = sessions'
  /\ UNCHANGED <<configured, pagevars, call, working, applied>>

Lapse ==
  /\ session # None /\ session' = None
  /\ UNCHANGED <<configured, sessions, pagevars, call, working, applied>>

(* GET of api/session: no configuration and an error look the same.         *)
Read ==
  /\ opening = "asked"
  /\ opening' \in {"unset", IF ~configured THEN "unset" ELSE IF session = None THEN "out" ELSE "in"}
  /\ UNCHANGED <<browser, panel, leaving, call, working, applied>>

(* The answer arrives, or none does; it is shown whatever was heard since.  *)
Shown ==
  /\ opening # "done"
  /\ panel' = IF opening = "asked" THEN "unset" ELSE opening
  /\ opening' = "done"
  /\ UNCHANGED <<browser, leaving, call, working, applied>>

-----------------------------------------------------------------------------
(* Commands                                                                 *)

Goes(c, step) == call' = [call EXCEPT ![c].step = step]
Tells(c, answer) == call' = [call EXCEPT ![c].step = "told", ![c].answer = answer]

(* apiFetch, or what a page elsewhere makes the browser send.               *)
Send(c, asks) ==
  /\ call[c].step = "unsent" /\ leaving.step # "left"
  /\ call' = [call EXCEPT ![c].step = "proxy", ![c].asks = asks]
  /\ UNCHANGED <<browser, pagevars, working, applied>>

(* hasTrustedRequestHost, sameOriginRequest: a write names its origin.      *)
Trusted(asks) == asks.own

(* backendUrl: the roots of the API and the form of each segment.           *)
HasTarget(asks) == asks.known

Policy(c) ==
  /\ call[c].step = "proxy"
  /\ IF configured /\ Trusted(call[c].asks) /\ HasTarget(call[c].asks)
     THEN Goes(c, "session") ELSE Tells(c, "refused")
  /\ UNCHANGED <<browser, pagevars, working, applied>>

(* getSession, getAccessToken                                               *)
FindSession(c) ==
  /\ call[c].step = "session"
  /\ IF session # None THEN Goes(c, "body") ELSE Tells(c, "expired")
  /\ UNCHANGED <<browser, pagevars, working, applied>>

(* readBoundedBody: no chunk beyond the limit is kept.                      *)
Fits(size, maximum) == size <= maximum

(* Mutant of ReadBody: the command goes out before its body is judged.      *)
ReadBodyLate(c) ==
  /\ call[c].step = "body" /\ working' = working \cup {c}
  /\ IF Fits(call[c].asks.size, MAX_REQUEST_BYTES) THEN Goes(c, "api") ELSE Tells(c, "refused")
  /\ UNCHANGED <<browser, pagevars, applied>>

(* What is not empty must be JSON.                                          *)
ReadBody(c) ==
  LET asks == call[c].asks  ok == Fits(asks.size, MAX_REQUEST_BYTES) /\ (asks.size # 0 => asks.json) IN
  /\ call[c].step = "body"
  /\ IF ok THEN Goes(c, "api") ELSE Tells(c, "refused")
  /\ working' = IF ok THEN working \cup {c} ELSE working
  /\ UNCHANGED <<browser, pagevars, applied>>

(* The API carries it out or does not.  It says ok only of what it carried  *)
(* out; another answer, 401 among them, may follow a step that was.         *)
Work(c, done, status, size) ==
  /\ c \in working /\ (status = "ok" => done)
  /\ working' = working \ {c} /\ applied' = IF done THEN applied \cup {c} ELSE applied
  /\ call' = IF call[c].step # "api" THEN call
             ELSE [call EXCEPT ![c].step = "relay", ![c].answer = [status |-> status, size |-> size]]
  /\ UNCHANGED <<browser, pagevars>>

(* AbortSignal.timeout, or a connection that fails                          *)
GiveUp(c) ==
  /\ call[c].step = "api" /\ Tells(c, "unavailable")
  /\ UNCHANGED <<browser, pagevars, working, applied>>

(* Mutant of Relay: an answer that is too large is refused like a request.  *)
RelayRefuses(c) ==
  LET answer == call[c].answer IN
  /\ call[c].step = "relay"
  /\ Tells(c, IF Fits(answer.size, MAX_RESPONSE_BYTES) THEN answer.status ELSE "refused")
  /\ UNCHANGED <<browser, pagevars, working, applied>>

(* The answer of the API, if it fits and is JSON.                           *)
Relay(c) ==
  LET answer == call[c].answer IN
  /\ call[c].step = "relay"
  /\ \/ Fits(answer.size, MAX_RESPONSE_BYTES) /\ Tells(c, answer.status)
     \/ Tells(c, "unavailable")
  /\ UNCHANGED <<browser, pagevars, working, applied>>

(* The page hears the answer; 401 from either turns the panel.  A page      *)
(* elsewhere hears nothing.                                                 *)
Hear(c) ==
  /\ call[c].step = "told" /\ Goes(c, "heard")
  /\ panel' = IF call[c].answer = "expired" /\ call[c].asks.own THEN "out" ELSE panel
  /\ UNCHANGED <<browser, opening, leaving, working, applied>>

-----------------------------------------------------------------------------
(* Signing out                                                              *)

Logout ==
  /\ panel = "in" /\ leaving.step = "no" /\ leaving' = [step |-> "asked", with |-> session]
  /\ UNCHANGED <<browser, panel, opening, call, working, applied>>

(* trustedLogoutUrl: the provider's logout with the fixed way back, once.   *)
TrustedDestination == {TRUE, FALSE}

(* Mutant of LogoutAnswered: the page goes as soon as it asked.             *)
LogoutAnsweredEarly ==
  /\ leaving.step = "asked" /\ leaving' = [leaving EXCEPT !.step = "left"]
  /\ session' \in {session, None}
  /\ UNCHANGED <<configured, sessions, panel, opening, call, working, applied>>

(* The answer takes the cookie along, and the page goes where it says if it *)
(* may; else it offers to sign out again.  An answer that is lost takes     *)
(* nothing.                                                                 *)
LogoutAnswered ==
  /\ leaving.step = "asked"
  /\ \/ /\ session' = None
        /\ \E trusted \in TrustedDestination : leaving' = [leaving EXCEPT !.step = IF trusted THEN "left" ELSE "no"]
     \/ leaving' = [leaving EXCEPT !.step = "no"] /\ UNCHANGED session
  /\ UNCHANGED <<configured, sessions, panel, opening, call, working, applied>>

Next ==
  \/ SignIn \/ Lapse \/ Read \/ Shown \/ Logout \/ LogoutAnswered
  \/ \E c \in Calls :
       \/ \E asks \in Requests : Send(c, asks)
       \/ Policy(c) \/ FindSession(c) \/ ReadBody(c) \/ GiveUp(c) \/ Relay(c) \/ Hear(c)
       \/ \E done \in BOOLEAN, status \in {"ok", "expired", "failed"}, size \in Sizes : Work(c, done, status, size)

Spec == Init /\ [][Next]_vars
-----------------------------------------------------------------------------
(* Properties                                                               *)

(* What the page is told of a command is true for good: what succeeded was  *)
(* carried out, what the proxy refused never is, and only what is           *)
(* unavailable, lapsed or failed at the API stays open.  What the API works *)
(* at is a command of the console.  And a page that signed out and left     *)
(* does not leave its session behind.                                       *)
ToldIsTrue ==
  /\ \A c \in Calls : call[c].step \in {"told", "heard"} =>
       /\ call[c].answer = "ok" => c \in applied
       /\ call[c].answer = "refused" => c \notin working \cup applied
  /\ \A c \in working \cup applied : call[c].asks.own /\ call[c].asks.size <= MAX_REQUEST_BYTES
  /\ leaving.step = "left" => leaving.with = None \/ session # leaving.with
=============================================================================
