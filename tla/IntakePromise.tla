--------------------------- MODULE IntakePromise ---------------------------
(***************************************************************************)
(* What the intake queue of the marketing site promises for each request,  *)
(* whatever is lost or crashes between the website, its database and the   *)
(* mail worker: the message reaches the mail queue at most once, a request *)
(* counts as accepted only after that, and it is forgotten only when it    *)
(* was accepted (ops/mail-worker/README.md, "Failure and recovery").       *)
(***************************************************************************)
EXTENDS Naturals

CONSTANTS Jobs   \* request ids

VARIABLES
  state,    \* per request: none, waiting, accepted, uncertain
  mailed    \* per request: messages the mail queue has accepted

State == {"none", "waiting", "accepted", "uncertain"}

Init ==
  /\ state = [j \in Jobs |-> "none"]
  /\ mailed = [j \in Jobs |-> 0]

Take(j) ==
  /\ state[j] = "none"
  /\ state' = [state EXCEPT ![j] = "waiting"]
  /\ UNCHANGED mailed

(* A request given up on may still be in the hands of the worker.           *)
Mail(j) ==
  /\ state[j] \in {"waiting", "uncertain"} /\ mailed[j] = 0
  /\ mailed' = [mailed EXCEPT ![j] = 1]
  /\ UNCHANGED state

Accept(j) ==
  /\ state[j] \in {"waiting", "uncertain"} /\ mailed[j] = 1
  /\ state' = [state EXCEPT ![j] = "accepted"]
  /\ UNCHANGED mailed

(* Claiming one request may give up on others: S.                           *)
GiveUp(S) ==
  /\ \A j \in S : state[j] = "waiting"
  /\ state' = [j \in Jobs |-> IF j \in S THEN "uncertain" ELSE state[j]]
  /\ UNCHANGED mailed

Forget(S) ==
  /\ \A j \in S : state[j] = "accepted"
  /\ state' = [j \in Jobs |-> IF j \in S THEN "none" ELSE state[j]]
  /\ UNCHANGED mailed

Next ==
  \/ \E j \in Jobs : Take(j) \/ Mail(j) \/ Accept(j)
  \/ \E S \in SUBSET Jobs : GiveUp(S) \/ Forget(S)

Spec == Init /\ [][Next]_<<state, mailed>>
=============================================================================
