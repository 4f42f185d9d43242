-------------------------- MODULE SupplierPromise ---------------------------
(***************************************************************************)
(* What the service promises of supplier requests: submissions are          *)
(* collected while a request is open, an operator accepts all of them       *)
(* together and once, and after that nothing more is received or imported.  *)
(***************************************************************************)
EXTENDS Naturals

CONSTANTS
  Requests,            \* supplier requests
  Bodies               \* what one submission call may carry

VARIABLES
  closed,              \* the requests that are accepted
  received,            \* per request: how many submissions of each body are stored
  imported             \* per request: how many became values

vars == <<closed, received, imported>>

Nothing == [body \in Bodies |-> 0]

Init ==
  /\ closed = {}
  /\ received = [r \in Requests |-> Nothing] /\ imported = [r \in Requests |-> Nothing]

Receive(r, body) ==
  /\ r \notin closed
  /\ received' = [received EXCEPT ![r][body] = @ + 1]
  /\ UNCHANGED <<closed, imported>>

Import(r) ==
  /\ r \notin closed /\ received[r] # Nothing
  /\ closed' = closed \cup {r}
  /\ imported' = [imported EXCEPT ![r] = [body \in Bodies |-> @[body] + received[r][body]]]
  /\ UNCHANGED received

Next == \E r \in Requests : Import(r) \/ \E body \in Bodies : Receive(r, body)

Spec == Init /\ [][Next]_vars
=============================================================================
