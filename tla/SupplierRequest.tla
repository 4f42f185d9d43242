--------------------------- MODULE SupplierRequest --------------------------
(***************************************************************************)
(* The requests of one supplier: the portal (session, submit), which comes  *)
(* with a capability token, and the operator (accept).  A portal call       *)
(* resolves the token before its transaction, without a lock; the           *)
(* transaction then locks the request and looks again.                      *)
(*                                                                         *)
(* The locks are those of Postgres: SELECT ... FOR UPDATE on model, request *)
(* and evidence, held by one transaction, and the FOR KEY SHARE of a        *)
(* foreign key that an insert takes on evidence, held by any number of      *)
(* transactions but not together with FOR UPDATE.  Postgres aborts one      *)
(* transaction of a cycle of waits.                                         *)
(***************************************************************************)
EXTENDS Naturals, Sequences, FiniteSets

CONSTANTS
  Procs,        \* concurrent calls
  Models,       \* battery models
  Requests,     \* supplier requests
  ModelOf,      \* per request: the model it asks about
  Evidence,     \* documents of the supplier, numbered in the order of their ids
  Bodies,       \* evidence a submission call names, in the order of the body
  None,         \* no process, no request
  MaxSubmits,   \* bound: submissions of one body stored per request
  MaxCalls      \* bound: calls started

ASSUME SupplierAssumption ==
  /\ ModelOf \in [Requests -> Models]
  /\ Evidence \subseteq Nat /\ IsFiniteSet(Evidence)
  /\ Bodies \subseteq Seq(Evidence)
  /\ None \notin Procs \cup Requests
  /\ MaxSubmits \in Nat /\ MaxCalls \in Nat

VARIABLES
  status,     \* per request: SupplierRequest.status
  opened,     \* per request: openedAt is set
  expired,    \* per request: expiresAt has passed
  received,   \* per request: how many submissions of each body are stored
  imported,   \* per request: how many became values of the model
  rejected,   \* evidence rejected by the malware scan
  call,       \* per process: the call it runs
  holder,     \* FOR UPDATE: per row, the transaction that holds it
  sharing,    \* FOR KEY SHARE: per evidence, the transactions that hold it
  calls       \* bound only

rows  == <<status, opened, received, imported>>
locks == <<holder, sharing>>
vars  == <<rows, expired, rejected, call, locks, calls>>

RequestStatus == {"absent", "draft", "opened", "submitted", "accepted"}

Ops == {"session", "submit", "accept"}

Nothing == [body \in Bodies |-> 0]

(* A row that can be locked: a model, a request or a document.              *)
ModelRow(r) == <<"model", ModelOf[r]>>
RowOf(r) == <<"request", r>>
DocOf(e) == <<"evidence", e>>
Lockable == ({"model"} \X Models) \cup ({"request"} \X Requests) \cup ({"evidence"} \X Evidence)

(* want: evidence still to be locked, in order.                             *)
Call == [op : Ops, step : {"idle", "model", "request", "evidence", "write"}, request : Requests \cup {None},
         body : Seq(Evidence), want : Seq(Evidence)]

Idle == [op |-> "session", step |-> "idle", request |-> None, body |-> <<>>, want |-> <<>>]

Init ==
  /\ status = [r \in Requests |-> "absent"]
  /\ opened = [r \in Requests |-> FALSE] /\ expired = [r \in Requests |-> FALSE]
  /\ received = [r \in Requests |-> Nothing] /\ imported = [r \in Requests |-> Nothing]
  /\ rejected = {}
  /\ call = [p \in Procs |-> Idle]
  /\ holder = [x \in Lockable |-> None] /\ sharing = [e \in Evidence |-> {}]
  /\ calls = 0

-----------------------------------------------------------------------------
(* assertOpen; of the closed states only accepted is ever written.          *)
IsOpen(r) == ~expired[r] /\ status[r] # "accepted"

(* Mutant of StillOpen: the token was checked when the call came in.        *)
StillOpenAssumed(r) == TRUE

(* lockRequest reads the request again once it holds the lock.              *)
StillOpen(r) == IsOpen(r)

(* The documents of all submissions of a request.                           *)
Documents(r) == {e \in Evidence : \E body \in Bodies : received[r][body] > 0 /\ \E n \in DOMAIN body : body[n] = e}

Sorted(S) == CHOOSE s \in [1..Cardinality(S) -> S] : \A i, j \in 1..Cardinality(S) : i < j => s[i] < s[j]

(* Mutant of AcceptOrder: the documents as the submissions list them.       *)
AcceptOrderListed(r) ==
  CHOOSE s \in [1..Cardinality(Documents(r)) -> Documents(r)] :
    \A i, j \in 1..Cardinality(Documents(r)) : i < j => s[i] > s[j]

(* accept locks the documents in the order of their ids.                    *)
AcceptOrder(r) == Sorted(Documents(r))

Goes(p, step) == call' = [call EXCEPT ![p].step = step]

(* Commit or rollback: every lock is released.                              *)
Ends(p) ==
  /\ call' = [call EXCEPT ![p] = Idle]
  /\ holder' = [x \in Lockable |-> IF holder[x] = p THEN None ELSE holder[x]]
  /\ sharing' = [e \in Evidence |-> sharing[e] \ {p}]

Free(x, p) == holder[x] \in {None, p}

CreateRequest(r) ==
  /\ status[r] = "absent"
  /\ status' = [status EXCEPT ![r] = "draft"]
  /\ UNCHANGED <<opened, received, imported, expired, rejected, call, locks, calls>>

Expire(r) ==
  /\ status[r] # "absent" /\ ~expired[r]
  /\ expired' = [expired EXCEPT ![r] = TRUE]
  /\ UNCHANGED <<rows, rejected, call, locks, calls>>

(* A malware rejection, as far as this module sees it: under FOR UPDATE.    *)
RejectEvidence(e) ==
  /\ e \notin rejected /\ holder[DocOf(e)] = None /\ sharing[e] = {}
  /\ rejected' = rejected \cup {e}
  /\ UNCHANGED <<rows, expired, call, locks, calls>>

(* SupplierTokenService.resolve, without a lock; accept has no token and    *)
(* reads the model of the request.                                          *)
Begin(p, op, r, body) ==
  /\ call[p].step = "idle" /\ calls < MaxCalls
  /\ status[r] # "absent" /\ (op # "accept" => IsOpen(r))
  /\ op = "submit" => received[r][body] < MaxSubmits   \* bound
  /\ call' = [call EXCEPT ![p] =
       [op |-> op, step |-> IF op = "accept" THEN "model" ELSE "request", request |-> r, body |-> body, want |-> body]]
  /\ calls' = calls + 1
  /\ UNCHANGED <<rows, expired, rejected, locks>>

LockModel(p) ==
  /\ call[p].step = "model" /\ Free(ModelRow(call[p].request), p)
  /\ holder' = [holder EXCEPT ![ModelRow(call[p].request)] = p]
  /\ Goes(p, "request")
  /\ UNCHANGED <<rows, expired, rejected, sharing, calls>>

(* lockRequest, and what each handler does before it locks evidence.        *)
LockRequest(p) ==
  LET r == call[p].request IN
  /\ call[p].step = "request" /\ Free(RowOf(r), p)
  /\ \/ /\ StillOpen(r)
        /\ call[p].op = "accept" => received[r] # Nothing
        /\ call[p].op = "submit" => received[r][call[p].body] < MaxSubmits   \* bound
        /\ holder' = [holder EXCEPT ![RowOf(r)] = p]
        /\ call' = [call EXCEPT ![p].step = "evidence", ![p].want = IF call[p].op = "accept" THEN AcceptOrder(r) ELSE @]
        /\ UNCHANGED sharing
     \/ /\ ~StillOpen(r) \/ (call[p].op = "accept" /\ received[r] = Nothing)
        /\ Ends(p)
  /\ UNCHANGED <<rows, expired, rejected, calls>>

(* submit inserts the link of a submission to a document.                   *)
ShareEvidence(p) ==
  LET e == Head(call[p].want) IN
  /\ call[p].step = "evidence" /\ call[p].op = "submit" /\ call[p].want # <<>>
  /\ Free(DocOf(e), p)
  /\ sharing' = [sharing EXCEPT ![e] = @ \cup {p}]
  /\ call' = [call EXCEPT ![p].want = Tail(@)]
  /\ UNCHANGED <<rows, expired, rejected, holder, calls>>

(* Mutant of LockEvidence: a document is only read.                         *)
ReadEvidence(p) ==
  LET e == Head(call[p].want) IN
  /\ call[p].step = "evidence" /\ call[p].op = "accept" /\ call[p].want # <<>>
  /\ \/ e \notin rejected /\ call' = [call EXCEPT ![p].want = Tail(@)] /\ UNCHANGED locks
     \/ e \in rejected /\ Ends(p)
  /\ UNCHANGED <<rows, expired, rejected, calls>>

(* accept locks a document and looks whether it is rejected.                *)
LockEvidence(p) ==
  LET e == Head(call[p].want) IN
  /\ call[p].step = "evidence" /\ call[p].op = "accept" /\ call[p].want # <<>>
  /\ Free(DocOf(e), p) /\ sharing[e] \subseteq {p}
  /\ \/ /\ e \notin rejected
        /\ holder' = [holder EXCEPT ![DocOf(e)] = p]
        /\ call' = [call EXCEPT ![p].want = Tail(@)]
        /\ UNCHANGED sharing
     \/ e \in rejected /\ Ends(p)   \* EVIDENCE_NOT_READY
  /\ UNCHANGED <<rows, expired, rejected, calls>>

(* The last assertOpen, on the request as it was read under the lock.       *)
CheckTime(p) ==
  /\ call[p].step = "evidence" /\ call[p].want = <<>>
  /\ IF expired[call[p].request] THEN Ends(p) ELSE Goes(p, "write") /\ UNCHANGED locks
  /\ UNCHANGED <<rows, expired, rejected, calls>>

(* portalSession: only a request nobody has answered becomes opened.        *)
Opened(s) == IF s = "draft" THEN "opened" ELSE s

Commit(p) ==
  LET r == call[p].request IN
  /\ call[p].step = "write"
  /\ \/ /\ call[p].op = "session"
        /\ opened' = [opened EXCEPT ![r] = TRUE]
        /\ status' = IF opened[r] THEN status ELSE [status EXCEPT ![r] = Opened(@)]
        /\ UNCHANGED <<received, imported>>
     \/ /\ call[p].op = "submit"
        /\ received' = [received EXCEPT ![r][call[p].body] = @ + 1]
        /\ status' = [status EXCEPT ![r] = "submitted"]
        /\ UNCHANGED <<opened, imported>>
     \/ /\ call[p].op = "accept"
        /\ imported' = [imported EXCEPT ![r] = [body \in Bodies |-> @[body] + received[r][body]]]
        /\ status' = [status EXCEPT ![r] = "accepted"]
        /\ UNCHANGED <<opened, received>>
  /\ Ends(p)
  /\ UNCHANGED <<expired, rejected, calls>>

(* Any error after the transaction began.                                   *)
Rollback(p) ==
  /\ call[p].step # "idle"
  /\ Ends(p)
  /\ UNCHANGED <<rows, expired, rejected, calls>>

-----------------------------------------------------------------------------
(* Deadlock detection                                                       *)

(* The transactions p waits for.                                            *)
WaitsFor(p) ==
  LET c == call[p] IN
  CASE c.step = "model" -> {holder[ModelRow(c.request)]} \ {None, p}
    [] c.step = "request" -> {holder[RowOf(c.request)]} \ {None, p}
    [] c.step = "evidence" /\ c.want # <<>> ->
         ({holder[DocOf(Head(c.want))]} \cup IF c.op = "accept" THEN sharing[Head(c.want)] ELSE {}) \ {None, p}
    [] OTHER -> {}

(* S cannot go on: each of S waits for another of S.                        *)
Cycle(S) == S # {} /\ \A p \in S : WaitsFor(p) \cap S # {}

Step(p) ==
  LockModel(p) \/ LockRequest(p) \/ ShareEvidence(p) \/ LockEvidence(p) \/ CheckTime(p) \/ Commit(p)

Next ==
  \/ \E r \in Requests : CreateRequest(r) \/ Expire(r)
  \/ \E e \in Evidence : RejectEvidence(e)
  \/ \E p \in Procs, r \in Requests, body \in Bodies : Begin(p, "submit", r, body)
  \/ \E p \in Procs, r \in Requests, op \in {"session", "accept"} : Begin(p, op, r, <<>>)
  \/ \E p \in Procs : Step(p) \/ Rollback(p)

Spec == Init /\ [][Next]_vars
-----------------------------------------------------------------------------
(* Properties                                                               *)

(* Calls, rows and locks are well formed, and no request has more values    *)
(* than it may have submissions.                                            *)
TypeOK ==
  /\ status \in [Requests -> RequestStatus]
  /\ opened \in [Requests -> BOOLEAN] /\ expired \in [Requests -> BOOLEAN]
  /\ received \in [Requests -> [Bodies -> 0..MaxSubmits]] /\ imported \in [Requests -> [Bodies -> 0..MaxSubmits]]
  /\ rejected \subseteq Evidence
  /\ call \in [Procs -> Call]
  /\ holder \in [Lockable -> Procs \cup {None}] /\ sharing \in [Evidence -> SUBSET Procs]
  /\ calls \in 0..MaxCalls

Promise == INSTANCE SupplierPromise WITH closed <- {r \in Requests : status[r] = "accepted"}

(* Every request keeps the promise: "resolving a capability before the      *)
(* transaction is not a lock: acceptance may have closed the request in the *)
(* meantime" (suppliers.controller.ts:114).                                 *)
KeepsPromise == Promise!Spec

Progress(s) == CASE s = "absent" -> 0 [] s = "draft" -> 1 [] s = "opened" -> 2 [] s = "submitted" -> 3 [] s = "accepted" -> 4

(* The status never goes back: a session that began before a submission or  *)
(* an acceptance does not reopen the request.                               *)
StatusAdvances == [][\A r \in Requests : Progress(status'[r]) >= Progress(status[r])]_vars

(* No value is accepted with a document that is rejected by then, however   *)
(* long accept waits for its locks.                                         *)
AcceptedIsUsable ==
  [][\A r \in Requests : status'[r] = "accepted" /\ status[r] # "accepted" => Documents(r) \cap rejected = {}]_vars

(* Transactions only wait for each other in a circle when a submission      *)
(* names its documents in another order than that of their ids.             *)
OnlyUnsortedSubmitsDeadlock ==
  \A S \in SUBSET Procs : Cycle(S) =>
    \E p \in S : /\ call[p].op = "submit"
                 /\ \E i, j \in DOMAIN call[p].body : i < j /\ call[p].body[i] > call[p].body[j]
=============================================================================
