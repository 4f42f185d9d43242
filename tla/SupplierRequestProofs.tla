----------------------- MODULE SupplierRequestProofs ------------------------
(***************************************************************************)
(* For any number of calls, requests and documents:                         *)
(*                                                                         *)
(*   - a supplier request keeps the promise of SupplierPromise, and its     *)
(*     status never goes back.  Both rest on CallsHoldTheirRequest: a call  *)
(*     that has passed assertOpen holds its request, and what assertOpen    *)
(*     saw still stands;                                                    *)
(*   - an accepted request has only documents that are not rejected, and    *)
(*     calls only wait for each other in a circle when a submission names   *)
(*     its documents out of order.  Both rest on LocksInOrder: the          *)
(*     documents a call has locked come before those it still wants.        *)
(*                                                                         *)
(* Induction over a set of documents is done by a smallest counterexample   *)
(* (SmallestFiniteSet), which the well-founded orders of the library give   *)
(* without an operator parameter.                                           *)
(***************************************************************************)
EXTENDS SupplierRequest, FiniteSetTheorems, WellFoundedInduction, TLAPS

(* A call is a record; what its want holds is said by WantsInOrder below.   *)
IsCall(c) == c = [op |-> c.op, step |-> c.step, request |-> c.request, body |-> c.body, want |-> c.want]

CallsAreCalls ==
  /\ call = [p \in Procs |-> call[p]]
  /\ \A p \in Procs : IsCall(call[p])

(* What the proof needs of the types.                                       *)
Types ==
  /\ status \in [Requests -> RequestStatus]
  /\ CallsAreCalls
  /\ holder \in [Lockable -> Procs \cup {None}]
  /\ DOMAIN received = Requests /\ DOMAIN imported = Requests

Past == {"evidence", "write"}   \* assertOpen has passed

(* A call past assertOpen holds its request, which is still open, and       *)
(* accept has found submissions.                                            *)
CallsHoldTheirRequest ==
  \A p \in Procs : call[p].step \in Past =>
    LET r == call[p].request IN
    /\ holder[RowOf(r)] = p
    /\ status[r] # "accepted"
    /\ call[p].op = "accept" => received[r] # Nothing

(* A running call is about a request, and submit carries a body.            *)
CallsAreAboutRequests ==
  \A p \in Procs : call[p].step # "idle" =>
    call[p].request \in Requests /\ (call[p].op = "submit" => call[p].body \in Bodies)

SInv == Types /\ CallsHoldTheirRequest /\ CallsAreAboutRequests

-----------------------------------------------------------------------------
(* A request can be locked.                                                 *)
LEMMA RequestsAreRows == \A r \in Requests : RowOf(r) \in Lockable
  BY DEF RowOf, Lockable

(* What a process does leaves the calls and locks of the others alone.      *)
OthersKeep(p) ==
  \A q \in Procs \ {p} :
    /\ call'[q] = call[q]
    /\ \A x \in Lockable : holder[x] = q => holder'[x] = q

(* The end of a call.                                                       *)
LEMMA EndsFrame ==
  ASSUME Types, NEW p \in Procs, Ends(p)
  PROVE  /\ OthersKeep(p) /\ call'[p] = Idle
         /\ CallsAreCalls' /\ holder' \in [Lockable -> Procs \cup {None}]
<1>1. IsCall(Idle)
 BY DEF Idle, IsCall
<1>2. call' = [call EXCEPT ![p] = Idle] /\ holder' = [x \in Lockable |-> IF holder[x] = p THEN None ELSE holder[x]]
  BY DEF Ends
<1>3. CallsAreCalls' /\ call'[p] = Idle /\ \A q \in Procs \ {p} : call'[q] = call[q]
  BY <1>1, <1>2 DEF Types, CallsAreCalls
<1>4. holder' \in [Lockable -> Procs \cup {None}]
  BY <1>2 DEF Types
<1>5. \A q \in Procs \ {p}, x \in Lockable : holder[x] = q => holder'[x] = q
  BY <1>2
<1> QED
  BY <1>3, <1>4, <1>5 DEF OthersKeep

(* Taking a free row.                                                       *)
LEMMA LockFrame ==
  ASSUME Types, None \notin Procs, NEW p \in Procs, NEW x \in Lockable, Free(x, p),
         holder' = [holder EXCEPT ![x] = p]
  PROVE  /\ holder' \in [Lockable -> Procs \cup {None}] /\ holder'[x] = p
         /\ \A q \in Procs \ {p} : \A y \in Lockable : holder[y] = q => holder'[y] = q
<1>1. holder[x] \in {None, p}
  BY DEF Free
<1> QED
  BY <1>1 DEF Types

(* The next thing a call wants.                                             *)
LEMMA WantChanges ==
  ASSUME NEW c, IsCall(c), NEW w, NEW d, d = [c EXCEPT !.want = w]
  PROVE  IsCall(d) /\ d.op = c.op /\ d.step = c.step /\ d.request = c.request /\ d.body = c.body /\ d.want = w
<1>1. d = [op |-> c.op, step |-> c.step, request |-> c.request, body |-> c.body, want |-> w]
  BY DEF IsCall
<1> QED
  BY <1>1 DEF IsCall

(* A call that moves on is a call.                                          *)
LEMMA CallMoves ==
  ASSUME Types, NEW p \in Procs, NEW c, IsCall(c), call' = [call EXCEPT ![p] = c]
  PROVE  /\ CallsAreCalls' /\ call'[p] = c
         /\ \A q \in Procs \ {p} : call'[q] = call[q]
<1>1. call'[p] = c /\ \A q \in Procs \ {p} : call'[q] = call[q]
  BY DEF Types, CallsAreCalls
<1> QED
  BY <1>1 DEF Types, CallsAreCalls

-----------------------------------------------------------------------------
(* The invariant holds at first.                                            *)
LEMMA SInvInit ==
  ASSUME Init
  PROVE  SInv
<1>1. IsCall(Idle) /\ Idle.step = "idle"
  BY DEF Idle, IsCall
<1>2. \A p \in Procs : call[p] = Idle
  BY DEF Init
<1>3. Types
  BY <1>1 DEF Init, Types, RequestStatus, CallsAreCalls
<1> QED
  BY <1>1, <1>2, <1>3 DEF SInv, CallsHoldTheirRequest, CallsAreAboutRequests, Past

(* Steps that leave calls, locks and submissions alone and close nothing.   *)
LEMMA QuietSteps ==
  ASSUME SInv, UNCHANGED <<call, holder, received, imported>>, status' \in [Requests -> RequestStatus],
         \A r \in Requests : status'[r] = "accepted" => status[r] = "accepted"
  PROVE  SInv'
<1>1. Types'
  BY DEF SInv, Types, CallsAreCalls
<1>2. CallsAreAboutRequests'
  BY DEF SInv, CallsAreAboutRequests
<1>3. CallsHoldTheirRequest'
  <2> SUFFICES ASSUME NEW p \in Procs, call'[p].step \in Past
               PROVE  /\ holder'[RowOf(call'[p].request)] = p
                      /\ status'[call'[p].request] # "accepted"
                      /\ call'[p].op = "accept" => received'[call'[p].request] # Nothing
    BY DEF CallsHoldTheirRequest, RowOf
  <2>1. call[p].request \in Requests /\ call[p].step \in Past /\ call' = call
    BY DEF SInv, CallsAreAboutRequests, Past
  <2> QED
    BY <2>1 DEF SInv, CallsHoldTheirRequest
<1> QED
  BY <1>1, <1>2, <1>3 DEF SInv

(* A step of p that leaves the rows alone keeps the invariant if p keeps    *)
(* its part of it.                                                          *)
LEMMA StepOfOne ==
  ASSUME SInv, NEW p \in Procs, UNCHANGED rows, OthersKeep(p),
         CallsAreCalls', holder' \in [Lockable -> Procs \cup {None}],
         call'[p].step # "idle" =>
           call'[p].request \in Requests /\ (call'[p].op = "submit" => call'[p].body \in Bodies),
         call'[p].step \in Past =>
           /\ holder'[RowOf(call'[p].request)] = p
           /\ status[call'[p].request] # "accepted"
           /\ call'[p].op = "accept" => received[call'[p].request] # Nothing
  PROVE  SInv'
<1>1. Types'
  BY DEF SInv, Types, rows
<1>2. CallsAreAboutRequests'
  <2> SUFFICES ASSUME NEW q \in Procs, call'[q].step # "idle"
               PROVE  call'[q].request \in Requests /\ (call'[q].op = "submit" => call'[q].body \in Bodies)
    BY DEF CallsAreAboutRequests
  <2> QED
    BY DEF SInv, CallsAreAboutRequests, OthersKeep
<1>3. CallsHoldTheirRequest'
  <2> SUFFICES ASSUME NEW q \in Procs, call'[q].step \in Past
               PROVE  /\ holder'[RowOf(call'[q].request)] = q
                      /\ status'[call'[q].request] # "accepted"
                      /\ call'[q].op = "accept" => received'[call'[q].request] # Nothing
    BY DEF CallsHoldTheirRequest, RowOf
  <2>1. CASE q = p
    BY <2>1 DEF rows
  <2>2. CASE q # p
    <3>1. call'[q] = call[q] /\ call[q].step \in Past /\ call[q].request \in Requests
      BY <2>2 DEF OthersKeep, SInv, CallsAreAboutRequests, Past
    <3>2. RowOf(call[q].request) \in Lockable
      BY <3>1, RequestsAreRows
    <3> QED
      BY <2>2, <3>1, <3>2 DEF SInv, CallsHoldTheirRequest, OthersKeep, rows
  <2> QED
    BY <2>1, <2>2
<1> QED
  BY <1>1, <1>2, <1>3 DEF SInv

(* A call that ends without a write.                                        *)
LEMMA EndsKeeps ==
  ASSUME SInv, NEW p \in Procs, Ends(p), UNCHANGED rows
  PROVE  SInv'
<1>1. Types
  BY DEF SInv
<1>2. OthersKeep(p) /\ call'[p] = Idle /\ CallsAreCalls' /\ holder' \in [Lockable -> Procs \cup {None}]
  BY <1>1, EndsFrame
<1>3. call'[p].step = "idle" /\ call'[p].step \notin Past
  BY <1>2 DEF Idle, Past
<1> QED
  BY <1>2, <1>3, StepOfOne

(* A process past assertOpen that changes neither its request nor its lock. *)
LEMMA PastKeeps ==
  ASSUME SInv, NEW p \in Procs, UNCHANGED rows, call[p].step \in Past, NEW c, IsCall(c),
         call' = [call EXCEPT ![p] = c],
         c.op = call[p].op, c.request = call[p].request, c.body = call[p].body,
         holder' \in [Lockable -> Procs \cup {None}],
         \A q \in Procs : \A x \in Lockable : holder[x] = q => holder'[x] = q
  PROVE  SInv'
<1>1. CallsAreCalls' /\ call'[p] = c /\ OthersKeep(p)
  <2>1. Types
    BY DEF SInv
  <2> QED
    BY <2>1, CallMoves DEF OthersKeep
<1>2. call[p].request \in Requests /\ (call[p].op = "submit" => call[p].body \in Bodies)
  BY DEF SInv, CallsAreAboutRequests, Past
<1>3. holder'[RowOf(c.request)] = p
  BY <1>2, RequestsAreRows DEF SInv, CallsHoldTheirRequest
<1>4. status[c.request] # "accepted" /\ (c.op = "accept" => received[c.request] # Nothing)
  BY DEF SInv, CallsHoldTheirRequest
<1> QED
  BY <1>1, <1>2, <1>3, <1>4, StepOfOne

-----------------------------------------------------------------------------
(* Each operation keeps the invariant.                                      *)

LEMMA BeginKeeps ==
  ASSUME SInv, NEW p \in Procs, NEW op, NEW r \in Requests, NEW body,
         op = "submit" => body \in Bodies, Begin(p, op, r, body)
  PROVE  SInv'
<1> DEFINE new == [op |-> op, step |-> IF op = "accept" THEN "model" ELSE "request",
                   request |-> r, body |-> body, want |-> body]
<1>1. call' = [call EXCEPT ![p] = new] /\ UNCHANGED <<rows, locks>>
  BY DEF Begin
<1>2. IsCall(new)
  BY DEF IsCall
<1>3. Types
  BY DEF SInv
<1>4. CallsAreCalls' /\ call'[p] = new /\ \A q \in Procs \ {p} : call'[q] = call[q]
  <2> HIDE DEF new
  <2> QED
    BY <1>1, <1>2, <1>3, CallMoves
<1>5. holder' \in [Lockable -> Procs \cup {None}] /\ OthersKeep(p)
  BY <1>1, <1>3, <1>4 DEF Types, OthersKeep, locks
<1>6. call'[p].request \in Requests /\ (call'[p].op = "submit" => call'[p].body \in Bodies)
  BY <1>4
<1>7. call'[p].step \notin Past
  BY <1>4 DEF Past
<1> QED
  BY <1>1, <1>4, <1>5, <1>6, <1>7, StepOfOne

LEMMA LockModelKeeps ==
  ASSUME SInv, NEW p \in Procs, LockModel(p)
  PROVE  SInv'
<1> DEFINE r == call[p].request
           c == [call[p] EXCEPT !.step = "request"]
<1>1. Types /\ r \in Requests /\ (call[p].op = "submit" => call[p].body \in Bodies) /\ IsCall(call[p])
  BY DEF SInv, CallsAreAboutRequests, LockModel, Types, CallsAreCalls
<1>2. ModelRow(r) \in Lockable /\ Free(ModelRow(r), p) /\ holder' = [holder EXCEPT ![ModelRow(r)] = p]
  BY <1>1, SupplierAssumption DEF LockModel, ModelRow, Lockable
<1>3. /\ holder' \in [Lockable -> Procs \cup {None}]
      /\ \A q \in Procs \ {p} : \A y \in Lockable : holder[y] = q => holder'[y] = q
  <2> HIDE DEF r
  <2> QED
    BY <1>1, <1>2, SupplierAssumption, LockFrame
<1>4. call' = [call EXCEPT ![p] = c] /\ UNCHANGED rows
  BY DEF LockModel, Goes
<1>5. IsCall(c) /\ c.request = r /\ c.op = call[p].op /\ c.body = call[p].body /\ c.step = "request"
  BY <1>1 DEF IsCall
<1>6. CallsAreCalls' /\ call'[p] = c /\ OthersKeep(p)
  <2> HIDE DEF c
  <2> QED
    BY <1>1, <1>3, <1>4, <1>5, CallMoves DEF OthersKeep
<1>7. call'[p].step \notin Past
  BY <1>5, <1>6 DEF Past
<1> QED
  BY <1>1, <1>3, <1>4, <1>5, <1>6, <1>7, StepOfOne

LEMMA LockRequestKeeps ==
  ASSUME SInv, None \notin Procs, NEW p \in Procs, LockRequest(p)
  PROVE  SInv'
<1> DEFINE r == call[p].request
           c == [call[p] EXCEPT !.step = "evidence", !.want = IF call[p].op = "accept" THEN AcceptOrder(r) ELSE @]
<1>1. UNCHANGED rows
  BY DEF LockRequest
<1>2. CASE Ends(p)
  BY <1>1, <1>2, EndsKeeps
<1>3. CASE /\ Free(RowOf(r), p) /\ StillOpen(r) /\ (call[p].op = "accept" => received[r] # Nothing)
           /\ holder' = [holder EXCEPT ![RowOf(r)] = p] /\ call' = [call EXCEPT ![p] = c]
  <2>1. Types /\ r \in Requests /\ (call[p].op = "submit" => call[p].body \in Bodies) /\ IsCall(call[p])
    BY DEF SInv, CallsAreAboutRequests, LockRequest, Types, CallsAreCalls
  <2>2. /\ holder' \in [Lockable -> Procs \cup {None}] /\ holder'[RowOf(r)] = p
        /\ \A q \in Procs \ {p} : \A y \in Lockable : holder[y] = q => holder'[y] = q
    <3> HIDE DEF r, c
    <3> QED
      BY <1>3, <2>1, RequestsAreRows, LockFrame
  <2>3. IsCall(c) /\ c.request = r /\ c.op = call[p].op /\ c.body = call[p].body
    <3> DEFINE d == [call[p] EXCEPT !.step = "evidence"]
               w == IF call[p].op = "accept" THEN AcceptOrder(r) ELSE call[p].want
    <3>1. IsCall(d) /\ d.request = r /\ d.op = call[p].op /\ d.body = call[p].body
      BY <2>1 DEF IsCall
    <3>2. c = [d EXCEPT !.want = w]
      OBVIOUS
    <3> HIDE DEF c, d, w
    <3> QED
      BY <3>1, <3>2, WantChanges
  <2>4. CallsAreCalls' /\ call'[p] = c /\ OthersKeep(p)
    <3> HIDE DEF r, c
    <3> QED
      BY <1>3, <2>1, <2>2, <2>3, CallMoves DEF OthersKeep
  <2>5. status[r] # "accepted"
    BY <1>3 DEF StillOpen, IsOpen
  <2> HIDE DEF r, c
  <2> QED
    BY <1>1, <1>3, <2>1, <2>2, <2>3, <2>4, <2>5, StepOfOne
<1> QED
  BY <1>2, <1>3 DEF LockRequest

LEMMA ShareEvidenceKeeps ==
  ASSUME SInv, NEW p \in Procs, ShareEvidence(p)
  PROVE  SInv'
<1> DEFINE c == [call[p] EXCEPT !.want = Tail(@)]
<1>1. call' = [call EXCEPT ![p] = c] /\ UNCHANGED <<rows, holder>> /\ call[p].step \in Past
  BY DEF ShareEvidence, Past
<1>2. IsCall(call[p]) /\ holder \in [Lockable -> Procs \cup {None}]
  BY DEF SInv, Types, CallsAreCalls
<1>3. IsCall(c) /\ c.request = call[p].request /\ c.op = call[p].op /\ c.body = call[p].body
  <2> DEFINE w == Tail(call[p].want)
  <2>1. c = [call[p] EXCEPT !.want = w]
    OBVIOUS
  <2> HIDE DEF c, w
  <2> QED
    BY <1>2, <2>1, WantChanges
<1> HIDE DEF c
<1> QED
  BY <1>1, <1>2, <1>3, PastKeeps

LEMMA LockEvidenceKeeps ==
  ASSUME SInv, None \notin Procs, NEW p \in Procs, LockEvidence(p)
  PROVE  SInv'
<1> DEFINE c == [call[p] EXCEPT !.want = Tail(@)]
           doc == DocOf(Head(call[p].want))
<1>1. UNCHANGED rows /\ call[p].step \in Past
  BY DEF LockEvidence, Past
<1>2. CASE Ends(p)
  BY <1>1, <1>2, EndsKeeps
<1>3. CASE Free(doc, p) /\ holder' = [holder EXCEPT ![doc] = p] /\ call' = [call EXCEPT ![p] = c]
  <2>1. IsCall(call[p]) /\ holder \in [Lockable -> Procs \cup {None}] 
    BY DEF SInv, Types, CallsAreCalls
  <2>2. IsCall(c) /\ c.request = call[p].request /\ c.op = call[p].op /\ c.body = call[p].body
    <3> DEFINE w == Tail(call[p].want)
    <3>1. c = [call[p] EXCEPT !.want = w]
      OBVIOUS
    <3>2. IsCall(call[p])
      BY <2>1
    <3> HIDE DEF c, w, doc
    <3> QED
      BY <3>1, <3>2, WantChanges
  <2>3. /\ holder' \in [Lockable -> Procs \cup {None}]
        /\ \A q \in Procs : \A y \in Lockable : holder[y] = q => holder'[y] = q
    <3> HIDE DEF doc
    <3>1. holder[doc] \in {None, p}
      BY <1>3 DEF Free
    <3> QED
      BY <1>3, <2>1, <3>1
  <2> HIDE DEF c, doc
  <2> QED
    BY <1>1, <1>3, <2>2, <2>3, PastKeeps
<1> QED
  BY <1>2, <1>3 DEF LockEvidence

LEMMA CheckTimeKeeps ==
  ASSUME SInv, NEW p \in Procs, CheckTime(p)
  PROVE  SInv'
<1> DEFINE c == [call[p] EXCEPT !.step = "write"]
<1>1. UNCHANGED rows /\ call[p].step \in Past
  BY DEF CheckTime, Past
<1>2. CASE Ends(p)
  BY <1>1, <1>2, EndsKeeps
<1>3. CASE call' = [call EXCEPT ![p] = c] /\ UNCHANGED holder
  <2>1. IsCall(call[p]) /\ holder \in [Lockable -> Procs \cup {None}]
    BY DEF SInv, Types, CallsAreCalls
  <2>2. IsCall(c) /\ c.request = call[p].request /\ c.op = call[p].op /\ c.body = call[p].body
    BY <2>1 DEF IsCall
  <2> HIDE DEF c
  <2> QED
    BY <1>1, <1>3, <2>1, <2>2, PastKeeps
<1> QED
  BY <1>2, <1>3 DEF CheckTime, Goes, locks

(* What a commit does to the rows: only those of its request.               *)
LEMMA CommitFrame ==
  ASSUME SInv, NEW p \in Procs, Commit(p)
  PROVE  LET r == call[p].request IN
         /\ r \in Requests /\ holder[RowOf(r)] = p /\ status[r] # "accepted"
         /\ status' \in [Requests -> RequestStatus] /\ DOMAIN received' = Requests /\ DOMAIN imported' = Requests
         /\ \A s \in Requests \ {r} : status'[s] = status[s] /\ received'[s] = received[s] /\ imported'[s] = imported[s]
<1> DEFINE r == call[p].request
<1>1. r \in Requests /\ holder[RowOf(r)] = p /\ status[r] # "accepted"
  BY DEF Commit, SInv, CallsHoldTheirRequest, CallsAreAboutRequests, Past
<1>2. status \in [Requests -> RequestStatus] /\ DOMAIN received = Requests /\ DOMAIN imported = Requests
  BY DEF SInv, Types
<1> HIDE DEF r
<1>3. \/ UNCHANGED <<received, imported>>
      \/ received' = [received EXCEPT ![r][call[p].body] = @ + 1] /\ UNCHANGED imported
      \/ imported' = [imported EXCEPT ![r] = [body \in Bodies |-> @[body] + received[r][body]]] /\ UNCHANGED received
  BY DEF Commit, r
<1>4. \/ UNCHANGED status
      \/ \E s \in RequestStatus : status' = [status EXCEPT ![r] = s]
  <2>1. CASE call[p].op = "session"
    <3>1. Opened(status[r]) \in RequestStatus
      BY <1>1, <1>2 DEF Opened, RequestStatus
    <3>2. status' = IF opened[r] THEN status ELSE [status EXCEPT ![r] = Opened(@)]
      BY <2>1 DEF Commit, r
    <3> QED
      BY <3>1, <3>2
  <2>2. CASE call[p].op # "session"
    <3>1. \/ status' = [status EXCEPT ![r] = "submitted"]
          \/ status' = [status EXCEPT ![r] = "accepted"]
      BY <2>2 DEF Commit, r
    <3> QED
      BY <3>1 DEF RequestStatus
  <2> QED
    BY <2>1, <2>2
<1>5. DOMAIN received' = Requests /\ DOMAIN imported' = Requests
      /\ \A s \in Requests \ {r} : received'[s] = received[s] /\ imported'[s] = imported[s]
  BY <1>2, <1>3
<1>6. status' \in [Requests -> RequestStatus] /\ \A s \in Requests \ {r} : status'[s] = status[s]
  BY <1>2, <1>4
<1> QED
  BY <1>1, <1>5, <1>6 DEF r

LEMMA CommitKeeps ==
  ASSUME SInv, NEW p \in Procs, Commit(p)
  PROVE  SInv'
<1> DEFINE r == call[p].request
<1>1. Types /\ Ends(p)
  BY DEF SInv, Commit
<1>2. /\ OthersKeep(p) /\ call'[p] = Idle
      /\ CallsAreCalls' /\ holder' \in [Lockable -> Procs \cup {None}]
  BY <1>1, EndsFrame
<1>3. /\ r \in Requests /\ holder[RowOf(r)] = p
      /\ status' \in [Requests -> RequestStatus] /\ DOMAIN received' = Requests /\ DOMAIN imported' = Requests
      /\ \A s \in Requests \ {r} : status'[s] = status[s] /\ received'[s] = received[s]
  BY CommitFrame
<1> HIDE DEF r
<1>4. Types'
  BY <1>2, <1>3 DEF Types
<1>5. Idle.step = "idle"
  BY DEF Idle
<1>6. CallsAreAboutRequests'
  <2> SUFFICES ASSUME NEW q \in Procs, call'[q].step # "idle"
               PROVE  call'[q].request \in Requests /\ (call'[q].op = "submit" => call'[q].body \in Bodies)
    BY DEF CallsAreAboutRequests
  <2> QED
    BY <1>2, <1>5 DEF SInv, CallsAreAboutRequests, OthersKeep
<1>7. CallsHoldTheirRequest'
  <2> SUFFICES ASSUME NEW q \in Procs, call'[q].step \in Past
               PROVE  /\ holder'[RowOf(call'[q].request)] = q
                      /\ status'[call'[q].request] # "accepted"
                      /\ call'[q].op = "accept" => received'[call'[q].request] # Nothing
    BY DEF CallsHoldTheirRequest, RowOf
  <2>1. q # p
    BY <1>2, <1>5 DEF Past
  <2>2. call'[q] = call[q] /\ call[q].step \in Past /\ call[q].request \in Requests
    BY <1>2, <2>1 DEF OthersKeep, SInv, CallsAreAboutRequests, Past
  <2>3. /\ holder[RowOf(call[q].request)] = q /\ status[call[q].request] # "accepted"
        /\ call[q].op = "accept" => received[call[q].request] # Nothing
    BY <2>2 DEF SInv, CallsHoldTheirRequest
  <2>4. call[q].request # r
    BY <1>3, <2>1, <2>3
  <2>5. holder'[RowOf(call[q].request)] = q
    BY <1>2, <2>1, <2>2, <2>3, RequestsAreRows DEF OthersKeep
  <2> QED
    BY <1>3, <2>2, <2>3, <2>4, <2>5
<1> QED
  BY <1>4, <1>6, <1>7 DEF SInv

(* Every step keeps the invariant.                                          *)
LEMMA SInvNext ==
  ASSUME SInv, [Next]_vars
  PROVE  SInv'
<1>0. None \notin Procs
  BY SupplierAssumption
<1>1. CASE UNCHANGED vars
  <2>1. status' \in [Requests -> RequestStatus]
    BY <1>1 DEF vars, rows, SInv, Types
  <2> QED
    BY <1>1, <2>1, QuietSteps DEF vars, rows, locks
<1>2. ASSUME NEW r \in Requests, CreateRequest(r)
      PROVE  SInv'
  <2>1. status' = [status EXCEPT ![r] = "draft"] /\ status \in [Requests -> RequestStatus]
    BY <1>2 DEF CreateRequest, SInv, Types
  <2>2. status' \in [Requests -> RequestStatus] /\ \A s \in Requests : status'[s] = "accepted" => status[s] = "accepted"
    BY <2>1 DEF RequestStatus
  <2> QED
    BY <1>2, <2>2, QuietSteps DEF CreateRequest, locks
<1>3. ASSUME NEW r \in Requests, Expire(r)
      PROVE  SInv'
  <2>1. status' \in [Requests -> RequestStatus]
    BY <1>3 DEF Expire, rows, SInv, Types
  <2> QED
    BY <1>3, <2>1, QuietSteps DEF Expire, rows, locks
<1>4. ASSUME NEW e \in Evidence, RejectEvidence(e)
      PROVE  SInv'
  <2>1. status' \in [Requests -> RequestStatus]
    BY <1>4 DEF RejectEvidence, rows, SInv, Types
  <2> QED
    BY <1>4, <2>1, QuietSteps DEF RejectEvidence, rows, locks
<1>5. ASSUME NEW p \in Procs, NEW r \in Requests, NEW body \in Bodies, Begin(p, "submit", r, body)
      PROVE  SInv'
  BY <1>5, BeginKeeps
<1>6. ASSUME NEW p \in Procs, NEW r \in Requests, NEW op \in {"session", "accept"}, Begin(p, op, r, <<>>)
      PROVE  SInv'
  BY <1>6, BeginKeeps
<1>7. ASSUME NEW p \in Procs, Step(p) \/ Rollback(p)
      PROVE  SInv'
  <2>1. CASE LockModel(p)
    BY <2>1, LockModelKeeps
  <2>2. CASE LockRequest(p)
    BY <1>0, <2>2, LockRequestKeeps
  <2>3. CASE ShareEvidence(p)
    BY <2>3, ShareEvidenceKeeps
  <2>4. CASE LockEvidence(p)
    BY <1>0, <2>4, LockEvidenceKeeps
  <2>5. CASE CheckTime(p)
    BY <2>5, CheckTimeKeeps
  <2>6. CASE Commit(p)
    BY <2>6, CommitKeeps
  <2>7. CASE Rollback(p)
    BY <2>7, EndsKeeps DEF Rollback
  <2> QED
    BY <1>7, <2>1, <2>2, <2>3, <2>4, <2>5, <2>6, <2>7 DEF Step
<1> QED
  BY <1>1, <1>2, <1>3, <1>4, <1>5, <1>6, <1>7 DEF Next

THEOREM Invariance == Spec => []SInv
<1>1. Init => SInv
  BY SInvInit
<1>2. SInv /\ [Next]_vars => SInv'
  BY SInvNext
<1> QED
  BY <1>1, <1>2, PTL DEF Spec

-----------------------------------------------------------------------------
(* The promise                                                              *)

closed == {r \in Requests : status[r] = "accepted"}

(* A commit receives one body or imports what was received, of its request. *)
LEMMA CommitPromise ==
  ASSUME SInv, NEW p \in Procs, Commit(p)
  PROVE  Promise!Next \/ UNCHANGED <<closed, received, imported>>
<1> DEFINE r == call[p].request
<1>1. r \in Requests /\ status[r] # "accepted" /\ status \in [Requests -> RequestStatus]
  BY CommitFrame DEF SInv, Types
<1>2. (call[p].op = "submit" => call[p].body \in Bodies) /\ (call[p].op = "accept" => received[r] # Nothing)
  BY DEF Commit, SInv, CallsHoldTheirRequest, CallsAreAboutRequests, Past
<1> HIDE DEF r
<1>3. CASE call[p].op = "session"
  <2>1. status' = IF opened[r] THEN status ELSE [status EXCEPT ![r] = Opened(@)]
    BY <1>3 DEF Commit, r
  <2>2. \A s \in Requests : (status'[s] = "accepted") <=> (status[s] = "accepted")
    BY <1>1, <2>1 DEF Opened
  <2>3. closed' = closed
    BY <2>2 DEF closed
  <2> QED
    BY <1>3, <2>3 DEF Commit
<1>4. CASE call[p].op = "submit"
  <2>1. /\ received' = [received EXCEPT ![r][call[p].body] = @ + 1]
        /\ status' = [status EXCEPT ![r] = "submitted"] /\ UNCHANGED imported
    BY <1>4 DEF Commit, r
  <2>2. \A s \in Requests : (status'[s] = "accepted") <=> (status[s] = "accepted")
    BY <1>1, <2>1
  <2>3. closed' = closed /\ r \notin closed
    BY <1>1, <2>2 DEF closed
  <2>4. Promise!Receive(r, call[p].body)
    BY <2>1, <2>3 DEF Promise!Receive, closed
  <2> QED
    BY <1>1, <1>2, <1>4, <2>4 DEF Promise!Next
<1>5. CASE call[p].op = "accept"
  <2>1. /\ imported' = [imported EXCEPT ![r] = [body \in Bodies |-> @[body] + received[r][body]]]
        /\ status' = [status EXCEPT ![r] = "accepted"] /\ UNCHANGED received
    BY <1>5 DEF Commit, r
  <2>2. r \notin closed /\ received[r] # Nothing
    BY <1>1, <1>2, <1>5 DEF closed
  <2>3. closed' = closed \cup {r}
    BY <1>1, <2>1 DEF closed
  <2>4. Promise!Import(r)
    BY <2>1, <2>2, <2>3 DEF Promise!Import, Promise!Nothing, Nothing, closed
  <2>5. \E s \in Requests : Promise!Import(s)
    BY <1>1, <2>4 DEF Promise!Import
  <2> QED
    BY <2>5 DEF Promise!Next
<1> QED
  BY <1>3, <1>4, <1>5 DEF Commit

(* Before its commit a call changes nothing the promise speaks of.          *)
LEMMA RowsOrCommit ==
  ASSUME [Next]_vars
  PROVE  \/ UNCHANGED rows
         \/ \E r \in Requests : CreateRequest(r)
         \/ \E p \in Procs : Commit(p)
<1>1. ASSUME NEW p \in Procs, Step(p), ~Commit(p)
      PROVE  UNCHANGED rows
  BY <1>1 DEF Step, LockModel, LockRequest, ShareEvidence, LockEvidence, CheckTime
<1>2. ASSUME NEW p \in Procs, NEW op, NEW r, NEW body, Begin(p, op, r, body)
      PROVE  UNCHANGED rows
  BY <1>2 DEF Begin
<1> QED
  BY <1>1, <1>2 DEF Next, Expire, RejectEvidence, Rollback, vars

LEMMA PromiseNext ==
  ASSUME SInv, [Next]_vars
  PROVE  [Promise!Next]_<<closed, received, imported>>
<1>1. CASE UNCHANGED rows
  BY <1>1 DEF rows, closed
<1>2. ASSUME NEW s \in Requests, CreateRequest(s)
      PROVE  UNCHANGED <<closed, received, imported>>
  <2>1. status \in [Requests -> RequestStatus] /\ status[s] = "absent" /\ status' = [status EXCEPT ![s] = "draft"]
    BY <1>2 DEF SInv, Types, CreateRequest
  <2>2. \A r \in Requests : (status'[r] = "accepted") <=> (status[r] = "accepted")
    BY <2>1
  <2> QED
    BY <1>2, <2>2 DEF CreateRequest, closed
<1> QED
  BY <1>1, <1>2, CommitPromise, RowsOrCommit

(* A request collects submissions while it is open, and its acceptance      *)
(* imports them together and once, whatever calls overlap: the token that   *)
(* was checked before a transaction is checked again under the lock.        *)
THEOREM RequestsKeepTheirPromise == Spec => KeepsPromise
<1>1. Init => Promise!Init
  <2> SUFFICES ASSUME Init PROVE Promise!Init
    OBVIOUS
  <2>1. \A r \in Requests : status[r] # "accepted"
    BY DEF Init
  <2> QED
    BY <2>1 DEF Init, Promise!Init, Promise!Nothing, Nothing
<1>2. SInv /\ [Next]_vars => [Promise!Next]_<<closed, received, imported>>
  BY PromiseNext
<1> QED
  BY <1>1, <1>2, Invariance, PTL DEF Spec, KeepsPromise, Promise!Spec, Promise!vars, closed

(* The status of a request never goes back, whichever calls overlap: what a *)
(* session read before a submission or an acceptance does not reopen it.    *)
THEOREM StatusNeverGoesBack == Spec => StatusAdvances
<1>1. ASSUME SInv, [Next]_vars, NEW r \in Requests
      PROVE  Progress(status'[r]) >= Progress(status[r])
  <2>0. status \in [Requests -> RequestStatus]
    BY <1>1 DEF SInv, Types
  <2>1. CASE status'[r] = status[r]
    BY <2>0, <2>1 DEF Progress, RequestStatus
  <2>2. ASSUME NEW s \in Requests, CreateRequest(s), status'[r] # status[r]
        PROVE  Progress(status'[r]) >= Progress(status[r])
    <3>1. status[r] = "absent" /\ status'[r] = "draft"
      BY <2>0, <2>2 DEF CreateRequest
    <3> QED
      BY <3>1 DEF Progress
  <2>3. ASSUME NEW p \in Procs, Commit(p), status'[r] # status[r]
        PROVE  Progress(status'[r]) >= Progress(status[r])
    <3>1. r = call[p].request /\ status[r] # "accepted"
      BY <1>1, <2>3, CommitFrame
    <3>2. \/ status'[r] = Opened(status[r])
          \/ status'[r] \in {"submitted", "accepted"}
      BY <2>0, <2>3, <3>1 DEF Commit
    <3> QED
      BY <2>0, <2>3, <3>1, <3>2 DEF Progress, Opened, RequestStatus
  <2> QED
    BY <1>1, <2>1, <2>2, <2>3, RowsOrCommit DEF rows
<1>2. ASSUME SInv, [Next]_vars
      PROVE  [\A r \in Requests : Progress(status'[r]) >= Progress(status[r])]_vars
  BY <1>1, <1>2
<1> QED
  BY <1>2, Invariance, PTL DEF Spec, StatusAdvances

-----------------------------------------------------------------------------
(* Finite sets of numbers                                                   *)

(* Induction over finite sets: among finite sets there is a smallest one.   *)
LEMMA SmallestFiniteSet ==
  ASSUME NEW F, F # {}, \A U \in F : IsFiniteSet(U)
  PROVE  \E U \in F : \A V \in F : V \subseteq U => V = U
<1> DEFINE S == UNION F
<1>1. IsWellFoundedOn(StrictSubsetOrdering(S), FiniteSubsetsOf(S))
  BY FS_StrictSubsetOrderingWellFounded
<1>2. F \subseteq FiniteSubsetsOf(S)
  BY DEF FiniteSubsetsOf
<1>3. PICK U \in F : \A V \in F : ~(<<V, U>> \in StrictSubsetOrdering(S))
  BY <1>1, <1>2, WFMin
<1>4. \A V \in F : V \subseteq U /\ V # U => <<V, U>> \in StrictSubsetOrdering(S)
  BY DEF StrictSubsetOrdering
<1>5. \A V \in F : V \subseteq U => V = U
  BY <1>3, <1>4
<1> QED
  BY <1>5

(* A finite set of numbers has a greatest one.                               *)
LEMMA GreatestNatural ==
  ASSUME NEW T, T \subseteq Nat, T # {}, IsFiniteSet(T)
  PROVE  \E n \in T : \A m \in T : m <= n
<1> DEFINE F == {U \in SUBSET T : U # {} /\ ~\E n \in U : \A m \in U : m <= n}
<1>1. SUFFICES ASSUME F # {} PROVE FALSE
  BY DEF F
<1>2. \A U \in F : IsFiniteSet(U)
  BY FS_Subset
<1> HIDE DEF F
<1>3. PICK U \in F : \A V \in F : V \subseteq U => V = U
  BY <1>1, <1>2, SmallestFiniteSet
<1> USE DEF F
<1>4. PICK n \in U : TRUE
  BY <1>3
<1>5. PICK k \in U \ {n} : \A m \in U \ {n} : m <= k
  <2>1. U \ {n} # {}
    BY <1>3, <1>4
  <2>2. U \ {n} \notin F
    BY <1>3, <1>4
  <2> QED
    BY <2>1, <2>2, <1>3
<1>6. IF n <= k THEN \A m \in U : m <= k ELSE \A m \in U : m <= n
  BY <1>3, <1>4, <1>5
<1> QED
  BY <1>3, <1>4, <1>5, <1>6

Ascending(s) == \A i, j \in 1..Len(s) : i < j => s[i] < s[j]

IsSorted(s, T) == s \in [1..Cardinality(T) -> T] /\ \A i, j \in 1..Cardinality(T) : i < j => s[i] < s[j]

(* Documents can be put in the order of their ids.                          *)
LEMMA SortedExists ==
  ASSUME NEW T, T \subseteq Nat, IsFiniteSet(T)
  PROVE  \E s : IsSorted(s, T)
<1> DEFINE F == {U \in SUBSET T : ~\E s : IsSorted(s, U)}
<1>1. SUFFICES ASSUME F # {} PROVE FALSE
  BY DEF F
<1>2. \A U \in F : IsFiniteSet(U)
  BY FS_Subset
<1> HIDE DEF F
<1>3. PICK U \in F : \A V \in F : V \subseteq U => V = U
  BY <1>1, <1>2, SmallestFiniteSet
<1> USE DEF F
<1>4. U \subseteq Nat /\ IsFiniteSet(U)
  BY <1>2, <1>3
<1>5. U # {}
  <2>1. SUFFICES ASSUME U = {} PROVE \E s : IsSorted(s, U)
    BY <1>3
  <2>2. IsSorted([i \in 1..0 |-> 0], {})
    BY FS_EmptySet DEF IsSorted
  <2> QED
    BY <2>1, <2>2
<1>6. PICK n \in U : \A m \in U : m <= n
  BY <1>4, <1>5, GreatestNatural
<1> DEFINE V == U \ {n}
<1>7. PICK s : IsSorted(s, V)
  BY <1>3, <1>6
<1>8. PICK k \in Nat : Cardinality(V) = k /\ Cardinality(U) = k + 1
  <2>1. Cardinality(V) = Cardinality(U) - 1 /\ IsFiniteSet(V)
    BY <1>4, <1>6, FS_RemoveElement
  <2>2. Cardinality(U) \in Nat /\ Cardinality(V) \in Nat
    BY <1>4, <2>1, FS_CardinalityType
  <2> QED
    BY <2>1, <2>2
<1>9. s \in [1..k -> V] /\ \A i, j \in 1..k : i < j => s[i] < s[j]
  BY <1>7, <1>8 DEF IsSorted
<1> DEFINE t == [i \in 1..k + 1 |-> IF i = k + 1 THEN n ELSE s[i]]
<1>10. t \in [1..k + 1 -> U]
  <2>1. \A i \in 1..k + 1 : i # k + 1 => s[i] \in V
    BY <1>9
  <2> QED
    BY <1>6, <2>1
<1>11. \A i, j \in 1..k + 1 : i < j => t[i] < t[j]
  <2> SUFFICES ASSUME NEW i \in 1..k + 1, NEW j \in 1..k + 1, i < j
               PROVE  t[i] < t[j]
    OBVIOUS
  <2>1. i \in 1..k /\ t[i] = s[i] /\ s[i] \in V
    BY <1>9
  <2>2. CASE j \in 1..k
    BY <1>9, <2>1, <2>2
  <2>3. CASE j = k + 1
    <3>1. s[i] <= n /\ s[i] # n /\ s[i] \in Nat /\ n \in Nat
      BY <1>4, <1>6, <2>1
    <3> QED
      BY <2>1, <2>3, <3>1
  <2> QED
    BY <2>2, <2>3
<1>12. IsSorted(t, U)
  BY <1>8, <1>10, <1>11 DEF IsSorted
<1> QED
  BY <1>3, <1>12

(* Sorted lists all of them, in that order.                                 *)
LEMMA SortedLists ==
  ASSUME NEW T, T \subseteq Nat, IsFiniteSet(T)
  PROVE  /\ Sorted(T) \in Seq(T) /\ Ascending(Sorted(T))
         /\ \A e \in T : \E i \in 1..Len(Sorted(T)) : Sorted(T)[i] = e
<1> DEFINE n == Cardinality(T)
           s == Sorted(T)
<1>1. n \in Nat
  BY FS_CardinalityType
<1>2. IsSorted(s, T)
  BY SortedExists DEF Sorted, IsSorted
<1>3. s \in Seq(T) /\ Len(s) = n
  BY <1>1, <1>2 DEF IsSorted
<1>4. Ascending(s)
  BY <1>2, <1>3 DEF IsSorted, Ascending
<1>5. \A i, j \in 1..n : i # j => s[i] # s[j]
  <2>1. \A i \in 1..n : s[i] \in Nat
    BY <1>2 DEF IsSorted
  <2> QED
    BY <1>1, <1>2, <2>1 DEF IsSorted
<1>6. s \in Injection(1..n, T)
  BY <1>2, <1>5 DEF IsSorted, Injection, IsInjective
<1>7. Cardinality(1..n) = n
  BY <1>1, FS_Interval
<1>8. s \in Surjection(1..n, T)
  BY <1>6, <1>7, FS_Injection
<1> QED
  BY <1>3, <1>4, <1>8 DEF Surjection

-----------------------------------------------------------------------------
(* Locks                                                                    *)

(* What a call still wants: submit the rest of its body, accept documents   *)
(* in the order of their ids; before its commit a call has got them all.    *)
WantsInOrder(c) ==
  /\ c.want \in Seq(Evidence) /\ c.body \in Seq(Evidence)
  /\ c.op = "accept" => Ascending(c.want)
  /\ c.op # "accept" =>
       /\ Len(c.want) <= Len(c.body)
       /\ \A i \in 1..Len(c.want) : c.want[i] = c.body[Len(c.body) - Len(c.want) + i]
  /\ c.step = "write" => c.want = <<>>

Wanted(c) == {c.want[i] : i \in 1..Len(c.want)}

(* The documents a call has locked come before those it wants, and an       *)
(* acceptance has locked, or wants, those of all submissions.               *)
LocksInOrder(p) ==
  LET c == call[p] IN
  /\ WantsInOrder(c)
  /\ \A e \in Evidence : holder[DocOf(e)] = p =>
       c.op = "accept" /\ c.step \in Past /\ e \notin rejected /\ \A d \in Wanted(c) : d > e
  /\ \A e \in Evidence : p \in sharing[e] =>
       c.op = "submit" /\ c.step \in Past /\ \E k \in 1..Len(c.body) - Len(c.want) : c.body[k] = e
  /\ \A r \in Requests : holder[RowOf(r)] = p => c.step \in Past
  /\ \A r \in Requests : holder[ModelRow(r)] = p => c.step \in Past \cup {"request"}
  /\ c.op = "accept" /\ c.step \in Past =>
       \A e \in Documents(c.request) : holder[DocOf(e)] = p \/ e \in Wanted(c)

(* FOR UPDATE and FOR KEY SHARE exclude each other.                         *)
LocksExclude ==
  /\ sharing \in [Evidence -> SUBSET Procs]
  /\ \A e \in Evidence : holder[DocOf(e)] # None => sharing[e] = {}

LInv == LocksExclude /\ \A p \in Procs : LocksInOrder(p)

(* The documents of a request depend on its submissions.                    *)
LEMMA DocumentsOf ==
  /\ \A r : Documents(r) \subseteq Evidence
  /\ \A r : received'[r] = received[r] => Documents(r)' = Documents(r)
  BY DEF Documents

LEMMA RowsAreLockable ==
  /\ \A e \in Evidence : DocOf(e) \in Lockable
  /\ \A r \in Requests : RowOf(r) \in Lockable /\ ModelRow(r) \in Lockable
  BY SupplierAssumption DEF DocOf, RowOf, ModelRow, Lockable

(* What p does leaves the locks of the others, and what they have read,     *)
(* alone.                                                                   *)
OthersStay(p) ==
  /\ \A q \in Procs \ {p} : call'[q] = call[q]
  /\ \A q \in Procs \ {p}, x \in Lockable : holder'[x] = q <=> holder[x] = q
  /\ \A q \in Procs \ {p}, e \in Evidence : q \in sharing'[e] => q \in sharing[e]
  /\ \A q \in Procs \ {p} : call[q].step \in Past => received'[call[q].request] = received[call[q].request]

(* A step of p keeps the invariant if p keeps its part of it.               *)
LEMMA LocksOfOne ==
  ASSUME LInv, NEW p \in Procs, OthersStay(p), rejected' = rejected, LocksExclude', LocksInOrder(p)'
  PROVE  LInv'
<1> SUFFICES ASSUME NEW q \in Procs, q # p PROVE LocksInOrder(q)'
  BY DEF LInv
<1>1. LocksInOrder(q) /\ call'[q] = call[q]
  BY DEF LInv, OthersStay
<1>2. \A x \in Lockable : holder'[x] = q <=> holder[x] = q
  BY DEF OthersStay
<1>3. \A e \in Evidence : holder'[DocOf(e)] = q <=> holder[DocOf(e)] = q
  BY <1>2, RowsAreLockable
<1>4. \A r \in Requests : /\ holder'[RowOf(r)] = q <=> holder[RowOf(r)] = q
                          /\ holder'[ModelRow(r)] = q <=> holder[ModelRow(r)] = q
  BY <1>2, RowsAreLockable
<1>5. \A e \in Evidence : q \in sharing'[e] => q \in sharing[e]
  BY DEF OthersStay
<1>6. WantsInOrder(call'[q])
  BY <1>1 DEF LocksInOrder
<1>7. \A e \in Evidence : holder'[DocOf(e)] = q =>
        call'[q].op = "accept" /\ call'[q].step \in Past /\ e \notin rejected' /\ \A d \in Wanted(call'[q]) : d > e
  BY <1>1, <1>3 DEF LocksInOrder
<1>8. \A e \in Evidence : q \in sharing'[e] =>
        call'[q].op = "submit" /\ call'[q].step \in Past
        /\ \E k \in 1..Len(call'[q].body) - Len(call'[q].want) : call'[q].body[k] = e
  BY <1>1, <1>5 DEF LocksInOrder
<1>9. /\ \A r \in Requests : holder'[RowOf(r)] = q => call'[q].step \in Past
      /\ \A r \in Requests : holder'[ModelRow(r)] = q => call'[q].step \in Past \cup {"request"}
  BY <1>1, <1>4 DEF LocksInOrder
<1>10. ASSUME call'[q].op = "accept", call'[q].step \in Past, NEW e \in Documents(call[q].request)'
       PROVE  holder'[DocOf(e)] = q \/ e \in Wanted(call'[q])
  <2>1. e \in Documents(call[q].request) /\ e \in Evidence
    BY <1>1, <1>10, DocumentsOf DEF OthersStay
  <2> QED
    BY <1>1, <1>3, <1>10, <2>1 DEF LocksInOrder
<1> QED
  BY <1>6, <1>7, <1>8, <1>9, <1>10 DEF LocksInOrder, WantsInOrder, Wanted, Ascending, DocOf, RowOf, ModelRow

(* The rows that are locked are different ones.                             *)
LEMMA RowsDiffer ==
  /\ \A d, e \in Evidence : DocOf(d) = DocOf(e) => d = e
  /\ \A e, r, s : RowOf(r) # DocOf(e) /\ ModelRow(s) # DocOf(e) /\ RowOf(r) # ModelRow(s)
  /\ \A r, s : RowOf(r) = RowOf(s) => r = s
<1>1. \A d, e \in Evidence : DocOf(d) = DocOf(e) => d = e
  BY DEF DocOf
<1>2. \A e, r, s : RowOf(r) # DocOf(e) /\ ModelRow(s) # DocOf(e) /\ RowOf(r) # ModelRow(s)
  BY DEF DocOf, RowOf, ModelRow
<1>3. \A r, s : RowOf(r) = RowOf(s) => r = s
  BY DEF RowOf
<1> QED
  BY <1>1, <1>2, <1>3

LEMMA TailOf ==
  ASSUME NEW S, NEW s \in Seq(S), s # <<>>
  PROVE  /\ Tail(s) \in Seq(S) /\ Len(s) \in Nat \ {0} /\ Len(Tail(s)) = Len(s) - 1
         /\ Head(s) = s[1] /\ s[1] \in S /\ \A i \in 1..Len(s) - 1 : Tail(s)[i] = s[i + 1]
  OBVIOUS

(* The rest of a sequence, one further.                                     *)
LEMMA RestOf ==
  ASSUME NEW S, NEW w \in Seq(S), NEW b \in Seq(S), w # <<>>, Len(w) <= Len(b),
         \A i \in 1..Len(w) : w[i] = b[Len(b) - Len(w) + i]
  PROVE  /\ Len(Tail(w)) <= Len(b) /\ \A i \in 1..Len(Tail(w)) : Tail(w)[i] = b[Len(b) - Len(Tail(w)) + i]
         /\ Len(b) - Len(w) \in Nat /\ Len(b) - Len(Tail(w)) = Len(b) - Len(w) + 1
         /\ b[Len(b) - Len(w) + 1] = Head(w)
<1>1. PICK m \in Nat : m = Len(w)
  OBVIOUS
<1>2. PICK n \in Nat : n = Len(b)
  OBVIOUS
<1>3. m > 0 /\ m <= n /\ Len(Tail(w)) = m - 1 /\ Head(w) = w[1] /\ \A i \in 1..m - 1 : Tail(w)[i] = w[i + 1]
  BY <1>1, <1>2, TailOf
<1>4. \A i \in 1..m : w[i] = b[n - m + i]
  BY <1>1, <1>2
<1>5. ASSUME NEW i \in 1..m - 1
      PROVE  Tail(w)[i] = b[n - (m - 1) + i]
  <2>1. i + 1 \in 1..m /\ n - m + (i + 1) = n - (m - 1) + i
    BY <1>1, <1>2
  <2>2. w[i + 1] = b[n - m + (i + 1)]
    BY <1>4, <2>1
  <2> QED
    BY <1>3, <2>1, <2>2
<1>6. 1 \in 1..m
  BY <1>3
<1> QED
  BY <1>1, <1>2, <1>3, <1>4, <1>5, <1>6

(* A call ends, and has changed at most the submissions of its request.     *)
LEMMA EndsKeepsLocks ==
  ASSUME SInv, LInv, None \notin Procs, NEW p \in Procs, Ends(p), rejected' = rejected,
         \/ received' = received
         \/ call[p].step \in Past /\ \A r \in Requests \ {call[p].request} : received'[r] = received[r]
  PROVE  LInv'
<1>1. /\ call'[p] = Idle /\ \A q \in Procs \ {p} : call'[q] = call[q]
  <2>1. Types
    BY DEF SInv
  <2> QED
    BY <2>1, EndsFrame DEF OthersKeep
<1>2. \A x \in Lockable : holder'[x] = IF holder[x] = p THEN None ELSE holder[x]
  BY DEF Ends
<1>3. \A e \in Evidence : sharing'[e] = sharing[e] \ {p}
  BY DEF Ends
<1>4. LocksExclude'
  <2>1. sharing' \in [Evidence -> SUBSET Procs]
    BY DEF Ends, LInv, LocksExclude
  <2>2. \A e \in Evidence : holder'[DocOf(e)] # None => holder[DocOf(e)] # None
    BY <1>2, RowsAreLockable
  <2> QED
    BY <1>3, <2>1, <2>2 DEF LInv, LocksExclude, DocOf
<1>5. \A x \in Lockable : holder'[x] # p
  BY <1>2
<1>6. WantsInOrder(Idle) /\ Idle.op = "session" /\ \A e \in Evidence : p \notin sharing'[e]
  BY <1>3 DEF Idle, WantsInOrder
<1>7. LocksInOrder(p)'
  BY <1>1, <1>5, <1>6, RowsAreLockable DEF LocksInOrder, WantsInOrder, Wanted, Ascending, DocOf, RowOf, ModelRow
<1>8. ASSUME NEW q \in Procs \ {p}, call[q].step \in Past
      PROVE  received'[call[q].request] = received[call[q].request]
  <2>1. call[q].request \in Requests /\ holder[RowOf(call[q].request)] = q
    BY <1>8 DEF SInv, CallsHoldTheirRequest, CallsAreAboutRequests, Past
  <2>2. call[p].step \in Past => holder[RowOf(call[p].request)] = p
    BY DEF SInv, CallsHoldTheirRequest
  <2>3. call[p].step \in Past => call[p].request # call[q].request
    BY <2>1, <2>2
  <2> QED
    BY <2>1, <2>3
<1>9. OthersStay(p)
  BY <1>1, <1>2, <1>3, <1>8 DEF OthersStay
<1> QED
  BY <1>4, <1>7, <1>9, LocksOfOne

LEMMA BeginKeepsLocks ==
  ASSUME SInv, LInv, NEW p \in Procs, NEW op, NEW r \in Requests, NEW body \in Seq(Evidence),
         op = "accept" => body = <<>>, Begin(p, op, r, body)
  PROVE  LInv'
<1> DEFINE new == [op |-> op, step |-> IF op = "accept" THEN "model" ELSE "request",
                   request |-> r, body |-> body, want |-> body]
<1>1. call' = [call EXCEPT ![p] = new] /\ UNCHANGED <<rows, rejected, locks>> /\ call[p].step = "idle"
  BY DEF Begin
<1>2. call'[p] = new /\ \A q \in Procs \ {p} : call'[q] = call[q]
  BY <1>1 DEF SInv, Types, CallsAreCalls
<1>3. WantsInOrder(new) /\ new.step \notin Past
  BY DEF WantsInOrder, Ascending, Past
<1>4. /\ \A e \in Evidence : holder'[DocOf(e)] # p /\ p \notin sharing'[e]
      /\ \A s \in Requests : holder'[RowOf(s)] # p /\ holder'[ModelRow(s)] # p
  BY <1>1 DEF LInv, LocksInOrder, Past, locks
<1> HIDE DEF new
<1>5. LocksInOrder(p)'
  BY <1>2, <1>3, <1>4 DEF LocksInOrder, WantsInOrder, Wanted, Ascending, DocOf, RowOf, ModelRow
<1>6. OthersStay(p) /\ LocksExclude'
  BY <1>1, <1>2 DEF OthersStay, LInv, LocksExclude, rows, locks, DocOf
<1> QED
  BY <1>1, <1>5, <1>6, LocksOfOne

(* Taking a free row changes that row.                                      *)
LEMMA TakeFrame ==
  ASSUME SInv, None \notin Procs, NEW p \in Procs, NEW x \in Lockable, Free(x, p), holder' = [holder EXCEPT ![x] = p]
  PROVE  /\ holder'[x] = p /\ \A y \in Lockable : y # x => holder'[y] = holder[y]
         /\ \A q \in Procs \ {p}, y \in Lockable : holder'[y] = q <=> holder[y] = q
<1>1. holder \in [Lockable -> Procs \cup {None}] /\ holder[x] \in {None, p}
  BY DEF SInv, Types, Free
<1> QED
  BY <1>1

LEMMA LockModelKeepsLocks ==
  ASSUME SInv, LInv, None \notin Procs, NEW p \in Procs, LockModel(p)
  PROVE  LInv'
<1> DEFINE r == call[p].request
           c == [call[p] EXCEPT !.step = "request"]
<1>1. Types /\ r \in Requests /\ IsCall(call[p]) /\ call[p].step = "model"
  BY DEF SInv, CallsAreAboutRequests, LockModel, Types, CallsAreCalls
<1>2. ModelRow(r) \in Lockable /\ Free(ModelRow(r), p) /\ holder' = [holder EXCEPT ![ModelRow(r)] = p]
  BY <1>1, RowsAreLockable DEF LockModel
<1>3. call' = [call EXCEPT ![p] = c] /\ UNCHANGED <<rows, rejected, sharing>>
  BY DEF LockModel, Goes
<1>4. c.step = "request" /\ c.op = call[p].op /\ c.body = call[p].body /\ c.want = call[p].want
  BY <1>1 DEF IsCall
<1>5. call'[p] = c /\ \A q \in Procs \ {p} : call'[q] = call[q]
  <2> HIDE DEF c
  <2> QED
    BY <1>1, <1>3 DEF Types, CallsAreCalls
<1> HIDE DEF c, r
<1>6. /\ \A y \in Lockable : y # ModelRow(r) => holder'[y] = holder[y]
      /\ \A q \in Procs \ {p}, y \in Lockable : holder'[y] = q <=> holder[y] = q
  BY <1>2, TakeFrame
<1>7. /\ \A e \in Evidence : holder'[DocOf(e)] = holder[DocOf(e)]
      /\ \A s \in Requests : holder'[RowOf(s)] = holder[RowOf(s)]
  BY <1>6, RowsAreLockable, RowsDiffer
<1>8. LocksInOrder(p) /\ LocksExclude
  BY DEF LInv
<1>9. LocksExclude'
  BY <1>3, <1>7, <1>8 DEF LocksExclude, DocOf
<1>10. /\ \A e \in Evidence : holder'[DocOf(e)] # p /\ p \notin sharing'[e]
       /\ \A s \in Requests : holder'[RowOf(s)] # p
  BY <1>1, <1>3, <1>7, <1>8 DEF LocksInOrder, Past
<1>11. WantsInOrder(c)
  BY <1>4, <1>8 DEF LocksInOrder, WantsInOrder
<1>12. LocksInOrder(p)'
  BY <1>4, <1>5, <1>10, <1>11 DEF LocksInOrder, WantsInOrder, Wanted, Ascending, DocOf, RowOf, ModelRow, Past
<1> QED
  BY <1>3, <1>5, <1>6, <1>9, <1>12, LocksOfOne DEF OthersStay, rows

LEMMA LockRequestKeepsLocks ==
  ASSUME SInv, LInv, None \notin Procs, NEW p \in Procs, LockRequest(p)
  PROVE  LInv'
<1> DEFINE r == call[p].request
           c == [call[p] EXCEPT !.step = "evidence", !.want = IF call[p].op = "accept" THEN AcceptOrder(r) ELSE @]
<1>1. UNCHANGED <<rows, rejected>> /\ call[p].step = "request"
  BY DEF LockRequest
<1>2. CASE Ends(p)
  BY <1>1, <1>2, EndsKeepsLocks DEF rows
<1>3. CASE /\ Free(RowOf(r), p) /\ UNCHANGED sharing
           /\ holder' = [holder EXCEPT ![RowOf(r)] = p] /\ call' = [call EXCEPT ![p] = c]
  <2>1. Types /\ r \in Requests /\ IsCall(call[p])
    BY <1>1 DEF SInv, CallsAreAboutRequests, Types, CallsAreCalls
  <2>2. /\ c.step = "evidence" /\ c.op = call[p].op /\ c.body = call[p].body /\ c.request = r
        /\ c.want = IF call[p].op = "accept" THEN AcceptOrder(r) ELSE call[p].want
    <3> DEFINE w == IF call[p].op = "accept" THEN AcceptOrder(r) ELSE call[p].want
    <3> DEFINE d == [call[p] EXCEPT !.step = "evidence"]
    <3>1. IsCall(d) /\ d.step = "evidence" /\ d.op = call[p].op /\ d.body = call[p].body /\ d.request = r
      BY <2>1 DEF IsCall
    <3>0. c = [d EXCEPT !.want = w]
      OBVIOUS
    <3> HIDE DEF c, d, w
    <3>2. c.step = "evidence" /\ c.op = call[p].op /\ c.body = call[p].body /\ c.request = r /\ c.want = w
      BY <3>0, <3>1, WantChanges
    <3> QED
      BY <3>2 DEF w
  <2>3. call'[p] = c /\ \A q \in Procs \ {p} : call'[q] = call[q]
    <3> HIDE DEF c
    <3> QED
      BY <1>3, <2>1 DEF Types, CallsAreCalls
  <2> HIDE DEF c, r
  <2>4. /\ \A y \in Lockable : y # RowOf(r) => holder'[y] = holder[y]
        /\ \A q \in Procs \ {p}, y \in Lockable : holder'[y] = q <=> holder[y] = q
    BY <1>3, <2>1, RowsAreLockable, TakeFrame
  <2>5. \A e \in Evidence : holder'[DocOf(e)] = holder[DocOf(e)]
    BY <2>4, RowsAreLockable, RowsDiffer
  <2>6. LocksInOrder(p) /\ LocksExclude
    BY DEF LInv
  <2>7. LocksExclude'
    BY <1>3, <2>5, <2>6 DEF LocksExclude, DocOf
  <2>8. \A e \in Evidence : holder'[DocOf(e)] # p /\ p \notin sharing'[e]
    BY <1>1, <1>3, <2>5, <2>6 DEF LocksInOrder, Past
  <2>9. call[p].op = "accept" => /\ c.want \in Seq(Evidence) /\ Ascending(c.want)
                                 /\ \A e \in Documents(r) : e \in Wanted(c)
    <3>1. Documents(r) \subseteq Nat /\ IsFiniteSet(Documents(r)) /\ Documents(r) \subseteq Evidence
      BY DocumentsOf, SupplierAssumption, FS_Subset
    <3>2. /\ AcceptOrder(r) \in Seq(Documents(r)) /\ Ascending(AcceptOrder(r))
          /\ \A e \in Documents(r) : \E i \in 1..Len(AcceptOrder(r)) : AcceptOrder(r)[i] = e
      BY <3>1, SortedLists DEF AcceptOrder
    <3>3. AcceptOrder(r) \in Seq(Evidence)
      BY <3>1, <3>2
    <3> QED
      BY <2>2, <3>2, <3>3 DEF Wanted
  <2>10. WantsInOrder(c)
    BY <2>2, <2>6, <2>9 DEF LocksInOrder, WantsInOrder
  <2>11. ASSUME call'[p].op = "accept", NEW e \in Documents(call[p].request)'
         PROVE  e \in Wanted(call'[p])
    <3>1. \A s : Documents(s)' = Documents(s)
      BY <1>1, DocumentsOf DEF rows
    <3>2. e \in Documents(r)
      BY <2>2, <2>3, <2>11, <3>1
    <3> QED
      BY <2>2, <2>3, <2>9, <2>11, <3>2
  <2>12. WantsInOrder(call'[p]) /\ call'[p].step \in Past
    BY <2>2, <2>3, <2>10 DEF Past
  <2>13. LocksInOrder(p)'
    BY <2>8, <2>11, <2>12 DEF LocksInOrder, WantsInOrder, Wanted, Ascending, DocOf, RowOf, ModelRow
  <2> QED
    BY <1>1, <2>3, <1>3, <2>4, <2>7, <2>13, LocksOfOne DEF OthersStay, rows
<1> QED
  BY <1>2, <1>3 DEF LockRequest

(* What both steps over the documents do to the call.                       *)
LEMMA NextWanted ==
  ASSUME SInv, LInv, NEW p \in Procs, call[p].step = "evidence", call[p].want # <<>>,
         call' = [call EXCEPT ![p].want = Tail(@)]
  PROVE  /\ call'[p].step = "evidence" /\ call'[p].op = call[p].op /\ call'[p].body = call[p].body
         /\ call'[p].request = call[p].request /\ call'[p].want = Tail(call[p].want)
         /\ \A q \in Procs \ {p} : call'[q] = call[q]
         /\ Head(call[p].want) \in Evidence /\ WantsInOrder(call'[p])
         /\ Wanted(call[p]) = {Head(call[p].want)} \cup Wanted(call'[p])
         /\ call[p].op = "accept" => \A d \in Wanted(call'[p]) : d > Head(call[p].want)
<1> DEFINE c == [call[p] EXCEPT !.want = Tail(@)]
           w == call[p].want
           t == Tail(w)
<1>1. Types /\ IsCall(call[p]) /\ WantsInOrder(call[p]) /\ Evidence \subseteq Nat
  BY SupplierAssumption DEF SInv, Types, CallsAreCalls, LInv, LocksInOrder
<1>2. call' = [call EXCEPT ![p] = c] /\ c = [call[p] EXCEPT !.want = t]
  OBVIOUS
<1> HIDE DEF c
<1>3. /\ IsCall(c) /\ c.op = call[p].op /\ c.step = call[p].step /\ c.request = call[p].request
      /\ c.body = call[p].body /\ c.want = t
  <2> HIDE DEF t
  <2>1. IsCall(call[p])
    BY <1>1
  <2>2. c = [call[p] EXCEPT !.want = t]
    BY <1>2
  <2> QED
    BY <2>1, <2>2, WantChanges
<1>4. call'[p] = c /\ \A q \in Procs \ {p} : call'[q] = call[q]
  BY <1>1, <1>2, <1>3, CallMoves
<1>5. w \in Seq(Evidence) /\ w # <<>>
  BY <1>1 DEF WantsInOrder
<1>6. /\ t \in Seq(Evidence) /\ Len(w) \in Nat \ {0} /\ Len(t) = Len(w) - 1
      /\ Head(w) = w[1] /\ w[1] \in Evidence /\ \A i \in 1..Len(w) - 1 : t[i] = w[i + 1]
  <2> HIDE DEF w, t
  <2>1. t = Tail(w)
    BY DEF t
  <2> QED
    BY <1>5, <2>1, TailOf
<1> HIDE DEF w, t
<1>7. \A d \in Wanted(c) : \E i \in 2..Len(w) : w[i] = d
  BY <1>3, <1>6 DEF Wanted
<1>8. \A i \in 2..Len(w) : w[i] \in Wanted(c)
  <2> SUFFICES ASSUME NEW i \in 2..Len(w) PROVE w[i] \in Wanted(c)
    OBVIOUS
  <2>1. i - 1 \in 1..Len(t) /\ t[i - 1] = w[i]
    BY <1>6
  <2> QED
    BY <1>3, <2>1 DEF Wanted
<1>9. Wanted(call[p]) = {w[1]} \cup Wanted(c)
  <2>1. Wanted(call[p]) = {w[i] : i \in 1..Len(w)}
    BY DEF Wanted, w
  <2>2. \A i \in 1..Len(w) : i = 1 \/ i \in 2..Len(w)
    BY <1>6
  <2>3. \A i \in 2..Len(w) : i \in 1..Len(w)
    BY <1>6
  <2> QED
    BY <1>6, <1>7, <1>8, <2>1, <2>2, <2>3
<1>10. call[p].op = "accept" => Ascending(t) /\ \A d \in Wanted(c) : d > w[1]
  <2> SUFFICES ASSUME call[p].op = "accept" PROVE Ascending(t) /\ \A d \in Wanted(c) : d > w[1]
    OBVIOUS
  <2>1. \A i, j \in 1..Len(w) : i < j => w[i] < w[j]
    BY <1>1 DEF WantsInOrder, Ascending, w
  <2>2. \A i \in 1..Len(w) : w[i] \in Nat
    BY <1>1, <1>5
  <2>3. Ascending(t)
    <3> SUFFICES ASSUME NEW i \in 1..Len(t), NEW j \in 1..Len(t), i < j PROVE t[i] < t[j]
      BY DEF Ascending
    <3>1. i + 1 \in 1..Len(w) /\ j + 1 \in 1..Len(w) /\ i + 1 < j + 1 /\ t[i] = w[i + 1] /\ t[j] = w[j + 1]
      BY <1>6
    <3> QED
      BY <2>1, <3>1
  <2>4. \A i \in 2..Len(w) : w[i] > w[1]
    BY <1>6, <2>1, <2>2
  <2> QED
    BY <1>7, <2>3, <2>4
<1>11. WantsInOrder(c)
  <2>1. call[p].op # "accept" => /\ Len(t) <= Len(c.body)
                                 /\ \A i \in 1..Len(t) : t[i] = c.body[Len(c.body) - Len(t) + i]
    <3> SUFFICES ASSUME call[p].op # "accept"
                 PROVE  /\ Len(t) <= Len(c.body)
                        /\ \A i \in 1..Len(t) : t[i] = c.body[Len(c.body) - Len(t) + i]
      OBVIOUS
    <3>1. /\ c.body \in Seq(Evidence) /\ Len(w) <= Len(c.body)
          /\ \A i \in 1..Len(w) : w[i] = c.body[Len(c.body) - Len(w) + i]
      BY <1>1, <1>3 DEF WantsInOrder, w
    <3>2. t = Tail(w)
      BY DEF t
    <3> QED
      BY <1>5, <3>1, <3>2, RestOf
  <2> QED
    BY <1>1, <1>3, <1>6, <1>10, <2>1 DEF WantsInOrder
<1> QED
  BY <1>3, <1>4, <1>6, <1>9, <1>10, <1>11 DEF w, t

LEMMA ShareEvidenceKeepsLocks ==
  ASSUME SInv, LInv, None \notin Procs, NEW p \in Procs, ShareEvidence(p)
  PROVE  LInv'
<1> DEFINE e == Head(call[p].want)
<1>1. /\ call[p].step = "evidence" /\ call[p].op = "submit" /\ call[p].want # <<>> /\ Free(DocOf(e), p)
      /\ sharing' = [sharing EXCEPT ![e] = @ \cup {p}] /\ call' = [call EXCEPT ![p].want = Tail(@)]
      /\ UNCHANGED <<rows, rejected, holder>>
  BY DEF ShareEvidence
<1>2. /\ call'[p].step = "evidence" /\ call'[p].op = "submit" /\ call'[p].body = call[p].body
      /\ call'[p].request = call[p].request /\ call'[p].want = Tail(call[p].want)
      /\ \A q \in Procs \ {p} : call'[q] = call[q]
      /\ e \in Evidence /\ WantsInOrder(call'[p])
  BY <1>1, NextWanted
<1>3. LocksInOrder(p) /\ LocksExclude
  BY DEF LInv
<1>4. \A d \in Evidence : holder[DocOf(d)] # p
  BY <1>1, <1>3 DEF LocksInOrder
<1>5. Len(call[p].body) - Len(call[p].want) + 1 = Len(call[p].body) - Len(call'[p].want)
      /\ Len(call[p].body) - Len(call[p].want) \in Nat /\ call[p].body[Len(call[p].body) - Len(call[p].want) + 1] = e
  <2>1. /\ call[p].want \in Seq(Evidence) /\ call[p].body \in Seq(Evidence) /\ Len(call[p].want) <= Len(call[p].body)
        /\ \A i \in 1..Len(call[p].want) : call[p].want[i] = call[p].body[Len(call[p].body) - Len(call[p].want) + i]
    BY <1>1, <1>3 DEF LocksInOrder, WantsInOrder
  <2>2. /\ Len(call[p].body) - Len(call[p].want) \in Nat
        /\ Len(call[p].body) - Len(Tail(call[p].want)) = Len(call[p].body) - Len(call[p].want) + 1
        /\ call[p].body[Len(call[p].body) - Len(call[p].want) + 1] = Head(call[p].want)
    BY <1>1, <2>1, RestOf
  <2> QED
    BY <1>2, <2>2
<1> HIDE DEF e
<1>6. LocksExclude'
  <2>1. holder[DocOf(e)] = None
    BY <1>1, <1>2, <1>4 DEF Free
  <2> QED
    BY <1>1, <1>2, <1>3, <2>1 DEF LocksExclude, DocOf
<1>7. ASSUME NEW d \in Evidence, p \in sharing'[d]
      PROVE  \E k \in 1..Len(call'[p].body) - Len(call'[p].want) : call'[p].body[k] = d
  <2>1. CASE d = e
    <3>1. PICK n \in Nat : n = Len(call[p].body) - Len(call[p].want)
      BY <1>5
    <3>2. n + 1 = Len(call'[p].body) - Len(call'[p].want)
      BY <1>2, <1>5, <3>1
    <3>3. call'[p].body[n + 1] = d
      BY <1>2, <1>5, <2>1, <3>1
    <3>4. n + 1 \in 1..n + 1
      BY <3>1
    <3> QED
      BY <3>2, <3>3, <3>4
  <2>2. CASE d # e
    <3>1. p \in sharing[d]
      BY <1>1, <1>3, <1>7, <2>2 DEF LocksExclude
    <3>2. PICK k \in 1..Len(call[p].body) - Len(call[p].want) : call[p].body[k] = d
      BY <1>3, <3>1 DEF LocksInOrder
    <3> QED
      BY <1>2, <1>5, <3>2
  <2> QED
    BY <2>1, <2>2
<1>8. /\ \A r \in Requests : holder'[RowOf(r)] = p => call'[p].step \in Past
      /\ \A r \in Requests : holder'[ModelRow(r)] = p => call'[p].step \in Past \cup {"request"}
      /\ \A d \in Evidence : holder'[DocOf(d)] # p
  BY <1>1, <1>2, <1>4 DEF Past
<1>9. LocksInOrder(p)'
  BY <1>2, <1>7, <1>8 DEF LocksInOrder, WantsInOrder, Wanted, Ascending, DocOf, RowOf, ModelRow, Past
<1>10. \A q \in Procs \ {p}, d \in Evidence : q \in sharing'[d] => q \in sharing[d]
  BY <1>1, <1>3 DEF LocksExclude
<1> QED
  BY <1>1, <1>2, <1>6, <1>9, <1>10, LocksOfOne DEF OthersStay, rows

LEMMA LockEvidenceKeepsLocks ==
  ASSUME SInv, LInv, None \notin Procs, NEW p \in Procs, LockEvidence(p)
  PROVE  LInv'
<1> DEFINE e == Head(call[p].want)
<1>1. /\ call[p].step = "evidence" /\ call[p].op = "accept" /\ call[p].want # <<>>
      /\ Free(DocOf(e), p) /\ sharing[e] \subseteq {p} /\ UNCHANGED <<rows, rejected>>
  BY DEF LockEvidence
<1>2. CASE Ends(p)
  BY <1>1, <1>2, EndsKeepsLocks DEF rows
<1>3. CASE /\ e \notin rejected /\ holder' = [holder EXCEPT ![DocOf(e)] = p]
           /\ call' = [call EXCEPT ![p].want = Tail(@)] /\ UNCHANGED sharing
  <2>1. /\ call'[p].step = "evidence" /\ call'[p].op = "accept" /\ call'[p].request = call[p].request
        /\ \A q \in Procs \ {p} : call'[q] = call[q]
        /\ e \in Evidence /\ WantsInOrder(call'[p])
        /\ Wanted(call[p]) = {e} \cup Wanted(call'[p]) /\ \A d \in Wanted(call'[p]) : d > e
    BY <1>1, <1>3, NextWanted
  <2> HIDE DEF e
  <2>2. LocksInOrder(p) /\ LocksExclude /\ DocOf(e) \in Lockable
    BY <2>1, RowsAreLockable DEF LInv
  <2>3. /\ holder'[DocOf(e)] = p /\ \A y \in Lockable : y # DocOf(e) => holder'[y] = holder[y]
        /\ \A q \in Procs \ {p}, y \in Lockable : holder'[y] = q <=> holder[y] = q
    BY <1>1, <1>3, <2>2, TakeFrame
  <2>4. /\ \A d \in Evidence : d # e => holder'[DocOf(d)] = holder[DocOf(d)]
        /\ \A r \in Requests : holder'[RowOf(r)] = holder[RowOf(r)] /\ holder'[ModelRow(r)] = holder[ModelRow(r)]
    BY <2>1, <2>3, RowsAreLockable, RowsDiffer
  <2>5. sharing[e] = {}
    <3>1. p \notin sharing[e]
      BY <1>1, <2>1, <2>2 DEF LocksInOrder
    <3> QED
      BY <1>1, <3>1
  <2>6. LocksExclude'
    <3> SUFFICES ASSUME NEW d \in Evidence, holder'[DocOf(d)] # None PROVE sharing[d] = {}
      BY <1>3, <2>2 DEF LocksExclude, DocOf
    <3> QED
      BY <2>2, <2>4, <2>5 DEF LocksExclude
  <2>7. ASSUME NEW d \in Evidence, holder'[DocOf(d)] = p
        PROVE  d \notin rejected' /\ \A w \in Wanted(call'[p]) : w > d
    <3>1. CASE d = e
      BY <1>1, <1>3, <2>1, <3>1
    <3>2. CASE d # e
      <4>1. holder[DocOf(d)] = p
        BY <2>4, <2>7, <3>2
      <4> QED
        BY <1>1, <2>1, <2>2, <4>1 DEF LocksInOrder
    <3> QED
      BY <3>1, <3>2
  <2>8. ASSUME NEW d \in Documents(call[p].request)'
        PROVE  holder'[DocOf(d)] = p \/ d \in Wanted(call'[p])
    <3>1. \A r : Documents(r)' = Documents(r)
      BY <1>1, DocumentsOf DEF rows
    <3>2. d \in Documents(call[p].request) /\ d \in Evidence
      BY <2>1, <2>8, <3>1, DocumentsOf
    <3>3. holder[DocOf(d)] = p \/ d \in Wanted(call[p])
      BY <1>1, <2>2, <3>2 DEF LocksInOrder, Past
    <3> QED
      BY <2>1, <2>3, <2>4, <3>2, <3>3
  <2>9. \A d \in Evidence : p \notin sharing'[d]
    BY <1>1, <1>3, <2>2 DEF LocksInOrder
  <2>10. LocksInOrder(p)'
    BY <2>1, <2>7, <2>8, <2>9 DEF LocksInOrder, WantsInOrder, Wanted, Ascending, DocOf, RowOf, ModelRow, Past
  <2> QED
    BY <1>1, <1>3, <2>1, <2>3, <2>6, <2>10, LocksOfOne DEF OthersStay, rows
<1> QED
  BY <1>2, <1>3 DEF LockEvidence

LEMMA CheckTimeKeepsLocks ==
  ASSUME SInv, LInv, None \notin Procs, NEW p \in Procs, CheckTime(p)
  PROVE  LInv'
<1> DEFINE c == [call[p] EXCEPT !.step = "write"]
<1>1. call[p].step = "evidence" /\ call[p].want = <<>> /\ UNCHANGED <<rows, rejected>>
  BY DEF CheckTime
<1>2. CASE Ends(p)
  BY <1>1, <1>2, EndsKeepsLocks DEF rows
<1>3. CASE call' = [call EXCEPT ![p] = c] /\ UNCHANGED locks
  <2>1. Types /\ IsCall(call[p]) /\ LocksInOrder(p) /\ LocksExclude
    BY DEF SInv, Types, CallsAreCalls, LInv
  <2>2. /\ c.step = "write" /\ c.op = call[p].op /\ c.body = call[p].body /\ c.want = <<>>
        /\ c.request = call[p].request
    BY <1>1, <2>1 DEF IsCall
  <2> HIDE DEF c
  <2>3. call'[p] = c /\ \A q \in Procs \ {p} : call'[q] = call[q]
    BY <1>3, <2>1 DEF Types, CallsAreCalls
  <2>4. WantsInOrder(c) /\ Wanted(c) = Wanted(call[p])
    BY <1>1, <2>1, <2>2 DEF LocksInOrder, WantsInOrder, Wanted
  <2>5. ASSUME c.op = "accept", NEW d \in Documents(call[p].request)'
        PROVE  holder[DocOf(d)] = p \/ d \in Wanted(c)
    <3>1. \A r : Documents(r)' = Documents(r)
      BY <1>1, DocumentsOf DEF rows
    <3>2. d \in Documents(call[p].request) /\ d \in Evidence
      BY <2>2, <2>3, <2>5, <3>1, DocumentsOf
    <3> QED
      BY <1>1, <2>1, <2>2, <2>4, <2>5, <3>2 DEF LocksInOrder, Past
  <2>6. LocksInOrder(p)'
    <3>1. \A d \in Evidence : holder'[DocOf(d)] = p =>
            call'[p].op = "accept" /\ d \notin rejected' /\ \A w \in Wanted(call'[p]) : w > d
      BY <1>1, <1>3, <2>1, <2>2, <2>3, <2>4 DEF LocksInOrder, locks
    <3>2. \A d \in Evidence : p \in sharing'[d] =>
            call'[p].op = "submit" /\ \E k \in 1..Len(call'[p].body) - Len(call'[p].want) : call'[p].body[k] = d
      BY <1>1, <1>3, <2>1, <2>2, <2>3 DEF LocksInOrder, locks
    <3>3. WantsInOrder(call'[p]) /\ call'[p].step \in Past
      BY <2>2, <2>3, <2>4 DEF Past
    <3>4. ASSUME call'[p].op = "accept", NEW d \in Documents(call[p].request)'
          PROVE  holder'[DocOf(d)] = p \/ d \in Wanted(call'[p])
      BY <1>3, <2>2, <2>3, <2>5, <3>4 DEF locks
    <3> QED
      BY <3>1, <3>2, <3>3, <3>4 DEF LocksInOrder, WantsInOrder, Wanted, Ascending, DocOf, RowOf, ModelRow
  <2>7. LocksExclude'
    BY <1>3, <2>1 DEF LocksExclude, DocOf, locks
  <2> QED
    BY <1>1, <1>3, <2>3, <2>6, <2>7, LocksOfOne DEF OthersStay, rows, locks
<1> QED
  BY <1>2, <1>3 DEF CheckTime, Goes

(* Steps of nobody: only a document nobody holds becomes rejected.          *)
LEMMA QuietStepsKeepLocks ==
  ASSUME LInv, UNCHANGED <<received, call, locks>>,
         \A e \in Evidence : e \in rejected' => e \in rejected \/ holder[DocOf(e)] = None
  PROVE  LInv'
<1>1. LocksExclude'
  BY DEF LInv, LocksExclude, DocOf, locks
<1>2. ASSUME NEW p \in Procs
      PROVE  LocksInOrder(p)'
  <2>1. LocksInOrder(p) /\ None \notin Procs /\ \A r : Documents(r)' = Documents(r)
    BY DocumentsOf, SupplierAssumption DEF LInv
  <2>2. \A e \in Evidence : holder[DocOf(e)] = p => e \notin rejected'
    BY <2>1 DEF LocksInOrder
  <2>3. ASSUME NEW e \in Documents(call[p].request)'
        PROVE  e \in Documents(call[p].request) /\ e \in Evidence
    BY <2>1, <2>3, DocumentsOf
  <2>4. \A e \in Evidence : holder'[DocOf(e)] = p =>
          call'[p].op = "accept" /\ call'[p].step \in Past /\ e \notin rejected' /\ \A d \in Wanted(call'[p]) : d > e
    BY <2>1, <2>2 DEF LocksInOrder, locks
  <2>5. \A e \in Evidence : p \in sharing'[e] =>
          call'[p].op = "submit" /\ call'[p].step \in Past
          /\ \E k \in 1..Len(call'[p].body) - Len(call'[p].want) : call'[p].body[k] = e
    BY <2>1 DEF LocksInOrder, locks
  <2>6. ASSUME call'[p].op = "accept", call'[p].step \in Past, NEW e \in Documents(call[p].request)'
        PROVE  holder'[DocOf(e)] = p \/ e \in Wanted(call'[p])
    BY <2>1, <2>3, <2>6 DEF LocksInOrder, locks
  <2>7. /\ WantsInOrder(call'[p])
        /\ \A r \in Requests : holder'[RowOf(r)] = p => call'[p].step \in Past
        /\ \A r \in Requests : holder'[ModelRow(r)] = p => call'[p].step \in Past \cup {"request"}
    BY <2>1 DEF LocksInOrder, locks
  <2> QED
    BY <2>4, <2>5, <2>6, <2>7 DEF LocksInOrder, WantsInOrder, Wanted, Ascending, DocOf, RowOf, ModelRow
<1> QED
  BY <1>1, <1>2 DEF LInv

(* Locks are taken in order at first and by every step.                     *)
LEMMA LInvInit ==
  ASSUME Init
  PROVE  LInv
<1>1. \A p \in Procs : call[p] = Idle
  BY DEF Init
<1>2. \A x \in Lockable : holder[x] = None
  BY DEF Init
<1>3. sharing = [e \in Evidence |-> {}]
  BY DEF Init
<1>4. WantsInOrder(Idle) /\ Idle.op = "session"
  BY DEF Idle, WantsInOrder
<1>5. None \notin Procs
  BY SupplierAssumption
<1>6. \A p \in Procs : LocksInOrder(p)
  BY <1>1, <1>2, <1>3, <1>4, <1>5, RowsAreLockable DEF LocksInOrder
<1> QED
  BY <1>2, <1>3, <1>6 DEF LInv, LocksExclude

LEMMA LInvNext ==
  ASSUME SInv, LInv, [Next]_vars
  PROVE  LInv'
<1>0. None \notin Procs /\ Bodies \subseteq Seq(Evidence)
  BY SupplierAssumption
<1>1. CASE UNCHANGED vars
  BY <1>1, QuietStepsKeepLocks DEF vars, rows
<1>2. ASSUME NEW r \in Requests, CreateRequest(r) \/ Expire(r)
      PROVE  LInv'
  BY <1>2, QuietStepsKeepLocks DEF CreateRequest, Expire, rows
<1>3. ASSUME NEW e \in Evidence, RejectEvidence(e)
      PROVE  LInv'
  BY <1>3, QuietStepsKeepLocks DEF RejectEvidence, rows
<1>4. ASSUME NEW p \in Procs, NEW r \in Requests, NEW body \in Bodies, Begin(p, "submit", r, body)
      PROVE  LInv'
  BY <1>0, <1>4, BeginKeepsLocks
<1>5. ASSUME NEW p \in Procs, NEW r \in Requests, NEW op \in {"session", "accept"}, Begin(p, op, r, <<>>)
      PROVE  LInv'
  <2>1. <<>> \in Seq(Evidence)
    OBVIOUS
  <2> QED
    BY <1>5, <2>1, BeginKeepsLocks
<1>6. ASSUME NEW p \in Procs, Step(p) \/ Rollback(p)
      PROVE  LInv'
  <2>1. CASE LockModel(p)
    BY <1>0, <2>1, LockModelKeepsLocks
  <2>2. CASE LockRequest(p)
    BY <1>0, <2>2, LockRequestKeepsLocks
  <2>3. CASE ShareEvidence(p)
    BY <1>0, <2>3, ShareEvidenceKeepsLocks
  <2>4. CASE LockEvidence(p)
    BY <1>0, <2>4, LockEvidenceKeepsLocks
  <2>5. CASE CheckTime(p)
    BY <1>0, <2>5, CheckTimeKeepsLocks
  <2>6. CASE Commit(p)
    <3>1. Ends(p) /\ rejected' = rejected /\ call[p].step \in Past
      BY <2>6 DEF Commit, Past
    <3>2. \A s \in Requests \ {call[p].request} : received'[s] = received[s]
      BY <2>6, CommitFrame
    <3> QED
      BY <1>0, <3>1, <3>2, EndsKeepsLocks
  <2>7. CASE Rollback(p)
    BY <1>0, <2>7, EndsKeepsLocks DEF Rollback, rows
  <2> QED
    BY <1>6, <2>1, <2>2, <2>3, <2>4, <2>5, <2>6, <2>7 DEF Step
<1> QED
  BY <1>1, <1>2, <1>3, <1>4, <1>5, <1>6 DEF Next

(* In every reachable state locks are taken in order.                       *)
THEOREM LocksAreInOrder == Spec => []LInv
<1>1. Init => LInv
  BY LInvInit
<1>2. SInv /\ LInv /\ [Next]_vars => LInv'
  BY LInvNext
<1> QED
  BY <1>1, <1>2, Invariance, PTL DEF Spec

-----------------------------------------------------------------------------
(* Deadlock                                                                 *)

(* A body in the order of the ids.                                          *)
InOrder(body) == \A i, j \in DOMAIN body : i < j => ~(body[i] > body[j])

(* A transaction of a circle waits at a row.                                *)
LEMMA OfACircle ==
  ASSUME SInv, NEW S \in SUBSET Procs, Cycle(S), NEW p \in S
  PROVE  /\ \E q \in S : q \in WaitsFor(p) /\ q # None /\ q # p
         /\ call[p].step \in {"model", "request"} \/ (call[p].step = "evidence" /\ call[p].want # <<>>)
         /\ call[p].request \in Requests
<1>1. PICK q \in S : q \in WaitsFor(p)
  BY DEF Cycle
<1>2. /\ q # None /\ q # p
      /\ call[p].step \in {"model", "request"} \/ (call[p].step = "evidence" /\ call[p].want # <<>>)
  BY <1>1 DEF WaitsFor
<1>3. call[p].request \in Requests
  BY <1>2 DEF SInv, CallsAreAboutRequests
<1> QED
  BY <1>1, <1>2, <1>3

(* Who waits for a document has none after it.                              *)
LEMMA HeldBeforeWanted ==
  ASSUME LInv, NEW p \in Procs, call[p].step = "evidence", call[p].want # <<>>, NEW e \in Evidence
  PROVE  /\ Head(call[p].want) \in Evidence
         /\ holder[DocOf(e)] = p => Head(call[p].want) > e
         /\ p \in sharing[e] /\ InOrder(call[p].body) => ~(e > Head(call[p].want))
<1>1. LocksInOrder(p) /\ WantsInOrder(call[p])
  BY DEF LInv, LocksInOrder
<1>2. call[p].want \in Seq(Evidence) /\ call[p].body \in Seq(Evidence)
  BY <1>1 DEF WantsInOrder
<1>3. /\ Head(call[p].want) \in Evidence /\ Head(call[p].want) = call[p].want[1]
      /\ 1 \in 1..Len(call[p].want)
  BY <1>2, TailOf
<1>4. Head(call[p].want) \in Wanted(call[p])
  BY <1>3 DEF Wanted
<1>5. ASSUME p \in sharing[e], InOrder(call[p].body)
      PROVE  ~(e > Head(call[p].want))
  <2>1. call[p].op # "accept"
    BY <1>1, <1>5 DEF LocksInOrder
  <2>2. /\ Len(call[p].want) <= Len(call[p].body)
        /\ \A i \in 1..Len(call[p].want) : call[p].want[i] = call[p].body[Len(call[p].body) - Len(call[p].want) + i]
    BY <1>1, <2>1 DEF WantsInOrder
  <2>3. PICK n \in Nat : n = Len(call[p].body) - Len(call[p].want)
    <3>1. PICK m \in Nat : m = Len(call[p].body)
      BY <1>2
    <3>2. PICK l \in Nat : l = Len(call[p].want)
      BY <1>2
    <3>3. l <= m
      BY <2>2, <3>1, <3>2
    <3>4. m - l \in Nat
      BY <3>3
    <3> QED
      BY <3>1, <3>2, <3>4
  <2>4. call[p].body[n + 1] = Head(call[p].want)
    BY <1>3, <2>2, <2>3
  <2>5. PICK k \in 1..n : call[p].body[k] = e
    BY <1>1, <1>5, <2>3 DEF LocksInOrder
  <2>6. k \in DOMAIN call[p].body /\ n + 1 \in DOMAIN call[p].body /\ k < n + 1
    <3>1. PICK m \in Nat : m = Len(call[p].body)
      BY <1>2
    <3>2. PICK l \in Nat : l = Len(call[p].want) /\ l >= 1
      BY <1>2, <1>3
    <3>3. n = m - l /\ n + 1 <= m
      BY <2>3, <3>1, <3>2
    <3>4. DOMAIN call[p].body = 1..m
      BY <1>2, <3>1
    <3>5. k \in 1..m /\ n + 1 \in 1..m /\ k < n + 1
      BY <2>5, <3>3
    <3> QED
      BY <3>4, <3>5
  <2> QED
    BY <1>5, <2>4, <2>5, <2>6 DEF InOrder
<1> QED
  BY <1>1, <1>3, <1>4, <1>5 DEF LocksInOrder

(* In a circle of sorted submissions each wait leads to a later document.   *)
LEMMA WaitsGoUp ==
  ASSUME SInv, LInv, NEW S \in SUBSET Procs, Cycle(S),
         \A p \in S : call[p].op = "submit" => InOrder(call[p].body),
         NEW p \in S, call[p].step = "evidence"
  PROVE  \E q \in S : call[q].step = "evidence" /\ Head(call[q].want) > Head(call[p].want)
<1> DEFINE e == Head(call[p].want)
<1>1. call[p].want # <<>> /\ \E q \in S : q \in WaitsFor(p) /\ q # None /\ q # p
  BY OfACircle
<1>2. PICK q \in S : q \in WaitsFor(p) /\ q # None /\ q # p
  BY <1>1
<1>3. e \in Evidence
  <2>1. call[p].want \in Seq(Evidence)
    BY DEF LInv, LocksInOrder, WantsInOrder
  <2> QED
    BY <1>1, <2>1, TailOf
<1>4. holder[DocOf(e)] = q \/ q \in sharing[e]
  BY <1>1, <1>2 DEF WaitsFor
<1> HIDE DEF e
<1>5. LocksInOrder(q) /\ LocksExclude /\ Evidence \subseteq Nat
  BY SupplierAssumption DEF LInv
<1>6. call[q].step \in Past
  BY <1>3, <1>4, <1>5 DEF LocksInOrder
<1>7. call[q].step = "evidence" /\ call[q].want # <<>>
  BY <1>6, OfACircle DEF Past
<1> DEFINE d == Head(call[q].want)
<1>8. /\ d \in Evidence /\ (holder[DocOf(e)] = q => d > e)
      /\ (q \in sharing[e] /\ InOrder(call[q].body) => ~(e > d))
  BY <1>3, <1>7, HeldBeforeWanted
<1>9. CASE holder[DocOf(e)] = q
  BY <1>7, <1>8, <1>9 DEF e
<1>10. CASE q \in sharing[e]
  <2>1. call[q].op = "submit" /\ holder[DocOf(e)] = None
    BY <1>3, <1>5, <1>10 DEF LocksInOrder, LocksExclude
  <2>2. ~(e > d)
    BY <1>8, <1>10, <2>1
  <2>3. d # e
    <3> SUFFICES ASSUME d = e PROVE FALSE
      OBVIOUS
    <3>1. WaitsFor(q) = ({None} \cup {}) \ {None, q}
      BY <1>7, <2>1 DEF WaitsFor
    <3> QED
      BY <3>1, OfACircle
  <2>4. d \in Nat /\ e \in Nat
    BY <1>3, <1>5, <1>8
  <2>5. d > e
    BY <2>2, <2>3, <2>4
  <2> QED
    BY <1>7, <2>5 DEF e
<1> QED
  BY <1>4, <1>9, <1>10

(* Somebody of a circle waits for a document.                               *)
LEMMA CirclesReachDocuments ==
  ASSUME SInv, LInv, NEW S \in SUBSET Procs, Cycle(S)
  PROVE  \E p \in S : call[p].step = "evidence"
<1>1. ASSUME NEW p \in S, call[p].step = "request"
      PROVE  \E q \in S : call[q].step = "evidence"
  <2>1. call[p].request \in Requests
    BY OfACircle
  <2>2. PICK q \in S : q \in WaitsFor(p) /\ q # None /\ q # p
    BY OfACircle
  <2>3. holder[RowOf(call[p].request)] = q
    BY <1>1, <2>2 DEF WaitsFor
  <2>4. call[q].step \in Past
    BY <2>1, <2>3 DEF LInv, LocksInOrder
  <2> QED
    BY <2>4, OfACircle DEF Past
<1>2. ASSUME NEW p \in S, call[p].step = "model"
      PROVE  \E q \in S : call[q].step \in {"request", "evidence"}
  <2>1. call[p].request \in Requests
    BY OfACircle
  <2>2. PICK q \in S : q \in WaitsFor(p) /\ q # None /\ q # p
    BY OfACircle
  <2>3. holder[ModelRow(call[p].request)] = q
    BY <1>2, <2>2 DEF WaitsFor
  <2>4. call[q].step \in Past \cup {"request"}
    BY <2>1, <2>3 DEF LInv, LocksInOrder
  <2> QED
    BY <2>4, OfACircle DEF Past
<1>3. PICK p \in S : TRUE
  BY DEF Cycle
<1>4. call[p].step \in {"model", "request", "evidence"}
  BY OfACircle
<1> QED
  BY <1>1, <1>2, <1>4

(* Calls only deadlock when a submission names its documents out of order:  *)
(* submit takes them in the order of the body, accept in that of the ids    *)
(* (suppliers.controller.ts).                                               *)
THEOREM DeadlockNeedsAnUnsortedSubmission == Spec => []OnlyUnsortedSubmitsDeadlock
<1>1. ASSUME SInv, LInv
      PROVE  OnlyUnsortedSubmitsDeadlock
  <2> SUFFICES ASSUME NEW S \in SUBSET Procs, Cycle(S), \A p \in S : call[p].op = "submit" => InOrder(call[p].body)
               PROVE  FALSE
    BY DEF OnlyUnsortedSubmitsDeadlock, InOrder
  <2> DEFINE At == {p \in S : call[p].step = "evidence"}
             H == {Head(call[p].want) : p \in At}
  <2>1. \A p \in At : Head(call[p].want) \in Evidence
    <3> SUFFICES ASSUME NEW p \in At PROVE Head(call[p].want) \in Evidence
      OBVIOUS
    <3>1. call[p].want # <<>>
      BY <1>1, OfACircle
    <3>2. LocksInOrder(p)
      BY <1>1 DEF LInv
    <3> QED
      BY <3>1, <3>2, TailOf DEF LocksInOrder, WantsInOrder
  <2>2. H \subseteq Nat /\ IsFiniteSet(H)
    <3>1. H \subseteq Evidence
      BY <2>1
    <3> HIDE DEF H
    <3> QED
      BY <3>1, SupplierAssumption, FS_Subset
  <2>3. H # {}
    BY <1>1, CirclesReachDocuments
  <2>4. PICK k \in H : \A h \in H : h <= k
    <3> HIDE DEF H
    <3> QED
      BY <2>2, <2>3, GreatestNatural
  <2>5. PICK p \in At : k = Head(call[p].want)
    BY <2>4
  <2>6. PICK q \in At : Head(call[q].want) > k
    BY <1>1, <2>5, WaitsGoUp
  <2>7. PICK h \in H : h = Head(call[q].want)
    OBVIOUS
  <2>8. h > k /\ h <= k /\ h \in Nat /\ k \in Nat
    <3> HIDE DEF H
    <3> QED
      BY <2>2, <2>4, <2>6, <2>7
  <2> QED
    BY <2>8
<1> QED
  BY <1>1, Invariance, LocksAreInOrder, PTL

-----------------------------------------------------------------------------
(* Acceptance only imports documents that are not rejected at that moment:  *)
(* it holds them all, and each was looked at when it was locked.            *)
THEOREM AcceptedDocumentsAreUsable == Spec => AcceptedIsUsable
<1>1. ASSUME SInv, LInv, [Next]_vars
      PROVE  \A r \in Requests : status'[r] = "accepted" /\ status[r] # "accepted" => Documents(r) \cap rejected = {}
  <2> SUFFICES ASSUME NEW r \in Requests, status'[r] = "accepted", status[r] # "accepted"
               PROVE  Documents(r) \cap rejected = {}
    OBVIOUS
  <2>1. PICK p \in Procs : Commit(p)
    <3>1. status' # status
      OBVIOUS
    <3>2. ~UNCHANGED rows
      BY <3>1 DEF rows
    <3>3. ASSUME NEW s \in Requests, CreateRequest(s) PROVE FALSE
      BY <1>1, <3>3 DEF CreateRequest, SInv, Types
    <3> QED
      BY <1>1, <3>2, <3>3, RowsOrCommit
  <2>2. r = call[p].request /\ call[p].step = "write"
    BY <1>1, <2>1, CommitFrame DEF Commit
  <2>3. call[p].op = "accept"
    <3>1. status \in [Requests -> RequestStatus]
      BY <1>1 DEF SInv, Types
    <3>2. CASE call[p].op = "session"
      <4>1. status'[r] \in {status[r], Opened(status[r])}
        BY <2>1, <2>2, <3>1, <3>2 DEF Commit
      <4> QED
        BY <4>1 DEF Opened
    <3>3. CASE call[p].op = "submit"
      BY <2>1, <2>2, <3>1, <3>3 DEF Commit
    <3> QED
      BY <2>1, <3>2, <3>3 DEF Commit
  <2>4. LocksInOrder(p) /\ WantsInOrder(call[p]) /\ call[p].want = <<>>
    BY <1>1, <2>2 DEF LInv, LocksInOrder, WantsInOrder
  <2>5. Wanted(call[p]) = {}
    BY <2>4 DEF Wanted
  <2>6. \A e \in Documents(r) : e \in Evidence /\ holder[DocOf(e)] = p
    BY <2>2, <2>3, <2>4, <2>5, DocumentsOf DEF LocksInOrder, Past
  <2> QED
    BY <2>4, <2>6 DEF LocksInOrder
<1> QED
  BY <1>1, Invariance, LocksAreInOrder, PTL DEF Spec, AcceptedIsUsable
=============================================================================
