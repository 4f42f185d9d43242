------------------------- MODULE CapabilitiesProofs -------------------------
(***************************************************************************)
(* For any number of requests, grants, authorisations and scopes: work is   *)
(* authorised until it ends, a grant is revoked once, and no requests wait  *)
(* for each other in a circle.                                              *)
(*                                                                         *)
(* The argument is the locking: a transaction past its second look shares   *)
(* its row (Good), a row held exclusively is shared by nobody else          *)
(* (Exclusive), and only who holds a row exclusively revokes it.            *)
(***************************************************************************)
EXTENDS Capabilities, TLAPS

(* What holds of each request.                                              *)
Good(p) ==
  LET c == call[p] IN
  /\ c.step \in {"share", "work"} => c.cap \in Rows
  /\ c.op = "read" => c.target = None
  /\ c.op = "revoke" => c.cap = None
  /\ c.op = "delegated" => c.cap \in Authorisations /\ c.target \in Grants \cup {None} /\ c.txs \in 1..MaxTxs
  /\ c.step \in {"exclusive", "write"} => c.target \in Rows
  /\ c.step \in Past /\ c.cap # None =>
       p \in sharing[c.cap] /\ row[c.cap].kept = "active" /\ Permits(c.cap, c.scope)
  /\ c.step = "write" => holder[c.target] = p /\ ~Again(c.target)

Exclusive == \A c \in Rows : holder[c] # None => sharing[c] \subseteq {holder[c]}

Once == \A g \in Grants : revocations[g] = IF row[g].kept = "revoked" THEN 1 ELSE 0

Types ==
  /\ row \in [Rows -> Row]
  /\ revocations \in [Grants -> Nat]
  /\ call \in [Procs -> Call]
  /\ holder \in [Rows -> Procs \cup {None}] /\ sharing \in [Rows -> SUBSET Procs]
  /\ calls \in 0..MaxCalls

(* The locks of a request: its row once it has passed the second look, what *)
(* it revokes only while it writes.                                         *)
Holds(p) ==
  \A c \in Rows :
    /\ holder[c] = p => call[p].step = "write"
    /\ p \in sharing[c] => call[p].step \in Past /\ call[p].cap = c

CInv == Types /\ Exclusive /\ Once /\ \A p \in Procs : Good(p) /\ Holds(p)

(* A transaction takes and gives up locks of its own.                       *)
LocksStay(p) ==
  \A q \in Procs \ {p}, c \in Rows :
    /\ q \in sharing'[c] <=> q \in sharing[c]
    /\ holder'[c] = q <=> holder[c] = q

(* What a row says, apart from the time.                                    *)
SameRows ==
  \A c \in Rows : /\ row'[c].kept = row[c].kept
                  /\ row'[c].allows = row[c].allows /\ row'[c].formed = row[c].formed

-----------------------------------------------------------------------------
LEMMA IdleIsCall == Idle \in Call /\ Idle.step = "idle" /\ Idle.op = "read" /\ Idle.target = None /\ Idle.cap = None
  BY DEF Idle, Call, Ops

(* An idle request has nothing to keep.                                     *)
LEMMA IdleIsGood ==
  ASSUME NEW p \in Procs, call'[p] = Idle
  PROVE  Good(p)'
BY IdleIsCall DEF Good, Past

LEMMA CInvInit ==
  ASSUME Init
  PROVE  CInv
<1>1. row \in [Rows -> Row] /\ \A c \in Rows : row[c].kept # "revoked"
  <2>1. Absent \in Row /\ Malformed \in Row /\ Absent.kept # "revoked" /\ Malformed.kept # "revoked"
    BY DEF Absent, Malformed, Row
  <2> QED
    BY <2>1 DEF Init
<1>2. Types
  BY <1>1, IdleIsCall, CapabilitiesAssumption DEF Init, Types
<1>3. Exclusive /\ Once
  BY <1>1 DEF Init, Exclusive, Once, Rows
<1>4. \A p \in Procs : Good(p) /\ Holds(p)
  BY IdleIsCall, CapabilitiesAssumption DEF Init, Good, Holds, Past
<1> QED
  BY <1>2, <1>3, <1>4 DEF CInv

(* Requests keep what holds of them while nobody revokes.                   *)
LEMMA OthersStayGood ==
  ASSUME CInv, SameRows, NEW p, LocksStay(p), NEW q \in Procs, q # p, call'[q] = call[q]
  PROVE  Good(q)' /\ Holds(q)'
<1> DEFINE c == call[q]
<1>1. Good(q) /\ c \in Call
  BY DEF CInv, Types
<1>5. Holds(q)'
  BY DEF CInv, Holds, LocksStay
<1>2. c.cap \in Rows \cup {None} /\ c.target \in Rows \cup {None}
  BY <1>1 DEF Call
<1>3. ASSUME c.step \in Past, c.cap # None
      PROVE  q \in sharing'[c.cap] /\ row'[c.cap].kept = "active" /\ Permits(c.cap, c.scope)'
  BY <1>1, <1>2, <1>3 DEF Good, LocksStay, SameRows, Permits
<1>4. ASSUME c.step = "write"
      PROVE  holder'[c.target] = q /\ ~Again(c.target)'
  BY <1>1, <1>4 DEF Good, LocksStay, SameRows, Again
<1> QED
  BY <1>1, <1>3, <1>4, <1>5 DEF Good, Past

(* The end of a transaction releases its locks and no other.                *)
LEMMA ReleaseFrame ==
  ASSUME CInv, NEW p \in Procs, Releases(p)
  PROVE  /\ LocksStay(p) /\ Exclusive'
         /\ \A c \in Rows : holder'[c] # p /\ p \notin sharing'[c]
         /\ holder' \in [Rows -> Procs \cup {None}] /\ sharing' \in [Rows -> SUBSET Procs]
BY CapabilitiesAssumption DEF CInv, Types, Releases, LocksStay, Exclusive

(* After a commit the request is over or starts its next transaction.       *)
LEMMA DoneFrame ==
  ASSUME CInv, NEW p \in Procs, Done(p)
  PROVE  /\ call' \in [Procs -> Call] /\ Good(p)' /\ Holds(p)' /\ LocksStay(p) /\ Exclusive'
         /\ \A q \in Procs \ {p} : call'[q] = call[q]
         /\ holder' \in [Rows -> Procs \cup {None}] /\ sharing' \in [Rows -> SUBSET Procs]
<1> DEFINE c == call[p]
           d == [c EXCEPT !.step = "share", !.target = None, !.txs = @ - 1]
<1>1. c \in Call /\ Good(p) /\ call \in [Procs -> Call]
  BY DEF CInv, Types
<1>2. ASSUME c.op = "delegated", c.txs > 1
      PROVE  /\ d \in Call /\ d.step = "share" /\ d.op = "delegated" /\ d.target = None
             /\ d.cap = c.cap /\ d.txs \in 1..MaxTxs
  <2>1. c.txs \in 1..MaxTxs
    BY <1>1, <1>2 DEF Good
  <2>2. c.txs - 1 \in Nat /\ c.txs - 1 \in 1..MaxTxs
    BY <1>2, <2>1, CapabilitiesAssumption
  <2> QED
    BY <1>1, <1>2, <2>2 DEF Call
<1>3. call' = [call EXCEPT ![p] = IF c.op = "delegated" /\ c.txs > 1 THEN d ELSE Idle]
  BY DEF Done
<1>4. /\ LocksStay(p) /\ Exclusive' /\ Holds(p)'
      /\ holder' \in [Rows -> Procs \cup {None}] /\ sharing' \in [Rows -> SUBSET Procs]
  BY ReleaseFrame DEF Done, Holds
<1> HIDE DEF d
<1>5. call' \in [Procs -> Call] /\ \A q \in Procs \ {p} : call'[q] = call[q]
  BY <1>1, <1>2, <1>3, IdleIsCall
<1>6. Good(p)'
  <2>1. CASE c.op = "delegated" /\ c.txs > 1
    <3>1. call'[p] = d
      BY <1>1, <1>3, <2>1
    <3>2. c.cap \in Authorisations
      BY <1>1, <2>1 DEF Good
    <3> QED
      BY <1>2, <2>1, <3>1, <3>2 DEF Good, Past, Rows
  <2>2. CASE ~(c.op = "delegated" /\ c.txs > 1)
    <3>1. call'[p] = Idle
      BY <1>1, <1>3, <2>2
    <3> QED
      BY <3>1, IdleIsGood
  <2> QED
    BY <2>1, <2>2
<1> QED
  BY <1>4, <1>5, <1>6

(* A step that leaves the rows alone keeps the invariant if it keeps what   *)
(* holds of its own request.                                                *)
LEMMA StepKeeps ==
  ASSUME CInv, NEW p \in Procs, UNCHANGED <<row, revocations>>, calls' \in 0..MaxCalls,
         call' \in [Procs -> Call], \A q \in Procs \ {p} : call'[q] = call[q],
         Good(p)', Holds(p)', LocksStay(p), Exclusive',
         holder' \in [Rows -> Procs \cup {None}], sharing' \in [Rows -> SUBSET Procs]
  PROVE  CInv'
<1>1. Types' /\ Once'
  BY DEF CInv, Types, Once
<1>2. \A q \in Procs : Good(q)' /\ Holds(q)'
  <2>1. SameRows
    BY DEF SameRows
  <2> QED
    BY <2>1, OthersStayGood
<1> QED
  BY <1>1, <1>2 DEF CInv

(* A change of the rows that revokes nothing and no active row.             *)
LEMMA RowsChange ==
  ASSUME CInv, UNCHANGED <<revocations, call, locks, calls>>, NEW c \in Rows, NEW new \in Row,
         row' = [row EXCEPT ![c] = new], new.kept # "absent",
         row[c].kept = "absent" => new.kept = "active",
         row[c].kept # "absent" => new.kept = row[c].kept /\ new.allows = row[c].allows /\ new.formed = row[c].formed
  PROVE  CInv'
<1>1. row' \in [Rows -> Row] /\ row'[c] = new /\ \A d \in Rows \ {c} : row'[d] = row[d]
  BY DEF CInv, Types
<1>2. Types'
  BY <1>1 DEF CInv, Types, locks
<1>3. Exclusive'
  BY DEF CInv, Exclusive, locks
<1>4. \A d \in Rows : (row'[d].kept = "revoked") <=> (row[d].kept = "revoked")
  BY <1>1
<1>5. Once'
  BY <1>4 DEF CInv, Once, Rows
<1>6. ASSUME NEW p \in Procs
      PROVE  Good(p)' /\ Holds(p)'
  <2>0. Holds(p)'
    BY DEF CInv, Holds, locks
  <2>1. Good(p) /\ call[p] \in Call /\ UNCHANGED <<call, holder, sharing>>
    BY DEF CInv, Types, locks
  <2>2. call[p].cap \in Rows \cup {None} /\ call[p].target \in Rows \cup {None}
    BY <2>1 DEF Call
  <2>3. ASSUME call[p].step \in Past, call[p].cap # None
        PROVE  p \in sharing[call[p].cap] /\ row'[call[p].cap].kept = "active" /\ Permits(call[p].cap, call[p].scope)'
    <3>1. p \in sharing[call[p].cap] /\ row[call[p].cap].kept = "active" /\ Permits(call[p].cap, call[p].scope)
      BY <2>1, <2>3 DEF Good
    <3>2. row'[call[p].cap].kept = "active" /\ row'[call[p].cap].allows = row[call[p].cap].allows
          /\ row'[call[p].cap].formed = row[call[p].cap].formed
      BY <1>1, <2>2, <2>3, <3>1
    <3> QED
      BY <2>1, <3>1, <3>2 DEF Permits
  <2>4. ASSUME call[p].step = "write"
        PROVE  holder[call[p].target] = p /\ ~Again(call[p].target)'
    <3>1. call[p].target \in Rows
      BY <2>1, <2>4 DEF Good
    <3> QED
      BY <1>4, <2>1, <2>4, <3>1 DEF Good, Again
  <2> QED
    BY <2>0, <2>1, <2>3, <2>4 DEF Good, Past
<1> QED
  BY <1>2, <1>3, <1>5, <1>6 DEF CInv

-----------------------------------------------------------------------------
(* Each operation keeps the invariant.                                      *)

LEMMA CreateGrantKeeps ==
  ASSUME CInv, NEW g \in Grants, CreateGrant(g)
  PROVE  CInv'
<1> DEFINE new == [row[g] EXCEPT !.kept = "active", !.time = "within"]
<1>1. g \in Rows /\ row[g] \in Row /\ row[g].kept = "absent"
  BY DEF CInv, Types, CreateGrant, Rows
<1>2. new \in Row /\ new.kept = "active"
  BY <1>1 DEF Row
<1>3. row' = [row EXCEPT ![g] = new] /\ UNCHANGED <<revocations, call, locks, calls>>
  BY DEF CreateGrant
<1> HIDE DEF new
<1> QED
  BY <1>1, <1>2, <1>3, RowsChange

LEMMA CreateAuthorisationKeeps ==
  ASSUME CInv, NEW a \in Authorisations, NEW allows \in SUBSET Scopes, NEW time \in {"before", "within"},
         CreateAuthorisation(a, allows, time)
  PROVE  CInv'
<1> DEFINE new == [row[a] EXCEPT !.kept = "active", !.time = time, !.allows = allows]
<1>1. a \in Rows /\ row[a] \in Row /\ row[a].kept = "absent"
  BY DEF CInv, Types, CreateAuthorisation, Rows
<1>2. new \in Row /\ new.kept = "active"
  BY <1>1 DEF Row
<1>3. row' = [row EXCEPT ![a] = new] /\ UNCHANGED <<revocations, call, locks, calls>>
  BY DEF CreateAuthorisation
<1> HIDE DEF new
<1> QED
  BY <1>1, <1>2, <1>3, RowsChange

LEMMA TimePassesKeeps ==
  ASSUME CInv, NEW c \in Rows, TimePasses(c)
  PROVE  CInv'
<1> DEFINE t == IF row[c].time = "before" THEN "within" ELSE "after"
           new == [row[c] EXCEPT !.time = t]
<1>1. row[c] \in Row /\ row[c].kept # "absent"
  BY DEF CInv, Types, TimePasses
<1>2. t \in {"before", "within", "after"}
  OBVIOUS
<1>3. row' = [row EXCEPT ![c] = new] /\ UNCHANGED <<revocations, call, locks, calls>>
  BY DEF TimePasses
<1> HIDE DEF t
<1>4. new \in Row /\ new.kept = row[c].kept /\ new.allows = row[c].allows /\ new.formed = row[c].formed
  BY <1>1, <1>2 DEF Row
<1> HIDE DEF new
<1> QED
  BY <1>1, <1>3, <1>4, RowsChange

LEMMA StartsKeeps ==
  ASSUME CInv, NEW p \in Procs, NEW new \in Call, Starts(p, new), call'[p] = new => Good(p)'
  PROVE  CInv'
<1>1. call' = [call EXCEPT ![p] = new] /\ calls' = calls + 1 /\ calls < MaxCalls /\ UNCHANGED <<row, revocations, locks>>
  BY DEF Starts
<1>2. calls' \in 0..MaxCalls
  BY <1>1, CapabilitiesAssumption DEF CInv, Types
<1>3. call' \in [Procs -> Call] /\ call'[p] = new /\ \A q \in Procs \ {p} : call'[q] = call[q]
  BY <1>1 DEF CInv, Types
<1>4. /\ LocksStay(p) /\ Exclusive'
      /\ holder' \in [Rows -> Procs \cup {None}] /\ sharing' \in [Rows -> SUBSET Procs]
  BY <1>1 DEF CInv, Types, LocksStay, Exclusive, locks
<1>5. Holds(p)'
  <2>1. Holds(p) /\ call[p].step = "idle"
    BY DEF CInv, Starts
  <2>2. \A c \in Rows : holder[c] # p /\ p \notin sharing[c]
    BY <2>1 DEF Holds, Past
  <2> QED
    BY <1>1, <2>2 DEF Holds, locks
<1> QED
  BY <1>1, <1>2, <1>3, <1>4, <1>5, StepKeeps

LEMMA ResolveKeeps ==
  ASSUME CInv, NEW p \in Procs, NEW g \in Grants, Resolve(p, g)
  PROVE  CInv'
<1> DEFINE new == [Idle EXCEPT !.step = "share", !.cap = g]
<1>1. /\ new \in Call /\ new.step = "share" /\ new.cap = g /\ new.op = "read" /\ new.target = None
  BY DEF Idle, Call, Ops, Rows
<1>2. Starts(p, new)
  BY DEF Resolve
<1> HIDE DEF new
<1>3. call'[p] = new => Good(p)'
  BY <1>1 DEF Good, Past, Rows
<1> QED
  BY <1>1, <1>2, <1>3, StartsKeeps

LEMMA GuardKeeps ==
  ASSUME CInv, NEW p \in Procs, NEW scope \in Scopes, NEW txs \in 1..MaxTxs, Guard(p, scope, txs)
  PROVE  CInv'
<1>1. PICK a \in Selected(scope) :
        Starts(p, [Idle EXCEPT !.op = "delegated", !.step = "share", !.cap = a, !.scope = scope, !.txs = txs])
  BY DEF Guard
<1> DEFINE new == [Idle EXCEPT !.op = "delegated", !.step = "share", !.cap = a, !.scope = scope, !.txs = txs]
<1>2. a \in Authorisations
  BY DEF Selected
<1>3. txs \in Nat
  BY CapabilitiesAssumption
<1>4. /\ new \in Call /\ new.step = "share" /\ new.cap = a /\ new.op = "delegated" /\ new.target = None /\ new.txs = txs
  BY <1>2, <1>3 DEF Idle, Call, Ops, Rows
<1>5. Starts(p, new)
  BY <1>1
<1> HIDE DEF new
<1>6. call'[p] = new => Good(p)'
  BY <1>2, <1>4 DEF Good, Past, Rows
<1> QED
  BY <1>4, <1>5, <1>6, StartsKeeps

LEMMA RevokeKeeps ==
  ASSUME CInv, NEW p \in Procs, NEW c \in Rows, Revoke(p, c)
  PROVE  CInv'
<1> DEFINE new == [Idle EXCEPT !.op = "revoke", !.step = "exclusive", !.target = c]
<1>1. /\ new \in Call /\ new.step = "exclusive" /\ new.cap = None /\ new.op = "revoke" /\ new.target = c
  BY DEF Idle, Call, Ops
<1>2. Starts(p, new)
  BY DEF Revoke
<1> HIDE DEF new
<1>3. call'[p] = new => Good(p)'
  BY <1>1 DEF Good, Past
<1> QED
  BY <1>1, <1>2, <1>3, StartsKeeps

(* A request that ends without a write.                                     *)
LEMMA EndsKeeps ==
  ASSUME CInv, NEW p \in Procs, Ends(p), UNCHANGED <<row, revocations, calls>>
  PROVE  CInv'
<1>1. call' = [call EXCEPT ![p] = Idle] /\ Releases(p)
  BY DEF Ends
<1>2. call' \in [Procs -> Call] /\ call'[p] = Idle /\ \A q \in Procs \ {p} : call'[q] = call[q]
  BY <1>1, IdleIsCall DEF CInv, Types
<1>3. Good(p)'
  BY <1>2, IdleIsGood
<1>4. /\ LocksStay(p) /\ Exclusive' /\ \A c \in Rows : holder'[c] # p /\ p \notin sharing'[c]
      /\ holder' \in [Rows -> Procs \cup {None}] /\ sharing' \in [Rows -> SUBSET Procs]
  BY <1>1, ReleaseFrame
<1>5. Holds(p)' /\ calls' \in 0..MaxCalls
  BY <1>4 DEF Holds, CInv, Types
<1> QED
  BY <1>2, <1>3, <1>4, <1>5, StepKeeps

(* A transaction that ends without a write.                                 *)
LEMMA DoneKeeps ==
  ASSUME CInv, NEW p \in Procs, Done(p), UNCHANGED <<row, revocations, calls>>
  PROVE  CInv'
<1>1. calls' \in 0..MaxCalls
  BY DEF CInv, Types
<1> QED
  BY <1>1, DoneFrame, StepKeeps

LEMMA AdmitKeeps ==
  ASSUME CInv, NEW p \in Procs, Admit(p)
  PROVE  CInv'
<1>0. PICK c, new : c = call[p].cap /\ new = [call[p] EXCEPT !.step = "work"]
  OBVIOUS
<1>1. UNCHANGED <<row, revocations, calls>> /\ call[p].step = "share" /\ holder[c] \in {None, p}
  BY <1>0 DEF Admit
<1>2. CASE Ends(p)
  BY <1>1, <1>2, EndsKeeps
<1>3. CASE Usable(c, call[p].scope) /\ sharing' = [sharing EXCEPT ![c] = @ \cup {p}] /\ Goes(p, "work") /\ UNCHANGED holder
  <2>1. Good(p) /\ Holds(p) /\ Types /\ Exclusive /\ c \in Rows
    BY <1>0, <1>1 DEF CInv, Good
  <2>2. call' = [call EXCEPT ![p] = new]
    BY <1>0, <1>3 DEF Goes
  <2>3. /\ new \in Call /\ new.step = "work" /\ new.op = call[p].op /\ new.cap = c /\ new.target = call[p].target
        /\ new.scope = call[p].scope /\ new.txs = call[p].txs
    BY <1>0, <2>1 DEF Types, Call
  <2>4. call' \in [Procs -> Call] /\ call'[p] = new /\ \A q \in Procs \ {p} : call'[q] = call[q]
    BY <2>1, <2>2, <2>3 DEF Types
  <2>5. /\ sharing' \in [Rows -> SUBSET Procs] /\ holder' \in [Rows -> Procs \cup {None}]
        /\ p \in sharing'[c] /\ LocksStay(p)
    BY <1>3, <2>1 DEF Types, LocksStay
  <2>6. Exclusive'
    BY <1>1, <1>3, <2>1 DEF Types, Exclusive
  <2>7. p \in sharing'[c] /\ row'[c].kept = "active" /\ row'[c].formed
        /\ (c \in Authorisations => call[p].scope \in row'[c].allows)
    BY <1>1, <1>3, <2>5 DEF Usable, Permits
  <2>8. Good(p)'
    <3>1. /\ call[p].op = "read" => call[p].target = None
          /\ call[p].op = "revoke" => call[p].cap = None
          /\ call[p].op = "delegated" =>
               call[p].cap \in Authorisations /\ call[p].target \in Grants \cup {None} /\ call[p].txs \in 1..MaxTxs
      BY <2>1 DEF Good
    <3>2. /\ new.op = "read" => new.target = None
          /\ new.op = "revoke" => new.cap = None
      BY <1>0, <2>3, <3>1
    <3>3. new.op = "delegated" => new.cap \in Authorisations /\ new.target \in Grants \cup {None} /\ new.txs \in 1..MaxTxs
      BY <1>0, <2>3, <3>1
    <3>4. row'[new.cap].kept = "active" /\ Permits(new.cap, new.scope)'
      BY <2>3, <2>4, <2>7 DEF Permits
    <3>5. p \in sharing'[new.cap] /\ new.cap \in Rows
      BY <2>1, <2>3, <2>7
    <3> QED
      BY <2>3, <2>4, <3>1, <3>2, <3>3, <3>4, <3>5 DEF Good
  <2>9. Holds(p)'
    <3>1. \A d \in Rows : holder[d] # p /\ p \notin sharing[d]
      BY <1>1, <2>1 DEF Holds, Past
    <3> QED
      BY <1>3, <2>1, <2>3, <2>4, <3>1 DEF Holds, Past, Types
  <2>10. calls' \in 0..MaxCalls
    BY <1>1, <2>1 DEF Types
  <2> QED
    BY <1>1, <2>4, <2>5, <2>6, <2>8, <2>9, <2>10, StepKeeps
<1> QED
  BY <1>0, <1>2, <1>3 DEF Admit

LEMMA WorkKeeps ==
  ASSUME CInv, NEW p \in Procs, Work(p)
  PROVE  CInv'
BY DoneKeeps DEF Work

LEMMA WorkRevokesKeeps ==
  ASSUME CInv, NEW p \in Procs, NEW c \in Delegable, WorkRevokes(p, c)
  PROVE  CInv'
<1>0. PICK new : new = [call[p] EXCEPT !.step = "exclusive", !.target = c]
  OBVIOUS
<1>1. /\ UNCHANGED <<row, revocations, locks, calls>> /\ call[p].step = "work" /\ call[p].op = "delegated"
      /\ call' = [call EXCEPT ![p] = new]
  BY <1>0 DEF WorkRevokes, CInv, Types
<1>2. Good(p) /\ Holds(p) /\ Types /\ Exclusive /\ c \in Grants /\ c \in Rows /\ call[p].cap \in Rows
  BY <1>1 DEF CInv, Delegable, Rows, Good
<1>3. /\ new \in Call /\ new.step = "exclusive" /\ new.op = "delegated" /\ new.cap = call[p].cap
      /\ new.target = c /\ new.scope = call[p].scope /\ new.txs = call[p].txs
  BY <1>0, <1>1, <1>2 DEF Types, Call
<1>4. call' \in [Procs -> Call] /\ call'[p] = new /\ \A q \in Procs \ {p} : call'[q] = call[q]
  BY <1>1, <1>2, <1>3 DEF Types
<1>5. /\ LocksStay(p) /\ Exclusive' /\ calls' \in 0..MaxCalls
      /\ holder' \in [Rows -> Procs \cup {None}] /\ sharing' \in [Rows -> SUBSET Procs]
  BY <1>1, <1>2 DEF Types, LocksStay, Exclusive, locks
<1>6. Holds(p)'
  BY <1>1, <1>2, <1>3, <1>4 DEF Holds, Past, locks
<1>7. Good(p)'
  <2>1. call[p].cap # None => p \in sharing[call[p].cap] /\ row[call[p].cap].kept = "active" /\ Permits(call[p].cap, call[p].scope)
    BY <1>1, <1>2 DEF Good, Past
  <2>2. new.cap # None => p \in sharing'[new.cap] /\ row'[new.cap].kept = "active" /\ Permits(new.cap, new.scope)'
    BY <1>1, <1>3, <1>4, <2>1 DEF Permits, locks
  <2>3. new.cap \in Authorisations /\ new.txs \in 1..MaxTxs
    BY <1>1, <1>2, <1>3 DEF Good
  <2> QED
    BY <1>2, <1>3, <1>4, <2>2, <2>3 DEF Good
<1> QED
  BY <1>1, <1>4, <1>5, <1>6, <1>7, StepKeeps

LEMMA TakeKeeps ==
  ASSUME CInv, NEW p \in Procs, Take(p)
  PROVE  CInv'
<1>1. PICK c, new : c = call[p].target /\ new = [call[p] EXCEPT !.step = "write"]
  OBVIOUS
<1>2. UNCHANGED <<row, revocations, calls>> /\ call[p].step = "exclusive" /\ holder[c] \in {None, p} /\ sharing[c] \subseteq {p}
  BY <1>1 DEF Take
<1>3. CASE Done(p)
  BY <1>2, <1>3, DoneKeeps
<1>4. CASE ~Again(c) /\ holder' = [holder EXCEPT ![c] = p] /\ Goes(p, "write") /\ UNCHANGED sharing
  <2>1. Good(p) /\ Holds(p) /\ Types /\ Exclusive /\ c \in Rows
    BY <1>1, <1>2 DEF CInv, Good
  <2>2. call' = [call EXCEPT ![p] = new]
    BY <1>1, <1>4 DEF Goes
  <2>3. /\ new \in Call /\ new.step = "write" /\ new.op = call[p].op /\ new.cap = call[p].cap /\ new.target = c
        /\ new.scope = call[p].scope /\ new.txs = call[p].txs
    BY <1>1, <2>1 DEF Types, Call
  <2>4. call' \in [Procs -> Call] /\ call'[p] = new /\ \A q \in Procs \ {p} : call'[q] = call[q]
    BY <2>1, <2>2, <2>3 DEF Types
  <2>5. /\ sharing' \in [Rows -> SUBSET Procs] /\ holder' \in [Rows -> Procs \cup {None}]
        /\ holder'[c] = p /\ LocksStay(p) /\ Exclusive'
    BY <1>2, <1>4, <2>1, CapabilitiesAssumption DEF Types, LocksStay, Exclusive
  <2>6. Holds(p)'
    BY <1>2, <1>4, <2>1, <2>3, <2>4 DEF Holds, Past
  <2>7. Good(p)'
    <3>1. new.cap # None => p \in sharing[new.cap] /\ row[new.cap].kept = "active" /\ Permits(new.cap, new.scope)
      BY <1>2, <2>1, <2>3 DEF Good, Past
    <3>2. new.cap # None => p \in sharing'[new.cap] /\ row'[new.cap].kept = "active" /\ Permits(new.cap, new.scope)'
      BY <1>2, <1>4, <2>3, <2>4, <3>1 DEF Permits
    <3>3. holder'[new.target] = p /\ ~Again(new.target)'
      BY <1>2, <1>4, <2>3, <2>4, <2>5 DEF Again
    <3>4. /\ call[p].op = "read" => call[p].target = None
          /\ call[p].op = "revoke" => call[p].cap = None
          /\ call[p].op = "delegated" =>
               call[p].cap \in Authorisations /\ call[p].target \in Grants \cup {None} /\ call[p].txs \in 1..MaxTxs
      BY <2>1 DEF Good
    <3>5. /\ new.op = "read" => new.target = None
          /\ new.op = "revoke" => new.cap = None
          /\ new.op = "delegated" => new.cap \in Authorisations /\ new.target \in Grants \cup {None} /\ new.txs \in 1..MaxTxs
      BY <1>1, <2>3, <3>4
    <3> QED
      BY <2>1, <2>3, <2>4, <3>2, <3>3, <3>5 DEF Good
  <2>8. calls' \in 0..MaxCalls
    BY <1>2, <2>1 DEF Types
  <2> QED
    BY <1>2, <2>4, <2>5, <2>6, <2>7, <2>8, StepKeeps
<1> QED
  BY <1>1, <1>3, <1>4 DEF Take

(* Who writes holds the row, so that nobody works under it.                 *)
LEMMA WriteKeeps ==
  ASSUME CInv, NEW p \in Procs, Write(p)
  PROVE  CInv'
<1>1. PICK c : c = call[p].target
  OBVIOUS
<1>2. /\ call[p].step = "write" /\ row' = [row EXCEPT ![c].kept = "revoked"]
      /\ revocations' = (IF c \in Grants THEN [revocations EXCEPT ![c] = @ + 1] ELSE revocations)
      /\ Done(p) /\ calls' = calls
  BY <1>1 DEF Write
<1>3. Types /\ Exclusive /\ Once /\ c \in Rows /\ holder[c] = p /\ ~Again(c) /\ sharing[c] \subseteq {p}
  <2>1. Types /\ Exclusive /\ Once /\ Good(p)
    BY DEF CInv
  <2>2. c \in Rows /\ holder[c] = p /\ ~Again(c)
    BY <1>1, <1>2, <2>1 DEF Good
  <2> QED
    BY <2>1, <2>2, CapabilitiesAssumption DEF Exclusive
<1>4. /\ row'[c].kept = "revoked" /\ row' \in [Rows -> Row]
      /\ \A d \in Rows \ {c} : row'[d] = row[d]
  <2>1. row[c] \in Row /\ [row[c] EXCEPT !.kept = "revoked"] \in Row
    BY <1>3 DEF Types, Row
  <2> QED
    BY <1>2, <1>3, <2>1 DEF Types, Row
<1>5. /\ call' \in [Procs -> Call] /\ Good(p)' /\ Holds(p)' /\ LocksStay(p) /\ Exclusive'
      /\ \A q \in Procs \ {p} : call'[q] = call[q]
      /\ holder' \in [Rows -> Procs \cup {None}] /\ sharing' \in [Rows -> SUBSET Procs]
  BY <1>2, DoneFrame
<1>6. Types'
  <2>1. revocations' \in [Grants -> Nat]
    BY <1>2, <1>3 DEF Types
  <2> QED
    BY <1>2, <1>3, <1>4, <1>5, <2>1 DEF Types
<1>7. Once'
  BY <1>2, <1>3, <1>4 DEF Once, Again, Types, Rows
<1>8. ASSUME NEW q \in Procs, q # p
      PROVE  Good(q)' /\ Holds(q)'
  <2>1. Good(q) /\ Holds(q) /\ call[q] \in Call /\ call'[q] = call[q]
    BY <1>5, <1>8 DEF CInv, Types
  <2>2. PICK k : k = call[q]
    OBVIOUS
  <2>3. k.cap \in Rows \cup {None}
    BY <2>1, <2>2 DEF Call
  <2>4. ASSUME k.step \in Past, k.cap # None
        PROVE  q \in sharing'[k.cap] /\ row'[k.cap].kept = "active" /\ Permits(k.cap, k.scope)'
    <3>1. q \in sharing[k.cap] /\ row[k.cap].kept = "active" /\ Permits(k.cap, k.scope)
      BY <2>1, <2>2, <2>4 DEF Good
    <3>2. k.cap # c /\ row'[k.cap] = row[k.cap]
      BY <1>3, <1>4, <1>8, <2>3, <2>4, <3>1
    <3> QED
      BY <1>5, <1>8, <2>3, <2>4, <3>1, <3>2 DEF LocksStay, Permits
  <2>5. ASSUME k.step = "write"
        PROVE  holder'[k.target] = q /\ ~Again(k.target)'
    <3>1. holder[k.target] = q /\ ~Again(k.target) /\ k.target \in Rows
      BY <2>1, <2>2, <2>5 DEF Good
    <3>2. row'[k.target] = row[k.target]
      BY <1>3, <1>4, <1>8, <3>1
    <3> QED
      BY <1>5, <1>8, <3>1, <3>2 DEF LocksStay, Again
  <2>6. Holds(q)'
    BY <1>5, <1>8, <2>1 DEF Holds, LocksStay
  <2>7. Good(q)'
    BY <2>1, <2>2, <2>4, <2>5 DEF Good
  <2> QED
    BY <2>6, <2>7
<1> QED
  BY <1>5, <1>6, <1>7, <1>8 DEF CInv

LEMMA RollbackKeeps ==
  ASSUME CInv, NEW p \in Procs, Rollback(p)
  PROVE  CInv'
BY EndsKeeps DEF Rollback

LEMMA CInvNext ==
  ASSUME CInv, [Next]_vars
  PROVE  CInv'
<1>1. CASE \E g \in Grants : CreateGrant(g)
  BY <1>1, CreateGrantKeeps
<1>2. CASE \E a \in Authorisations, allows \in (SUBSET Scopes) \ {{}}, time \in {"before", "within"} :
             CreateAuthorisation(a, allows, time)
  BY <1>2, CreateAuthorisationKeeps
<1>3. CASE \E c \in Rows : TimePasses(c)
  BY <1>3, TimePassesKeeps
<1>4. ASSUME NEW p \in Procs,
             \/ \E g \in Grants : Resolve(p, g)
             \/ \E scope \in Scopes, txs \in 1..MaxTxs : Guard(p, scope, txs)
             \/ \E c \in Rows : Revoke(p, c)
      PROVE  CInv'
  BY <1>4, ResolveKeeps, GuardKeeps, RevokeKeeps
<1>5. ASSUME NEW p \in Procs, Step(p)
      PROVE  CInv'
  BY <1>5, AdmitKeeps, WorkKeeps, WorkRevokesKeeps, TakeKeeps, WriteKeeps DEF Step
<1>6. ASSUME NEW p \in Procs, Rollback(p)
      PROVE  CInv'
  BY <1>6, RollbackKeeps
<1>7. CASE UNCHANGED vars
  BY <1>7 DEF CInv, Types, Exclusive, Once, Good, Holds, Permits, Again, vars, locks
<1> QED
  BY <1>1, <1>2, <1>3, <1>4, <1>5, <1>6, <1>7 DEF Next

(* The invariant holds in every behaviour.                                  *)
LEMMA Invariance == Spec => []CInv
BY CInvInit, CInvNext, PTL DEF Spec

-----------------------------------------------------------------------------
(* Rows, requests and locks are well formed, and a delegated request that   *)
(* runs has a transaction left (access-token.service.ts, tenant-db.service  *)
(* .ts).                                                                    *)
THEOREM WellFormed == Spec => []TypeOK
<1>1. CInv => TypeOK
  BY DEF CInv, Types, Good, TypeOK
<1> QED
  BY <1>1, Invariance, PTL

(* However many requests, rows and scopes there are: work under a grant or  *)
(* a written authorisation ends before the row it relies on is revoked      *)
(* (access-token.service.ts:21-30, tenant-db.service.ts:19-33).             *)
THEOREM RevocationWaits == Spec => []WorkIsAuthorised
<1>1. CInv => WorkIsAuthorised
  BY DEF CInv, Good, WorkIsAuthorised
<1> QED
  BY <1>1, Invariance, PTL

(* However many requests revoke a grant, it is revoked once                 *)
(* (access.controller.ts:44-53).                                            *)
THEOREM GrantRevokedOnce == Spec => []RevokedOnce
<1>1. CInv => RevokedOnce
  BY DEF CInv, Once, RevokedOnce
<1> QED
  BY <1>1, Invariance, PTL

-----------------------------------------------------------------------------
(* A circle of waits: everybody in S waits for somebody in S.               *)
Circle(S) == \A p \in S : WaitsFor(p) \cap S # {}

(* Who is waited for in a circle has passed its second look under an        *)
(* authorisation and wants to revoke a grant.                               *)
LEMMA WaitedFor ==
  ASSUME CInv, NEW S \in SUBSET Procs, Circle(S), NEW p \in S
  PROVE  \E q \in S : /\ call[p].step = "exclusive" /\ call[q].step = "exclusive"
                     /\ call[q].cap = call[p].target /\ call[q].cap \in Authorisations
<1>1. PICK q \in S : q \in WaitsFor(p) /\ q # None
  BY DEF Circle, WaitsFor
<1>2. call[q].step \in {"share", "exclusive"}
  BY DEF Circle, WaitsFor
<1>3. Good(p) /\ Good(q) /\ Holds(q)
  BY DEF CInv
<1>4. \A c \in Rows : holder[c] # q
  BY <1>2, <1>3 DEF Holds
<1>5. call[p].step = "exclusive" /\ q \in sharing[call[p].target] /\ call[p].target \in Rows
  BY <1>1, <1>3, <1>4 DEF WaitsFor, Good
<1>6. call[q].step = "exclusive" /\ call[q].cap = call[p].target
  BY <1>2, <1>3, <1>5 DEF Holds, Past
<1>7. call[q].op = "delegated"
  <2>1. call[q].op \in Ops /\ call[q].target \in Rows /\ None \notin Rows
    BY <1>3, <1>6, CapabilitiesAssumption DEF CInv, Types, Call, Good
  <2> QED
    BY <1>3, <1>5, <1>6, <2>1 DEF Good, Ops
<1> QED
  BY <1>3, <1>5, <1>6, <1>7 DEF Good

(* However many requests, rows and scopes there are, no transactions wait   *)
(* for each other in a circle: whoever is waited for shares an              *)
(* authorisation and waits for a grant, which nobody shares who waits       *)
(* (authorisations.controller.ts is OwnTenantOnly).                         *)
THEOREM NobodyWaitsInACircle == Spec => []NoDeadlock
<1>1. ASSUME CInv
      PROVE  NoDeadlock
  <2> SUFFICES ASSUME NEW S \in (SUBSET Procs) \ {{}}, ~ \E p \in S : WaitsFor(p) \cap S = {}
               PROVE  FALSE
    BY DEF NoDeadlock
  <2>0. S \in SUBSET Procs /\ S # {} /\ Circle(S)
    BY DEF Circle
  <2>1. PICK p \in S : TRUE
    BY <2>0
  <2>2. PICK q \in S : call[q].step = "exclusive" /\ call[q].cap \in Authorisations
    BY <1>1, <2>0, WaitedFor
  <2>3. call[q].target \in Authorisations
    BY <1>1, <2>0, WaitedFor
  <2>4. Good(q) /\ call[q].op \in Ops
    BY <1>1 DEF CInv, Types, Call
  <2> QED
    BY <2>2, <2>3, <2>4, CapabilitiesAssumption DEF Good, Ops, Rows
<1> QED
  BY <1>1, Invariance, PTL
=============================================================================
