----------------------------- MODULE Capabilities ---------------------------
(***************************************************************************)
(* The two rows that let somebody else act: an access grant, whose token    *)
(* reads a restricted passport, and a written authorisation, under which a  *)
(* service provider works for the responsible operator.                     *)
(*                                                                         *)
(* Both are looked up before the transaction that relies on them.  That     *)
(* transaction locks the row FOR SHARE and looks again; who revokes it      *)
(* takes the row exclusively and waits.  A delegated request may run        *)
(* several transactions, each with a check of its own, and its work may be  *)
(* to revoke a grant.                                                       *)
(***************************************************************************)
EXTENDS Naturals, FiniteSets, TLC

CONSTANTS
  Procs,           \* concurrent requests
  Grants,          \* access grants
  Authorisations,  \* written authorisations, numbered in the order of their ids
  Scopes,          \* actions an authorisation may allow
  None,            \* no process, row or scope
  MaxTxs,          \* bound: transactions of one delegated request
  MaxCalls         \* bound: requests started

Rows == Grants \cup Authorisations

(* Requests are alike, and so are scopes; a model may take them so.         *)
Symmetry == Permutations(Procs) \cup Permutations(Scopes)

ASSUME CapabilitiesAssumption ==
  /\ Authorisations \subseteq Nat /\ Grants \cap Authorisations = {}
  /\ None \notin Procs \cup Rows \cup Scopes
  /\ MaxTxs \in Nat /\ MaxCalls \in Nat

VARIABLES
  row,          \* per grant and authorisation: its row
  revocations,  \* per grant: audit rows access_grant.revoke
  call,         \* per process: the request it serves
  holder,       \* per row: the transaction that holds it exclusively
  sharing,      \* per row: the transactions that hold it FOR SHARE
  calls         \* bound only

locks == <<holder, sharing>>
vars  == <<row, revocations, call, locks, calls>>

(* kept: revokedAt.  time: now against validFrom and validUntil.            *)
(* allows: the scopes the row says TRUE of.  formed: the tier of a grant,   *)
(* the whole scope record of an authorisation is well formed.               *)
Row == [kept : {"absent", "active", "revoked"}, time : {"before", "within", "after"},
        allows : SUBSET Scopes, formed : BOOLEAN]

Absent == [kept |-> "absent", time |-> "before", allows |-> {}, formed |-> TRUE]

Ops == {"read", "delegated", "revoke"}

(* cap: the row that lets the request act.  target: the row it revokes.     *)
(* txs: transactions the handler still runs.                                *)
Call == [op : Ops, step : {"idle", "share", "work", "exclusive", "write"},
         cap : Rows \cup {None}, target : Rows \cup {None}, scope : Scopes \cup {None}, txs : Nat]

Idle == [op |-> "read", step |-> "idle", cap |-> None, target |-> None, scope |-> None, txs |-> 0]

(* A row as it may be left from an older version of the program.            *)
Malformed == [kept |-> "active", time |-> "within", allows |-> Scopes, formed |-> FALSE]

Init ==
  /\ row \in [Rows -> {Absent, Malformed}]
  /\ revocations = [g \in Grants |-> 0]
  /\ call = [p \in Procs |-> Idle]
  /\ holder = [c \in Rows |-> None] /\ sharing = [c \in Rows |-> {}]
  /\ calls = 0

-----------------------------------------------------------------------------
(* Rows                                                                     *)

CreateGrant(g) ==
  /\ row[g].kept = "absent"
  /\ row' = [row EXCEPT ![g].kept = "active", ![g].time = "within"]
  /\ UNCHANGED <<revocations, call, locks, calls>>

(* validFrom may lie in the future.                                         *)
CreateAuthorisation(a, allows, time) ==
  /\ row[a].kept = "absent"
  /\ row' = [row EXCEPT ![a].kept = "active", ![a].time = time, ![a].allows = allows]
  /\ UNCHANGED <<revocations, call, locks, calls>>

TimePasses(c) ==
  /\ row[c].kept # "absent" /\ row[c].time # "after"
  /\ row' = [row EXCEPT ![c].time = IF @ = "before" THEN "within" ELSE "after"]
  /\ UNCHANGED <<revocations, call, locks, calls>>

(* permitsAuthorisationScope, and for a grant isCapabilityTier.             *)
Permits(c, scope) == row[c].formed /\ (c \in Authorisations => scope \in row[c].allows)

Usable(c, scope) == row[c].kept = "active" /\ row[c].time = "within" /\ Permits(c, scope)

(* TenantGuard: of the usable authorisations the one with the least id.     *)
Selected(scope) ==
  {a \in Authorisations : Usable(a, scope) /\ \A b \in Authorisations : Usable(b, scope) => a <= b}

-----------------------------------------------------------------------------
(* Transactions                                                             *)

Goes(p, step) == call' = [call EXCEPT ![p].step = step]

Releases(p) ==
  /\ holder' = [c \in Rows |-> IF holder[c] = p THEN None ELSE holder[c]]
  /\ sharing' = [c \in Rows |-> sharing[c] \ {p}]

(* The request is over, and with it its transaction.                        *)
Ends(p) == call' = [call EXCEPT ![p] = Idle] /\ Releases(p)

(* The transaction commits; a delegated handler may run another.            *)
Done(p) ==
  LET c == call[p] IN
  /\ call' = [call EXCEPT ![p] = IF c.op = "delegated" /\ c.txs > 1
                                 THEN [c EXCEPT !.step = "share", !.target = None, !.txs = @ - 1] ELSE Idle]
  /\ Releases(p)

Starts(p, new) ==
  /\ call[p].step = "idle" /\ calls < MaxCalls
  /\ call' = [call EXCEPT ![p] = new]
  /\ calls' = calls + 1
  /\ UNCHANGED <<row, revocations, locks>>

(* withGrant: resolve_access_grant_token finds the row of the token.        *)
Resolve(p, g) ==
  /\ row[g].kept # "absent"
  /\ Starts(p, [Idle EXCEPT !.step = "share", !.cap = g])

(* TenantGuard of a delegated request, in a transaction of its own.         *)
Guard(p, scope, txs) ==
  \E a \in Selected(scope) :
    Starts(p, [Idle EXCEPT !.op = "delegated", !.step = "share", !.cap = a, !.scope = scope, !.txs = txs])

(* The own organisation revokes a grant or an authorisation.                *)
Revoke(p, c) ==
  /\ row[c].kept # "absent"
  /\ Starts(p, [Idle EXCEPT !.op = "revoke", !.step = "exclusive", !.target = c])

(* Mutant of Admit: the row is looked at again, but not locked.             *)
AdmitUnlocked(p) ==
  LET c == call[p].cap IN
  /\ call[p].step = "share" /\ holder[c] \in {None, p}
  /\ \/ Usable(c, call[p].scope) /\ Goes(p, "work") /\ UNCHANGED locks
     \/ ~Usable(c, call[p].scope) /\ Ends(p)
  /\ UNCHANGED <<row, revocations, calls>>

(* SELECT ... FOR SHARE of the row the request relies on, and a second look.*)
Admit(p) ==
  LET c == call[p].cap IN
  /\ call[p].step = "share" /\ holder[c] \in {None, p}
  /\ \/ /\ Usable(c, call[p].scope)
        /\ sharing' = [sharing EXCEPT ![c] = @ \cup {p}]
        /\ Goes(p, "work")
        /\ UNCHANGED holder
     \/ ~Usable(c, call[p].scope) /\ Ends(p)
  /\ UNCHANGED <<row, revocations, calls>>

(* The work under a capability: a restricted read, or any handler of a      *)
(* delegated request; it touches neither grants nor authorisations.         *)
Work(p) ==
  /\ call[p].step = "work"
  /\ Done(p)
  /\ UNCHANGED <<row, revocations, calls>>

(* Mutant of Delegable: authorisations are administered under delegation.   *)
DelegableAll == Rows

(* What a delegated request may revoke: the authorisations are OwnTenantOnly.*)
Delegable == Grants

(* A delegated request that revokes a row of the responsible operator.      *)
WorkRevokes(p, c) ==
  /\ call[p].step = "work" /\ call[p].op = "delegated" /\ row[c].kept # "absent"
  /\ call' = [call EXCEPT ![p].step = "exclusive", ![p].target = c]
  /\ UNCHANGED <<row, revocations, locks, calls>>

(* Mutant of Again: a grant is revoked again.                               *)
AgainWrites(c) == FALSE

(* AccessController.revoke answers a grant that is revoked without writing; *)
(* AuthorisationsController.revoke writes again.                            *)
Again(c) == c \in Grants /\ row[c].kept = "revoked"

(* The row is taken exclusively, by FOR UPDATE or by the update itself.     *)
Take(p) ==
  LET c == call[p].target IN
  /\ call[p].step = "exclusive" /\ holder[c] \in {None, p} /\ sharing[c] \subseteq {p}
  /\ \/ /\ ~Again(c)
        /\ holder' = [holder EXCEPT ![c] = p]
        /\ Goes(p, "write")
        /\ UNCHANGED sharing
     \/ Again(c) /\ Done(p)
  /\ UNCHANGED <<row, revocations, calls>>

Write(p) ==
  LET c == call[p].target IN
  /\ call[p].step = "write"
  /\ row' = [row EXCEPT ![c].kept = "revoked"]
  /\ revocations' = IF c \in Grants THEN [revocations EXCEPT ![c] = @ + 1] ELSE revocations
  /\ Done(p)
  /\ UNCHANGED calls

Rollback(p) ==
  /\ call[p].step # "idle"
  /\ Ends(p)
  /\ UNCHANGED <<row, revocations, calls>>

Step(p) == Admit(p) \/ Work(p) \/ (\E c \in Delegable : WorkRevokes(p, c)) \/ Take(p) \/ Write(p)

Next ==
  \/ \E g \in Grants : CreateGrant(g)
  \/ \E a \in Authorisations, allows \in (SUBSET Scopes) \ {{}}, time \in {"before", "within"} :
       CreateAuthorisation(a, allows, time)
  \/ \E c \in Rows : TimePasses(c)
  \/ \E p \in Procs :
       \/ \E g \in Grants : Resolve(p, g)
       \/ \E scope \in Scopes, txs \in 1..MaxTxs : Guard(p, scope, txs)
       \/ \E c \in Rows : Revoke(p, c)
       \/ Step(p) \/ Rollback(p)

Spec == Init /\ [][Next]_vars
-----------------------------------------------------------------------------
(* Properties                                                               *)

Past == {"work", "exclusive", "write"}   \* the second look has passed

(* Rows, requests and locks are well formed; a delegated request that runs  *)
(* has a transaction left.                                                  *)
TypeOK ==
  /\ row \in [Rows -> Row]
  /\ revocations \in [Grants -> Nat]
  /\ call \in [Procs -> Call]
  /\ \A p \in Procs : call[p].op = "delegated" => call[p].txs \in 1..MaxTxs
  /\ holder \in [Rows -> Procs \cup {None}] /\ sharing \in [Rows -> SUBSET Procs]
  /\ calls \in 0..MaxCalls

(* "Revocation waits for in-progress reads; reads starting after revocation *)
(* see the revoked grant" (access-token.service.ts:21-22), and the same of  *)
(* delegated transactions (tenant-db.service.ts:19-22): whatever revokes    *)
(* meanwhile, the row that lets a transaction work stands until it ends.    *)
WorkIsAuthorised ==
  \A p \in Procs : call[p].step \in Past /\ call[p].cap # None =>
    row[call[p].cap].kept = "active" /\ Permits(call[p].cap, call[p].scope)

(* Requests that revoke a grant at the same time revoke it, and record so,  *)
(* once (access.controller.ts:47-49).                                       *)
RevokedOnce == \A g \in Grants : revocations[g] <= 1

(* The transactions p waits for.                                            *)
WaitsFor(p) ==
  CASE call[p].step = "share" -> {holder[call[p].cap]} \ {None, p}
    [] call[p].step = "exclusive" -> ({holder[call[p].target]} \cup sharing[call[p].target]) \ {None, p}
    [] OTHER -> {}

(* No transactions wait for each other in a circle: who revokes under a     *)
(* shared authorisation never waits for an authorisation.                   *)
NoDeadlock == \A S \in (SUBSET Procs) \ {{}} : \E p \in S : WaitsFor(p) \cap S = {}
=============================================================================
