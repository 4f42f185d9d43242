----------------------------- MODULE PassportTx -----------------------------
(***************************************************************************)
(* The handlers of PassportAggregate as the database transactions they are: *)
(* an unlocked read that finds the rows, row locks taken one at a time      *)
(* (model, then item, then evidence: passport-lock.ts), the reads the       *)
(* handler decides on, and the writes, which become visible when the        *)
(* transaction commits.  Transactions of several processes interleave at    *)
(* every one of these points and may roll back at every one.                *)
(*                                                                          *)
(* Isolation is READ COMMITTED: a read sees what is committed when it runs. *)
(* What a handler has read it keeps (tx[p].data), however stale; only the   *)
(* conditional bulk updates of invalidatePassports look at the rows again.  *)
(***************************************************************************)
EXTENDS PassportAggregate

CONSTANTS
  Procs,       \* concurrent requests
  RankOf,      \* an order on ids: handlers lock several models or evidence rows sorted
  MaxTx        \* bound: transactions begun in a behaviour

Resource == Models \cup Items \cup Evidence

ASSUME TxAssumption ==
  /\ RankOf \in [Resource -> Nat]
  /\ \A x, y \in Resource : RankOf[x] = RankOf[y] => x = y
  /\ Models \cap Evidence = {} /\ Items \cap Evidence = {}
  /\ None \notin Resource \cup Procs
  /\ IsFiniteSet(Procs)
  /\ MaxTx \in Nat

VARIABLES
  tx,      \* per process: its transaction
  holder,  \* per row: the process that has it locked FOR UPDATE, or None
  begun    \* transactions begun so far (bound only)

txvars == <<tx, holder, begun>>
allvars == <<vars, txvars>>

MaxAttempts == 3   \* checkBytes gives up after three attempts

Idle == [phase |-> "idle"]

Held(p) == {x \in Resource : holder[x] = p}

Released(p) == [x \in Resource |-> IF holder[x] = p THEN None ELSE holder[x]]

-----------------------------------------------------------------------------
(* Requests *)

ItemOps == {"validatePassport", "publish", "event", "telemetry"}

(* The owner whose rows lockValueOwner or lockItem locks.                   *)
OwnerOf(r) ==
  CASE r.op \in ItemOps -> r.item
    [] r.op = "createValue" -> r.owner
    [] r.op \in {"validateValue", "rejectValue", "link"} -> value[r.val].owner
    [] r.op \in {"review", "accept"} -> r.model

(* Mutant of OwnerLocks: an item is locked without its model.               *)
OwnerAlone(o) == {o}

(* lockItem locks the model before the item; lockModel only the model.      *)
OwnerLocks(o) == IF o \in Items THEN {modelOf[o], o} ELSE {o}

ModelOfOwner(o) == IF o \in Items THEN modelOf[o] ELSE o

LinkedValues(e) == {v \in ValueIds : <<e, v>> \in links}

EvidenceOf(r) ==
  CASE r.op \in {"link", "rejectEvidence"} -> {r.evidence}
    [] r.op = "accept" -> UNION {s.evidence : s \in r.subs}
    [] OTHER -> {}

(* The rows a request locks, as far as its unlocked reads can tell.         *)
LocksFor(r) ==
  EvidenceOf(r) \cup
  (IF r.op = "rejectEvidence" THEN {ModelOfOwner(value[v].owner) : v \in LinkedValues(r.evidence)}
   ELSE OwnerLocks(OwnerOf(r)))

(* Mutant of LockClass: a rejection locks its evidence before the models.   *)
EvidenceFirst(r, x) ==
  IF r.op = "rejectEvidence" /\ x \in Evidence THEN 0
  ELSE IF x \in Models THEN 1 ELSE IF x \in Items THEN 2 ELSE 3

(* Model rows first, then the item, then evidence; each kind in id order.   *)
LockClass(r, x) == IF x \in Models THEN 1 ELSE IF x \in Items THEN 2 ELSE 3

LocksBefore(r, x, y) ==
  \/ LockClass(r, x) < LockClass(r, y)
  \/ LockClass(r, x) = LockClass(r, y) /\ RankOf[x] <= RankOf[y]

(* The unlocked lookups: a request for a row that is not there ends here.   *)
Found(r) ==
  CASE r.op \in ItemOps -> Exists(r.item)
    [] r.op = "createValue" -> r.owner \in Items => Exists(r.owner)
    [] r.op \in {"validateValue", "rejectValue"} -> value[r.val] # NoRow
    [] r.op = "link" -> value[r.val] # NoRow /\ evidence[r.evidence] # "absent"
    [] r.op = "rejectEvidence" -> <<evidence[r.evidence], "rejected">> \in EvidenceMoves
    [] OTHER -> TRUE

Started(r, attempt, status) ==
  [phase |-> "locking", req |-> r, want |-> LocksFor(r), attempt |-> attempt, status |-> status,
   seen |-> IF r.op = "rejectEvidence" THEN LinkedValues(r.evidence) ELSE {}]

-----------------------------------------------------------------------------
(* Steps *)

Begin(p, r) ==
  /\ tx[p].phase = "idle" /\ begun < MaxTx
  /\ Found(r)
  /\ tx' = [tx EXCEPT ![p] =
       Started(r, 1, IF r.op = "rejectEvidence" THEN evidence[r.evidence] ELSE None)]
  /\ begun' = begun + 1
  /\ UNCHANGED <<vars, holder>>

NextLock(p) ==
  CHOOSE x \in tx[p].want \ Held(p) :
    \A y \in tx[p].want \ Held(p) : LocksBefore(tx[p].req, x, y)

Waiting(p) == tx[p].phase = "locking" /\ ~(tx[p].want \subseteq Held(p))

Lock(p) ==
  /\ Waiting(p)
  /\ holder[NextLock(p)] = None
  /\ holder' = [holder EXCEPT ![NextLock(p)] = p]
  /\ UNCHANGED <<vars, tx, begun>>

(* The reads under the locks: ok is whether the handler goes on to write,   *)
(* data what it keeps of what it read.                                      *)
Decided(p, data) == tx' = [tx EXCEPT ![p] = [phase |-> "writing", req |-> tx[p].req, data |-> data]]

Decide(p, usable) ==
  LET r == tx[p].req IN
  /\ tx[p].phase = "locking" /\ ~Waiting(p)
  /\ \/ /\ r.op = "createValue" /\ OwnerWritable(r.owner)
        /\ Decided(p, Prior(r.owner, r.field))
     \/ /\ r.op = "validateValue" /\ OwnerWritable(value[r.val].owner)
        /\ Reviewable(r.val) /\ Linked(r.val) \cap usable # {}
        /\ Decided(p, value[r.val].status = "validated")
     \/ /\ r.op = "rejectValue" /\ OwnerWritable(value[r.val].owner)
        /\ value[r.val].current
        /\ Decided(p, {})
     \/ /\ r.op = "link" /\ OwnerWritable(value[r.val].owner)
        /\ evidence[r.evidence] # "rejected"
        /\ Decided(p, {})
     \/ /\ r.op = "review"
        /\ Decided(p, {})
     \/ /\ r.op = "accept"
        /\ \A s \in r.subs : \A e \in s.evidence : evidence[e] \notin {"absent", "rejected"}
        /\ Decided(p, UNION {Prior(r.model, s.field) : s \in r.subs})
     \/ /\ r.op = "validatePassport" /\ ~Closed(r.item)
        /\ ValidationAllowed(pstate[r.item], Publishable(r.item, usable))
        /\ Decided(p, ValidationTarget(pstate[r.item], Publishable(r.item, usable)))
     \/ /\ r.op = "publish" /\ ~Closed(r.item)
        /\ pstate[r.item] \in {"ready", "updated"}
        /\ Publishable(r.item, usable)
        /\ Decided(p, NextVersion(r.item))
     \/ /\ r.op = "event" /\ ~Closed(r.item)
        /\ r.event \in LineageEvents => r.prior # 0
        /\ r.prior # 0 => r.prior = Len(versions[r.item])
        /\ r.event = "recycle" => CanTransition(pstate[r.item], "recycled")
        /\ Decided(p, {})
     \/ /\ r.op = "telemetry" /\ ~Closed(r.item)
        /\ Decided(p, {})
     \/ /\ r.op = "rejectEvidence" /\ LinkedValues(r.evidence) = tx[p].seen
        /\ evidence[r.evidence] = tx[p].status
        /\ Decided(p, tx[p].seen)
  /\ UNCHANGED <<vars, holder, begun>>

(* EVIDENCE_LINKS_CHANGED_RETRY: roll back and start over, or give up.      *)
RetryRejection(p) ==
  /\ tx[p].phase = "locking" /\ ~Waiting(p)
  /\ tx[p].req.op = "rejectEvidence"
  /\ LinkedValues(tx[p].req.evidence) # tx[p].seen
  /\ tx' = [tx EXCEPT ![p] = IF tx[p].attempt = MaxAttempts THEN Idle
                             ELSE Started(tx[p].req, tx[p].attempt + 1, tx[p].status)]
  /\ holder' = Released(p)
  /\ UNCHANGED <<vars, begun>>

(* An error response, a lost connection or a timeout: nothing is written.   *)
Rollback(p) ==
  /\ tx[p].phase # "idle"
  /\ tx' = [tx EXCEPT ![p] = Idle]
  /\ holder' = Released(p)
  /\ UNCHANGED <<vars, begun>>

-----------------------------------------------------------------------------
(* The writes of each handler, with the data it kept.                       *)

WriteValues(p, r, kept) ==
  /\ \/ /\ r.op = "createValue"
        /\ \E v \in Fresh : value' = Inserted([x \in {v} |-> Row(r.owner, r.field, r.content, "unvalidated")], kept)
        /\ pstate' = AfterInvalidating(Affected(r.owner))
        /\ links' = links
     \/ /\ r.op = "validateValue"
        /\ value' = [value EXCEPT ![r.val].status = "validated"]
        /\ pstate' = IF kept THEN pstate ELSE AfterInvalidating(Affected(value[r.val].owner))
        /\ links' = links
     \/ /\ r.op = "rejectValue"
        /\ value' = [value EXCEPT ![r.val].status = "rejected", ![r.val].current = FALSE]
        /\ pstate' = AfterInvalidating(Affected(value[r.val].owner))
        /\ links' = links
     \/ /\ r.op = "link"
        /\ links' = links \cup {<<r.evidence, r.val>>}
        /\ pstate' = AfterInvalidating(Affected(value[r.val].owner))
        /\ value' = value
     \/ /\ r.op = "accept"   \* one submission per field here; SupplierRequest has the loop
        /\ \E id \in [r.subs -> Fresh] :
             /\ \A s, t \in r.subs : id[s] = id[t] => s = t
             /\ value' = Inserted([v \in {id[s] : s \in r.subs} |->
                          LET s == CHOOSE t \in r.subs : id[t] = v
                          IN  Row(r.model, s.field, s.content, "submitted")], kept)
             /\ links' = links \cup UNION {{<<e, id[s]>> : e \in s.evidence} : s \in r.subs}
        /\ pstate' = AfterInvalidating(Affected(r.model))
  /\ UNCHANGED <<reviewed, applicable, modelOf, lifecycle, evidence, versions, active>>

(* The unique index on (item, versionNo) fails a version number taken since *)
(* the latest version was read.                                             *)
WritePassport(p, r, kept) ==
  \/ /\ r.op = "validatePassport"
     /\ pstate' = [pstate EXCEPT ![r.item] = kept]
     /\ UNCHANGED <<reviewed, applicable, modelOf, lifecycle, value, evidence, links, versions, active>>
  \/ /\ r.op = "publish"
     /\ kept.no \notin {versions[r.item][k].no : k \in 1..Len(versions[r.item])}
     /\ Len(versions[r.item]) < MaxVersions
     /\ versions' = [versions EXCEPT ![r.item] = Append(@, kept)]
     /\ active' = [active EXCEPT ![r.item] = {kept.no}]
     /\ pstate' = [pstate EXCEPT ![r.item] = "published"]
     /\ UNCHANGED <<reviewed, applicable, modelOf, lifecycle, value, evidence, links>>
  \/ /\ r.op \in {"event", "telemetry"}
     /\ pstate' = IF r.op = "event" /\ r.event = "recycle" THEN [pstate EXCEPT ![r.item] = "recycled"]
                  ELSE AfterInvalidating({r.item})
     /\ lifecycle' = IF r.op = "event" THEN [lifecycle EXCEPT ![r.item] = StatusAfter(r.event, @)] ELSE lifecycle
     /\ UNCHANGED <<reviewed, applicable, modelOf, value, evidence, links, versions, active>>
  \/ /\ r.op = "review"
     /\ reviewed' = reviewed \cup {r.model}
     /\ applicable' = [applicable EXCEPT ![r.model] = r.fields]
     /\ pstate' = AfterInvalidating(Affected(r.model))
     /\ UNCHANGED <<modelOf, lifecycle, value, evidence, links, versions, active>>
  \/ /\ r.op = "rejectEvidence"
     /\ evidence' = [evidence EXCEPT ![r.evidence] = "rejected"]
     /\ pstate' = AfterInvalidating(UNION {Affected(value[v].owner) : v \in kept})
     /\ UNCHANGED <<reviewed, applicable, modelOf, lifecycle, value, links, versions, active>>

Commit(p) ==
  /\ tx[p].phase = "writing"
  /\ WriteValues(p, tx[p].req, tx[p].data) \/ WritePassport(p, tx[p].req, tx[p].data)
  /\ tx' = [tx EXCEPT ![p] = Idle]
  /\ holder' = Released(p)
  /\ UNCHANGED begun

(* Handlers without row locks: an insert, and single-row conditional        *)
(* updates of evidence, which wait for a lock on that row.                  *)
Unlocked ==
  /\ \/ \E i \in Items, m \in Models : CreateItem(i, m)
     \/ \E e \in Evidence, to \in EvidenceStatus : holder[e] = None /\ AdvanceEvidence(e, to)
  /\ begun < MaxTx /\ begun' = begun + 1
  /\ UNCHANGED <<tx, holder>>

Requests ==
  [op : {"validatePassport", "publish", "telemetry"}, item : Items]
  \cup [op : {"event"}, item : Items, event : EventKinds, prior : 0..MaxVersions]
  \cup [op : {"createValue"}, owner : Owners, field : Fields, content : Contents]
  \cup [op : {"validateValue", "rejectValue"}, val : ValueIds]
  \cup [op : {"link"}, evidence : Evidence, val : ValueIds]
  \cup {r \in [op : {"review"}, model : Models, fields : SUBSET Fields] :
          \A f \in r.fields : RequirementOf[r.model][f] = "conditional"}
  \cup [op : {"accept"}, model : Models,
        subs : {S \in SUBSET Submission : IsFiniteSet(S) /\ Cardinality(S) \in 1..MaxSubmitted
                  /\ \A s, t \in S : s.field = t.field => s = t}]
  \cup [op : {"rejectEvidence"}, evidence : Evidence]

TxInit ==
  /\ tx = [p \in Procs |-> Idle]
  /\ holder = [x \in Resource |-> None]
  /\ begun = 0

TxNext ==
  \/ \E p \in Procs, r \in Requests : Begin(p, r)
  \/ \E p \in Procs : Lock(p) \/ RetryRejection(p) \/ Commit(p) \/ Rollback(p)
  \/ \E p \in Procs, usable \in SUBSET Verified : Decide(p, usable)
  \/ Unlocked

TxSpec == Init /\ TxInit /\ [][TxNext]_allvars
-----------------------------------------------------------------------------
(* Properties *)

(* The lock protocol makes the handlers atomic: whatever the interleaving,  *)
(* every commit is one step of the atomic aggregate, so a decision made on  *)
(* rows read earlier is still right when it is written.                     *)
ImplementsAggregate == [][Next]_vars

Blocks(p, q) == Waiting(p) /\ holder[NextLock(p)] = q

(* Of any transactions at least one waits for none of the others: the order *)
(* model, item, evidence, sorted by id, leaves no cycle.                    *)
NoDeadlock == \A D \in (SUBSET Procs) \ {{}} : \E p \in D : \A q \in D : ~Blocks(p, q)

(* The database runs every statement whose lock is free.                    *)
TxFairness ==
  \A p \in Procs :
    /\ WF_allvars(Lock(p))
    /\ WF_allvars(RetryRejection(p))
    /\ WF_allvars(tx[p].phase = "writing" /\ (Commit(p) \/ Rollback(p)))
    /\ WF_allvars(tx[p].phase = "locking" /\ ~Waiting(p)
                   /\ ((\E usable \in SUBSET Verified : Decide(p, usable)) \/ Rollback(p)))

(* Every transaction ends and frees its rows without the lock timeout or    *)
(* the deadlock detector having to roll one back while it waits.            *)
TransactionsEnd == \A p \in Procs : tx[p].phase # "idle" ~> tx[p].phase = "idle"
=============================================================================
