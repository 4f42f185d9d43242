------------------------- MODULE PassportAggregate -------------------------
(***************************************************************************)
(* The passport aggregate: models, items, data values, evidence, published *)
(* versions and public snapshots of one organisation, with every handler   *)
(* that changes them as ONE atomic action.  This is what the handlers      *)
(* promise; PassportTx splits them into the lock, read and write steps the *)
(* database really runs and is checked to implement this module.           *)
(*                                                                         *)
(* Time enters only through the validity window of evidence (issuedAt,     *)
(* expiresAt): a handler that asks for usable evidence sees SOME subset of *)
(* the verified evidence, chosen anew at every step.                       *)
(***************************************************************************)
EXTENDS PassportRules, EvidenceStates, Sequences, FiniteSets

CONSTANTS
  Models, Items,       \* battery models and battery items
  RequirementOf,       \* per model (its category is fixed): the requirement of every field
  ValueIds,            \* ids a new value row can take
  MaxVersions,         \* bound: versions published per item
  EventKinds,          \* bound: the lifecycle events an instance exercises
  MaxSubmitted         \* bound: values one supplier acceptance creates

ASSUME AggregateAssumption ==
  /\ Models \cap Items = {}
  /\ None \notin Models \cup Items \cup Fields
  /\ RequirementOf \in [Models -> [Fields -> Requirement]]
  /\ MaxVersions \in Nat
  /\ MaxSubmitted \in Nat
  /\ EventKinds \subseteq EventTypes

VARIABLES
  reviewed,    \* models with a complete applicability review
  applicable,  \* per model: conditional fields the review found applicable
  modelOf,     \* per item: its model, None before the item exists
  pstate,      \* per item: passportState
  lifecycle,   \* per item: lifecycleStatus
  value,       \* per value id: the row
  evidence,    \* per evidence id: verificationStatus
  links,       \* EvidenceLink rows <<evidence, value>>
  versions,    \* per item: PassportVersion rows in order of versionNo
  active       \* per item: versionNo of the active public snapshots

vars == <<reviewed, applicable, modelOf, pstate, lifecycle, value, evidence, links, versions, active>>

Owners == Models \cup Items

ValueRow ==
  [owner : Owners \cup {None}, field : Fields \cup {None}, content : Contents \cup {None},
   status : ValueStatus \cup {None}, current : BOOLEAN]

NoRow == [owner |-> None, field |-> None, content |-> None, status |-> None, current |-> FALSE]

Version == [no : Nat, prev : Nat, lifecycle : LifecycleStatus, entries : [Fields -> Entry]]

-----------------------------------------------------------------------------
(* Reading the aggregate *)

Exists(i) == modelOf[i] # None

(* Mutant of Closed: recycling does not close an item.                      *)
ClosedIfSuperseded(i) == pstate[i] = "superseded"

Closed(i) == pstate[i] \in {"recycled", "superseded"} \/ lifecycle[i] = "recycled"

(* lockValueOwner: the owner exists and, when it is an item, is not closed. *)
OwnerWritable(o) == o \in Items => Exists(o) /\ ~Closed(o)

(* Mutant of Affected: what is written through the model misses its items.  *)
AffectedAlone(o) == {i \in Items : Exists(i) /\ i = o}

Affected(o) == {i \in Items : Exists(i) /\ (i = o \/ modelOf[i] = o)}

AfterInvalidating(S) == [i \in Items |-> IF i \in S THEN Invalidated(pstate[i]) ELSE pstate[i]]

Currents(o, f) == {v \in ValueIds : value[v].current /\ value[v].owner = o /\ value[v].field = f}

FirstFound(S) == CHOOSE v \in S : TRUE

(* Mutant of Prior: only a validated row is superseded.                     *)
PriorIfValidated(o, f) ==
  LET rows == {v \in Currents(o, f) : value[v].status = "validated"}
  IN  IF rows = {} THEN {} ELSE {FirstFound(rows)}

(* findFirst over the current rows of one owner and field: at most one row. *)
Prior(o, f) == IF Currents(o, f) = {} THEN {} ELSE {FirstFound(Currents(o, f))}

Linked(v) == {e \in Evidence : <<e, v>> \in links}

Verified == {e \in Evidence : evidence[e] = "verified"}

(* loadMergedTx: an item's own value of a field hides the model's.          *)
Shown(i, f) == IF Currents(i, f) # {} THEN Currents(i, f) ELSE Currents(modelOf[i], f)

Merged(i, f) == IF Shown(i, f) = {} THEN None ELSE FirstFound(Shown(i, f))

EntryOf(v) ==
  IF v = None THEN NoEntry
  ELSE [content |-> value[v].content, status |-> value[v].status, evidence |-> Linked(v)]

View(i) == [f \in Fields |-> EntryOf(Merged(i, f))]

(* validateTx(...).publishable when the evidence in usable is usable now.   *)
Publishable(i, usable) ==
  GatePasses(RequirementOf[modelOf[i]], modelOf[i] \in reviewed, applicable[modelOf[i]],
             View(i), lifecycle[i], usable)

-----------------------------------------------------------------------------
Init ==
  /\ reviewed = {}
  /\ applicable = [m \in Models |-> {}]
  /\ modelOf = [i \in Items |-> None]
  /\ pstate = [i \in Items |-> "draft"]
  /\ lifecycle = [i \in Items |-> "original"]
  /\ value = [v \in ValueIds |-> NoRow]
  /\ evidence = [e \in Evidence |-> "absent"]
  /\ links = {}
  /\ versions = [i \in Items |-> <<>>]
  /\ active = [i \in Items |-> {}]

(* BatteriesController.createItem: takes no lock, the item starts a draft.  *)
CreateItem(i, m) ==
  /\ ~Exists(i)
  /\ modelOf' = [modelOf EXCEPT ![i] = m]
  /\ UNCHANGED <<reviewed, applicable, pstate, lifecycle, value, evidence, links, versions, active>>

(* BatteriesController.reviewApplicability: only a review that decides all  *)
(* conditional fields is stored.                                            *)
ReviewApplicability(m, S) ==
  /\ S \subseteq {f \in Fields : RequirementOf[m][f] = "conditional"}
  /\ reviewed' = reviewed \cup {m}
  /\ applicable' = [applicable EXCEPT ![m] = S]
  /\ pstate' = AfterInvalidating(Affected(m))
  /\ UNCHANGED <<modelOf, lifecycle, value, evidence, links, versions, active>>

(* The rows after inserting new (id -> row) and superseding prior.          *)
Inserted(new, prior) ==
  [v \in ValueIds |->
     IF v \in DOMAIN new THEN new[v]
     ELSE IF v \in prior THEN [value[v] EXCEPT !.status = "superseded", !.current = FALSE]
     ELSE value[v]]

Fresh == {v \in ValueIds : value[v] = NoRow}

Row(o, f, c, s) == [owner |-> o, field |-> f, content |-> c, status |-> s, current |-> TRUE]

CreateValue(v, o, f, c) ==
  /\ v \in Fresh
  /\ OwnerWritable(o)
  /\ value' = Inserted([x \in {v} |-> Row(o, f, c, "unvalidated")], Prior(o, f))
  /\ pstate' = AfterInvalidating(Affected(o))
  /\ UNCHANGED <<reviewed, applicable, modelOf, lifecycle, evidence, links, versions, active>>

(* Mutant of Reviewable: a rejected row can be validated after all.         *)
ReviewableAgain(v) == value[v].status # "superseded"

(* VALUE_NOT_CURRENT: the row has a validUntil or a final status.           *)
Reviewable(v) == value[v].current /\ value[v].status \notin {"superseded", "rejected"}

(* ValuesController.validate: usable is the evidence usable at this moment. *)
ValidateValue(v, usable) ==
  /\ value[v] # NoRow
  /\ OwnerWritable(value[v].owner)
  /\ Reviewable(v)
  /\ Linked(v) \cap usable # {}
  /\ pstate' = IF value[v].status = "validated" THEN pstate
               ELSE AfterInvalidating(Affected(value[v].owner))
  /\ value' = [value EXCEPT ![v].status = "validated"]
  /\ UNCHANGED <<reviewed, applicable, modelOf, lifecycle, evidence, links, versions, active>>

RejectValue(v) ==
  /\ value[v] # NoRow
  /\ OwnerWritable(value[v].owner)
  /\ value[v].current
  /\ value' = [value EXCEPT ![v].status = "rejected", ![v].current = FALSE]
  /\ pstate' = AfterInvalidating(Affected(value[v].owner))
  /\ UNCHANGED <<reviewed, applicable, modelOf, lifecycle, evidence, links, versions, active>>

(* EvidenceController.link: the value need not be current.                  *)
LinkEvidence(e, v) ==
  /\ value[v] # NoRow
  /\ OwnerWritable(value[v].owner)
  /\ evidence[e] \notin {"absent", "rejected"}
  /\ links' = links \cup {<<e, v>>}
  /\ pstate' = AfterInvalidating(Affected(value[v].owner))
  /\ UNCHANGED <<reviewed, applicable, modelOf, lifecycle, value, evidence, versions, active>>

(* SuppliersController.accept, as far as this aggregate is concerned: the   *)
(* submissions in sub become model values, in submission order; of several  *)
(* submissions for one field the last one stays current.                    *)
AcceptSubmissions(m, sub, last) ==
  LET touched == {sub[v].field : v \in DOMAIN sub} IN
  /\ DOMAIN sub \subseteq Fresh
  /\ last \subseteq DOMAIN sub
  /\ \A f \in touched : \E v \in last : sub[v].field = f
  /\ \A v, w \in last : sub[v].field = sub[w].field => v = w
  /\ \A v \in DOMAIN sub : \A e \in sub[v].evidence : evidence[e] \notin {"absent", "rejected"}
  /\ value' = Inserted(
       [v \in DOMAIN sub |->
          IF v \in last THEN Row(m, sub[v].field, sub[v].content, "submitted")
          ELSE [Row(m, sub[v].field, sub[v].content, "superseded") EXCEPT !.current = FALSE]],
       UNION {Prior(m, f) : f \in touched})
  /\ links' = links \cup {l \in Evidence \X DOMAIN sub : l[1] \in sub[l[2]].evidence}
  /\ pstate' = AfterInvalidating(Affected(m))
  /\ UNCHANGED <<reviewed, applicable, modelOf, lifecycle, evidence, versions, active>>

-----------------------------------------------------------------------------
(* PassportsController.validate *)

(* Validation leaves the state a publication has earned alone, and takes a  *)
(* draft through data_collection.                                           *)
ValidationTarget(s, publishable) ==
  IF s \in PublishedStates THEN IF publishable THEN s ELSE "updated"
  ELSE IF publishable THEN "ready" ELSE "validation_failed"

ValidationAllowed(s, publishable) ==
  LET from == IF s = "draft" THEN "data_collection" ELSE s
      to   == ValidationTarget(s, publishable)
  IN  from = to \/ CanTransition(from, to)

ValidatePassport(i, usable) ==
  LET publishable == Publishable(i, usable) IN
  /\ Exists(i) /\ ~Closed(i)
  /\ ValidationAllowed(pstate[i], publishable)
  /\ pstate' = [pstate EXCEPT ![i] = ValidationTarget(pstate[i], publishable)]
  /\ UNCHANGED <<reviewed, applicable, modelOf, lifecycle, value, evidence, links, versions, active>>

(* Mutant of NextVersion: the first version counts as the one to follow.    *)
NextVersionRenumbered(i) ==
  [no |-> IF versions[i] = <<>> THEN 1 ELSE Len(versions[i]), prev |-> Len(versions[i]),
   lifecycle |-> lifecycle[i], entries |-> View(i)]

(* Mutant of SnapshotsAfter: the snapshots before stay active.              *)
SnapshotsAdded(i) == active[i] \cup {Len(versions[i]) + 1}

(* The active snapshots after publishing: the old ones are switched off.    *)
SnapshotsAfter(i) == {Len(versions[i]) + 1}

(* PassportsController.publish.  The hash of a version stands for its       *)
(* number: prev is the number of the version whose hash is chained, 0 for   *)
(* none.                                                                    *)
NextVersion(i) ==
  [no |-> Len(versions[i]) + 1, prev |-> Len(versions[i]), lifecycle |-> lifecycle[i], entries |-> View(i)]

Publish(i, usable) ==
  /\ Exists(i) /\ ~Closed(i)
  /\ pstate[i] \in {"ready", "updated"}
  /\ Publishable(i, usable)
  /\ CanTransition(pstate[i], "published")
  /\ Len(versions[i]) < MaxVersions
  /\ versions' = [versions EXCEPT ![i] = Append(@, NextVersion(i))]
  /\ active' = [active EXCEPT ![i] = SnapshotsAfter(i)]
  /\ pstate' = [pstate EXCEPT ![i] = "published"]
  /\ UNCHANGED <<reviewed, applicable, modelOf, lifecycle, value, evidence, links>>

(* LifecycleController.event: prior is the previousPassportId, as the       *)
(* version number it names, 0 when the request has none.                    *)
LifecycleEvent(i, event, prior) ==
  /\ Exists(i) /\ ~Closed(i)
  /\ event \in LineageEvents => prior # 0
  /\ prior # 0 => prior = Len(versions[i])
  /\ event = "recycle" => CanTransition(pstate[i], "recycled")
  /\ pstate' = IF event = "recycle" THEN [pstate EXCEPT ![i] = "recycled"]
               ELSE AfterInvalidating({i})
  /\ lifecycle' = [lifecycle EXCEPT ![i] = StatusAfter(event, @)]
  /\ UNCHANGED <<reviewed, applicable, modelOf, value, evidence, links, versions, active>>

(* LifecycleController.telemetry: readings only invalidate.                 *)
Telemetry(i) ==
  /\ Exists(i) /\ ~Closed(i)
  /\ pstate' = AfterInvalidating({i})
  /\ UNCHANGED <<reviewed, applicable, modelOf, lifecycle, value, evidence, links, versions, active>>

-----------------------------------------------------------------------------
(* Evidence, as committed by EvidenceStorageService; EvidenceReview has the *)
(* steps before the commit.                                                 *)

(* createUpload, finalize and verify touch no passport.                     *)
AdvanceEvidence(e, to) ==
  /\ <<evidence[e], to>> \in EvidenceMoves /\ to # "rejected"
  /\ evidence' = [evidence EXCEPT ![e] = to]
  /\ UNCHANGED <<reviewed, applicable, modelOf, pstate, lifecycle, value, links, versions, active>>

(* checkBytes on EVIDENCE_MALWARE_DETECTED: every owner of a linked value   *)
(* is invalidated with the rejection.                                       *)
RejectEvidence(e) ==
  /\ <<evidence[e], "rejected">> \in EvidenceMoves
  /\ evidence' = [evidence EXCEPT ![e] = "rejected"]
  /\ pstate' = AfterInvalidating(UNION {Affected(value[v].owner) : v \in {w \in ValueIds : <<e, w>> \in links}})
  /\ UNCHANGED <<reviewed, applicable, modelOf, lifecycle, value, links, versions, active>>

-----------------------------------------------------------------------------
Submission == [field : Fields, content : Contents, evidence : SUBSET Evidence]

Next ==
  \/ \E i \in Items, m \in Models : CreateItem(i, m)
  \/ \E m \in Models, S \in SUBSET Fields : ReviewApplicability(m, S)
  \/ \E v \in ValueIds, o \in Owners, f \in Fields, c \in Contents : CreateValue(v, o, f, c)
  \/ \E v \in ValueIds, usable \in SUBSET Verified : ValidateValue(v, usable)
  \/ \E v \in ValueIds : RejectValue(v)
  \/ \E e \in Evidence, v \in ValueIds : LinkEvidence(e, v)
  \/ \E m \in Models, S \in SUBSET Fresh :
       /\ S # {} /\ Cardinality(S) <= MaxSubmitted
       /\ \E sub \in [S -> Submission], last \in SUBSET S : AcceptSubmissions(m, sub, last)
  \/ \E i \in Items, usable \in SUBSET Verified : ValidatePassport(i, usable)
  \/ \E i \in Items, usable \in SUBSET Verified : Publish(i, usable)
  \/ \E i \in Items, event \in EventKinds, prior \in 0..MaxVersions : LifecycleEvent(i, event, prior)
  \/ \E i \in Items : Telemetry(i)
  \/ \E e \in Evidence, to \in EvidenceStatus : AdvanceEvidence(e, to)
  \/ \E e \in Evidence : RejectEvidence(e)

Spec == Init /\ [][Next]_vars
-----------------------------------------------------------------------------
(* Properties *)

(* Every variable has its type; in particular the rows, versions and         *)
(* snapshots the handlers write are well formed.                            *)
TypeOK ==
  /\ reviewed \subseteq Models
  /\ applicable \in [Models -> SUBSET Fields]
  /\ modelOf \in [Items -> Models \cup {None}]
  /\ pstate \in [Items -> PassportState]
  /\ lifecycle \in [Items -> LifecycleStatus]
  /\ value \in [ValueIds -> ValueRow]
  /\ evidence \in [Evidence -> EvidenceStatus]
  /\ links \subseteq Evidence \X ValueIds
  /\ versions \in [Items -> Seq(Version)]
  /\ active \in [Items -> SUBSET Nat]

(* One owner never has two current rows of one field: CreateValue and the   *)
(* supplier acceptance both look for a row to supersede before inserting,   *)
(* and no database constraint backs them up.                                *)
AtMostOneCurrent ==
  \A o \in Owners, f \in Fields : \A v, w \in Currents(o, f) : v = w

(* A passport that reads "ready" would pass the publication gate if it were *)
(* asked again, as long as no evidence leaves its validity window: every    *)
(* writer that could break the gate takes the state back.                   *)
ReadyIsPublishable ==
  \A i \in Items : pstate[i] = "ready" => Exists(i) /\ Publishable(i, Verified)

(* A passport that reads "published" has a latest version equal to its      *)
(* merged data and lifecycle status now, and that data still passes the     *)
(* gate: no write to the data of a published item leaves it "published".    *)
PublishedMirrorsData ==
  \A i \in Items : pstate[i] = "published" =>
    /\ Exists(i) /\ versions[i] # <<>>
    /\ versions[i][Len(versions[i])].entries = View(i)
    /\ versions[i][Len(versions[i])].lifecycle = lifecycle[i]
    /\ Publishable(i, Verified)

(* The versions of an item are numbered without gaps and each chains the    *)
(* hash of the one before it.                                               *)
VersionChain ==
  \A i \in Items : \A k \in 1..Len(versions[i]) :
    versions[i][k].no = k /\ versions[i][k].prev = k - 1

(* The only active public snapshot of an item is that of its latest         *)
(* version: the public page never serves an older publication.              *)
SnapshotIsLatest ==
  \A i \in Items : active[i] = IF versions[i] = <<>> THEN {} ELSE {Len(versions[i])}

(* The two fields that say an item is recycled never disagree.              *)
RecycledTogether ==
  \A i \in Items : pstate[i] = "recycled" <=> lifecycle[i] = "recycled"

(* Recycling is terminal: a recycled item keeps its state, its status, its  *)
(* own rows, its versions and its public snapshot whatever is called later, *)
(* even when its model changes.                                             *)
RecycledIsFrozen ==
  [][\A i \in Items : lifecycle[i] = "recycled" =>
       /\ pstate'[i] = pstate[i] /\ lifecycle'[i] = lifecycle[i]
       /\ versions'[i] = versions[i] /\ active'[i] = active[i]
       /\ \A v \in ValueIds : (value[v].owner = i \/ value'[v].owner = i) => value'[v] = value[v]
       /\ \A l \in links' \ links : value[l[2]].owner # i]_vars

(* A row that was rejected or superseded never becomes current again and    *)
(* never changes ("historical values cannot be resurrected").               *)
HistoryIsFixed ==
  [][\A v \in ValueIds : value[v] # NoRow /\ ~value[v].current => value'[v] = value[v]]_vars

(* invalidatePassports writes states without asking the state machine; each *)
(* state change is one of its edges all the same, except that the first     *)
(* validation of a draft takes two edges at once.                           *)
LegalTransitions ==
  [][\A i \in Items : pstate'[i] # pstate[i] =>
       \/ CanTransition(pstate[i], pstate'[i])
       \/ pstate[i] = "draft" /\ CanTransition("data_collection", pstate'[i])]_vars

(* docs/11_V2_ARCHITECTURE.md:21: "A validated passport value requires      *)
(* verified evidence."  Read on publications: what a version presents as    *)
(* validated is linked to evidence that is verified when it is published.   *)
PublishedValidatedIsProven ==
  [][\A i \in Items : versions'[i] # versions[i] =>
       \A f \in Fields :
         LET entry == versions'[i][Len(versions'[i])].entries[f]
         IN  entry.status = "validated" => entry.evidence \cap Verified # {}]_vars
=============================================================================
