---------------------- MODULE PassportAggregateProofs ----------------------
(***************************************************************************)
(* PassportAggregate and PassportTx for any number of models, items,       *)
(* values, documents and transactions and any requirement set.             *)
(***************************************************************************)
EXTENDS PassportTx, FiniteSetTheorems, WellFoundedInduction, TLAPS

-----------------------------------------------------------------------------
(* Types *)

(* invalidatePassports leaves an item in a passport state.                  *)
LEMMA InvalidatedType == \A s \in PassportState : Invalidated(s) \in PassportState
  BY DEF PassportState, Invalidated, PublishedStates

(* ... and so all items.                                                    *)
LEMMA AfterInvalidatingType ==
  ASSUME TypeOK, NEW S
  PROVE  AfterInvalidating(S) \in [Items -> PassportState]
  BY InvalidatedType DEF TypeOK, AfterInvalidating

(* A lifecycle event leaves an item with a lifecycle status.                *)
LEMMA StatusAfterType ==
  \A event \in EventTypes, s \in LifecycleStatus : StatusAfter(event, s) \in LifecycleStatus
  BY DEF EventTypes, LifecycleStatus, StatusAfter

(* A new row of an owner is a well-formed row.                              *)
LEMMA RowType ==
  ASSUME NEW o \in Owners, NEW f \in Fields, NEW c \in Contents, NEW s \in ValueStatus
  PROVE  /\ Row(o, f, c, s) \in ValueRow
         /\ [Row(o, f, c, s) EXCEPT !.current = FALSE] \in ValueRow
  BY DEF Row, ValueRow

(* A row with another status and another validity is a well-formed row.     *)
LEMMA RowUpdate ==
  ASSUME NEW row \in ValueRow, NEW s \in ValueStatus, NEW c \in BOOLEAN
  PROVE  /\ [row EXCEPT !.status = s, !.current = c] \in ValueRow
         /\ [row EXCEPT !.status = s] \in ValueRow
  BY DEF ValueRow

(* The row to supersede is a current row of that owner and field.           *)
LEMMA PriorType == \A o, f : Prior(o, f) \subseteq Currents(o, f) /\ Prior(o, f) \subseteq ValueIds
  BY DEF Prior, FirstFound, Currents

(* Inserting rows and superseding others keeps the table well formed.       *)
LEMMA InsertedType ==
  ASSUME TypeOK, NEW new, NEW prior, \A v \in DOMAIN new : new[v] \in ValueRow
  PROVE  Inserted(new, prior) \in [ValueIds -> ValueRow]
<1>1. ASSUME NEW v \in ValueIds
      PROVE  [value[v] EXCEPT !.status = "superseded", !.current = FALSE] \in ValueRow
  <2>1. value[v] \in ValueRow /\ "superseded" \in ValueStatus
    BY DEF TypeOK, ValueStatus
  <2> QED
    BY <2>1, RowUpdate
<1> QED
  BY <1>1 DEF Inserted, TypeOK

(* The merged passport of an item has an entry for every field.             *)
LEMMA ViewType ==
  ASSUME TypeOK, NEW i \in Items
  PROVE  View(i) \in [Fields -> Entry]
<1>1. ASSUME NEW v \in ValueIds \cup {None} PROVE EntryOf(v) \in Entry
  BY <1>1 DEF TypeOK, ValueRow, EntryOf, NoEntry, Entry, Linked
<1>2. ASSUME NEW f \in Fields PROVE Merged(i, f) \in ValueIds \cup {None}
  BY DEF Merged, FirstFound, Shown, Currents
<1> QED
  BY <1>1, <1>2 DEF View

(* Appending (as publish does to the versions) makes a sequence one longer. *)
LEMMA AppendedLength ==
  ASSUME NEW S, NEW s \in Seq(S), NEW x \in S
  PROVE  Append(s, x) # <<>> /\ Len(Append(s, x)) = Len(s) + 1
<1>1. Len(s) \in Nat /\ Len(Append(s, x)) = Len(s) + 1
  OBVIOUS
<1>2. Len(<<>>) = 0
  OBVIOUS
<1> QED
  BY <1>1, <1>2

(* What publish appends is a well-formed version.                           *)
LEMMA NextVersionType ==
  ASSUME TypeOK, NEW i \in Items
  PROVE  NextVersion(i) \in Version /\ Len(versions[i]) \in Nat
<1>1. Len(versions[i]) \in Nat
  BY DEF TypeOK
<1>2. Len(versions[i]) + 1 \in Nat /\ lifecycle[i] \in LifecycleStatus /\ View(i) \in [Fields -> Entry]
  BY <1>1, ViewType DEF TypeOK
<1> QED
  BY <1>1, <1>2 DEF NextVersion, Version

(* Every step of every handler keeps the rows, versions and snapshots well  *)
(* formed.                                                                  *)
LEMMA TypesStay ==
  ASSUME TypeOK, [Next]_vars
  PROVE  TypeOK'
<1>1. ASSUME NEW i \in Items, NEW m \in Models, CreateItem(i, m) PROVE TypeOK'
  BY <1>1 DEF CreateItem, TypeOK
<1>2. ASSUME NEW m \in Models, NEW S \in SUBSET Fields, ReviewApplicability(m, S) PROVE TypeOK'
  BY <1>2, AfterInvalidatingType DEF ReviewApplicability, TypeOK
<1>3. ASSUME NEW v \in ValueIds, NEW o \in Owners, NEW f \in Fields, NEW c \in Contents, CreateValue(v, o, f, c)
      PROVE TypeOK'
  <2>1. Inserted([x \in {v} |-> Row(o, f, c, "unvalidated")], Prior(o, f)) \in [ValueIds -> ValueRow]
    BY RowType, InsertedType DEF ValueStatus
  <2> QED
    BY <1>3, <2>1, AfterInvalidatingType DEF CreateValue, TypeOK
<1>4. ASSUME NEW v \in ValueIds, NEW usable \in SUBSET Verified, ValidateValue(v, usable) PROVE TypeOK'
  <2>1. value' \in [ValueIds -> ValueRow]
    <3>1. value[v] \in ValueRow /\ "validated" \in ValueStatus
      BY DEF TypeOK, ValueStatus
    <3>2. [value[v] EXCEPT !.status = "validated"] \in ValueRow
      BY <3>1, RowUpdate
    <3>3. value' = [value EXCEPT ![v] = [value[v] EXCEPT !.status = "validated"]]
      BY <1>4 DEF ValidateValue
    <3> QED
      BY <3>2, <3>3 DEF TypeOK
  <2> QED
    BY <1>4, <2>1, AfterInvalidatingType DEF ValidateValue, TypeOK
<1>5. ASSUME NEW v \in ValueIds, RejectValue(v) PROVE TypeOK'
  <2>1. value' \in [ValueIds -> ValueRow]
    <3>1. value[v] \in ValueRow /\ "rejected" \in ValueStatus
      BY DEF TypeOK, ValueStatus
    <3>2. [value[v] EXCEPT !.status = "rejected", !.current = FALSE] \in ValueRow
      BY <3>1, RowUpdate
    <3>3. value' = [value EXCEPT ![v] = [value[v] EXCEPT !.status = "rejected", !.current = FALSE]]
      BY <1>5 DEF RejectValue, TypeOK
    <3> QED
      BY <3>2, <3>3 DEF TypeOK
  <2> QED
    BY <1>5, <2>1, AfterInvalidatingType DEF RejectValue, TypeOK
<1>6. ASSUME NEW e \in Evidence, NEW v \in ValueIds, LinkEvidence(e, v) PROVE TypeOK'
  BY <1>6, AfterInvalidatingType DEF LinkEvidence, TypeOK
<1>7. ASSUME NEW m \in Models, NEW S \in SUBSET Fresh, NEW sub \in [S -> Submission], NEW last \in SUBSET S,
             AcceptSubmissions(m, sub, last)
      PROVE TypeOK'
  <2> DEFINE new == [v \in DOMAIN sub |->
        IF v \in last THEN Row(m, sub[v].field, sub[v].content, "submitted")
        ELSE [Row(m, sub[v].field, sub[v].content, "superseded") EXCEPT !.current = FALSE]]
  <2>1. \A v \in DOMAIN new : new[v] \in ValueRow
    <3> SUFFICES ASSUME NEW v \in S PROVE new[v] \in ValueRow
      OBVIOUS
    <3>1. sub[v].field \in Fields /\ sub[v].content \in Contents /\ m \in Owners
      BY DEF Submission, Owners
    <3>2. "submitted" \in ValueStatus /\ "superseded" \in ValueStatus
      BY DEF ValueStatus
    <3> QED
      BY <3>1, <3>2, RowType
  <2>2. value' \in [ValueIds -> ValueRow]
    BY <1>7, <2>1, InsertedType DEF AcceptSubmissions
  <2>3. links' \subseteq Evidence \X ValueIds
    BY <1>7 DEF AcceptSubmissions, TypeOK, Fresh
  <2> QED
    BY <1>7, <2>2, <2>3, AfterInvalidatingType DEF AcceptSubmissions, TypeOK
<1>8. ASSUME NEW i \in Items, NEW usable \in SUBSET Verified, ValidatePassport(i, usable) PROVE TypeOK'
  <2>1. ValidationTarget(pstate[i], Publishable(i, usable)) \in PassportState
    BY DEF TypeOK, ValidationTarget, PassportState
  <2> QED
    BY <1>8, <2>1 DEF ValidatePassport, TypeOK
<1>9. ASSUME NEW i \in Items, NEW usable \in SUBSET Verified, Publish(i, usable) PROVE TypeOK'
  <2>1. versions' \in [Items -> Seq(Version)]
    BY <1>9, NextVersionType DEF Publish, TypeOK
  <2>2. active' \in [Items -> SUBSET Nat]
    BY <1>9, NextVersionType DEF Publish, SnapshotsAfter, TypeOK
  <2> QED
    BY <1>9, <2>1, <2>2 DEF Publish, TypeOK, PassportState
<1>10. ASSUME NEW i \in Items, NEW event \in EventKinds, NEW prior \in 0..MaxVersions, LifecycleEvent(i, event, prior)
       PROVE TypeOK'
  <2>1. lifecycle' \in [Items -> LifecycleStatus]
    BY <1>10, StatusAfterType, AggregateAssumption DEF LifecycleEvent, TypeOK
  <2>2. pstate' \in [Items -> PassportState]
    BY <1>10, AfterInvalidatingType DEF LifecycleEvent, TypeOK, PassportState
  <2> QED
    BY <1>10, <2>1, <2>2 DEF LifecycleEvent, TypeOK
<1>11. ASSUME NEW i \in Items, Telemetry(i) PROVE TypeOK'
  BY <1>11, AfterInvalidatingType DEF Telemetry, TypeOK
<1>12. ASSUME NEW e \in Evidence, NEW to \in EvidenceStatus, AdvanceEvidence(e, to) PROVE TypeOK'
  BY <1>12 DEF AdvanceEvidence, TypeOK
<1>13. ASSUME NEW e \in Evidence, RejectEvidence(e) PROVE TypeOK'
  BY <1>13, AfterInvalidatingType DEF RejectEvidence, TypeOK, EvidenceStatus
<1>14. CASE UNCHANGED vars
  BY <1>14 DEF vars, TypeOK
<1> QED
  BY <1>1, <1>2, <1>3, <1>4, <1>5, <1>6, <1>7, <1>8, <1>9, <1>10, <1>11, <1>12, <1>13, <1>14 DEF Next

(* The empty aggregate is well formed.                                      *)
LEMMA InitTypes == Init => TypeOK
<1> SUFFICES ASSUME Init PROVE TypeOK
  OBVIOUS
<1>1. value \in [ValueIds -> ValueRow]
  BY DEF Init, NoRow, ValueRow
<1>2. versions \in [Items -> Seq(Version)]
  BY DEF Init
<1> QED
  BY <1>1, <1>2 DEF Init, TypeOK, PassportState, LifecycleStatus, EvidenceStatus

(* Every handler writes well-formed rows, versions and snapshots (TypeOK of *)
(* the aggregate runs).                                                     *)
THEOREM AggregateTypes == Spec => []TypeOK
  BY InitTypes, TypesStay, PTL DEF Spec

-----------------------------------------------------------------------------
(* Who writes what *)

(* The step leaves lifecycleStatus alone and passportState to               *)
(* invalidatePassports at most.                                             *)
OnlyInvalidates == lifecycle' = lifecycle /\ (pstate' = pstate \/ \E S : pstate' = AfterInvalidating(S))

Validates == \E i \in Items, usable \in SUBSET Verified : ValidatePassport(i, usable)

Publishes == \E i \in Items, usable \in SUBSET Verified : Publish(i, usable)

Records == \E i \in Items, event \in EventKinds, prior \in 0..MaxVersions : LifecycleEvent(i, event, prior)

(* Three handlers write passportState or lifecycleStatus themselves.        *)
LEMMA StateWriters ==
  ASSUME [Next]_vars
  PROVE  OnlyInvalidates \/ Validates \/ Publishes \/ Records
<1>1. \A i, m : CreateItem(i, m) => OnlyInvalidates
  BY DEF CreateItem, OnlyInvalidates
<1>2. \A m, S : ReviewApplicability(m, S) => OnlyInvalidates
  BY DEF ReviewApplicability, OnlyInvalidates
<1>3. \A v, o, f, c : CreateValue(v, o, f, c) => OnlyInvalidates
  BY DEF CreateValue, OnlyInvalidates
<1>4. \A v, usable : ValidateValue(v, usable) => OnlyInvalidates
  BY DEF ValidateValue, OnlyInvalidates
<1>5. \A v : RejectValue(v) => OnlyInvalidates
  BY DEF RejectValue, OnlyInvalidates
<1>6. \A e, v : LinkEvidence(e, v) => OnlyInvalidates
  BY DEF LinkEvidence, OnlyInvalidates
<1>7. \A m, sub, last : AcceptSubmissions(m, sub, last) => OnlyInvalidates
  BY DEF AcceptSubmissions, OnlyInvalidates
<1>8. \A i : Telemetry(i) => OnlyInvalidates
  BY DEF Telemetry, OnlyInvalidates
<1>9. \A e, to : AdvanceEvidence(e, to) => OnlyInvalidates
  BY DEF AdvanceEvidence, OnlyInvalidates
<1>10. \A e : RejectEvidence(e) => OnlyInvalidates
  BY DEF RejectEvidence, OnlyInvalidates
<1>11. UNCHANGED vars => OnlyInvalidates
  BY DEF vars, OnlyInvalidates
<1> QED
  BY <1>1, <1>2, <1>3, <1>4, <1>5, <1>6, <1>7, <1>8, <1>9, <1>10, <1>11 DEF Next, Validates, Publishes, Records

(* Only publish writes versions and snapshots.                              *)
LEMMA HistoryWriters ==
  ASSUME [Next]_vars
  PROVE  UNCHANGED <<versions, active>> \/ Publishes
<1> DEFINE Same == versions' = versions /\ active' = active
<1>1. \A i, m : CreateItem(i, m) => Same
  BY DEF CreateItem
<1>2. \A m, S : ReviewApplicability(m, S) => Same
  BY DEF ReviewApplicability
<1>3. \A v, o, f, c : CreateValue(v, o, f, c) => Same
  BY DEF CreateValue
<1>4. \A v, usable : ValidateValue(v, usable) => Same
  BY DEF ValidateValue
<1>5. (\A v : RejectValue(v) => Same) /\ (\A e, v : LinkEvidence(e, v) => Same)
  BY DEF RejectValue, LinkEvidence
<1>6. \A m, sub, last : AcceptSubmissions(m, sub, last) => Same
  BY DEF AcceptSubmissions
<1>7. \A i, usable : ValidatePassport(i, usable) => Same
  BY DEF ValidatePassport
<1>8. (\A i, event, prior : LifecycleEvent(i, event, prior) => Same) /\ (\A i : Telemetry(i) => Same)
  BY DEF LifecycleEvent, Telemetry
<1>9. (\A e, to : AdvanceEvidence(e, to) => Same) /\ (\A e : RejectEvidence(e) => Same)
  BY DEF AdvanceEvidence, RejectEvidence
<1>10. UNCHANGED vars => Same
  BY DEF vars
<1> HIDE DEF Same
<1>11. Same \/ Publishes
  BY <1>1, <1>2, <1>3, <1>4, <1>5, <1>6, <1>7, <1>8, <1>9, <1>10 DEF Next, Publishes
<1> QED
  BY <1>11 DEF Same

-----------------------------------------------------------------------------
(* Publication history *)

(* Version numbers have no gaps and each version chains the one before it   *)
(* (VersionChain): Publish is the only writer and appends.                  *)
THEOREM VersionsAreChained == Spec => []VersionChain
<1>1. Init => VersionChain
  BY DEF Init, VersionChain
<1>2. TypeOK /\ VersionChain /\ [Next]_vars => VersionChain'
  <2> SUFFICES ASSUME TypeOK, VersionChain, [Next]_vars PROVE VersionChain'
    OBVIOUS
  <2>1. ASSUME NEW i \in Items, NEW usable \in SUBSET Verified, Publish(i, usable) PROVE VersionChain'
    <3> SUFFICES ASSUME NEW j \in Items, NEW k \in 1..Len(versions'[j])
                 PROVE  versions'[j][k].no = k /\ versions'[j][k].prev = k - 1
      BY DEF VersionChain
    <3>1. CASE j # i
      BY <2>1, <3>1 DEF Publish, VersionChain, TypeOK
    <3>2. CASE j = i
      <4>1. versions'[i] = Append(versions[i], NextVersion(i)) /\ versions[i] \in Seq(Version)
        BY <2>1 DEF Publish, TypeOK
      <4>2. CASE k = Len(versions[i]) + 1
        BY <3>2, <4>1, <4>2 DEF NextVersion
      <4>3. CASE k \in 1..Len(versions[i])
        BY <3>2, <4>1, <4>3 DEF VersionChain
      <4> QED
        BY <3>2, <4>1, <4>2, <4>3
    <3> QED
      BY <3>1, <3>2
  <2>2. CASE versions' = versions
    BY <2>2 DEF VersionChain
  <2> QED
    BY <2>1, <2>2, HistoryWriters DEF Publishes
<1> QED
  BY <1>1, <1>2, AggregateTypes, PTL DEF Spec

(* The active snapshot is always that of the latest version                 *)
(* (SnapshotIsLatest): Publish replaces both.                               *)
THEOREM LatestSnapshotIsActive == Spec => []SnapshotIsLatest
<1>1. Init => SnapshotIsLatest
  BY DEF Init, SnapshotIsLatest
<1>2. TypeOK /\ SnapshotIsLatest /\ [Next]_vars => SnapshotIsLatest'
  <2> SUFFICES ASSUME TypeOK, SnapshotIsLatest, [Next]_vars PROVE SnapshotIsLatest'
    OBVIOUS
  <2>1. ASSUME NEW i \in Items, NEW usable \in SUBSET Verified, Publish(i, usable) PROVE SnapshotIsLatest'
    <3>1. versions[i] \in Seq(Version)
      BY DEF TypeOK
    <3>2. versions'[i] # <<>> /\ Len(versions'[i]) = Len(versions[i]) + 1 /\ active'[i] = {Len(versions[i]) + 1}
      <4>1. versions'[i] = Append(versions[i], NextVersion(i)) /\ active'[i] = {Len(versions[i]) + 1}
        BY <2>1 DEF Publish, SnapshotsAfter, TypeOK
      <4>2. NextVersion(i) \in Version
        BY NextVersionType
      <4> QED
        BY <3>1, <4>1, <4>2, AppendedLength
    <3>3. \A j \in Items : j # i => versions'[j] = versions[j] /\ active'[j] = active[j]
      BY <2>1 DEF Publish, TypeOK
    <3> QED
      BY <3>2, <3>3 DEF SnapshotIsLatest
  <2>2. CASE UNCHANGED <<versions, active>>
    BY <2>2 DEF SnapshotIsLatest
  <2> QED
    BY <2>1, <2>2, HistoryWriters DEF Publishes
<1> QED
  BY <1>1, <1>2, AggregateTypes, PTL DEF Spec

-----------------------------------------------------------------------------
(* Recycling *)

(* Invalidation neither recycles an item nor revives a recycled one.        *)
LEMMA InvalidatingKeepsRecycled ==
  ASSUME TypeOK, NEW S, NEW i \in Items
  PROVE  AfterInvalidating(S)[i] = "recycled" <=> pstate[i] = "recycled"
  BY DEF AfterInvalidating, Invalidated, PublishedStates

(* passportState and lifecycleStatus become "recycled" together and stay so *)
(* (RecycledTogether).                                                      *)
THEOREM RecycledAgrees == Spec => []RecycledTogether
<1>1. Init => RecycledTogether
  BY DEF Init, RecycledTogether
<1>2. TypeOK /\ RecycledTogether /\ [Next]_vars => RecycledTogether'
  <2> SUFFICES ASSUME TypeOK, RecycledTogether, [Next]_vars PROVE RecycledTogether'
    OBVIOUS
  <2>1. CASE OnlyInvalidates
    BY <2>1, InvalidatingKeepsRecycled DEF OnlyInvalidates, RecycledTogether
  <2>2. ASSUME NEW i \in Items, NEW usable \in SUBSET Verified, ValidatePassport(i, usable) PROVE RecycledTogether'
    <3>1. pstate[i] # "recycled" /\ pstate'[i] # "recycled"
      BY <2>2 DEF ValidatePassport, Closed, ValidationTarget, PublishedStates, TypeOK
    <3> QED
      BY <2>2, <3>1 DEF ValidatePassport, RecycledTogether, TypeOK
  <2>3. ASSUME NEW i \in Items, NEW usable \in SUBSET Verified, Publish(i, usable) PROVE RecycledTogether'
    BY <2>3 DEF Publish, RecycledTogether, TypeOK
  <2>4. ASSUME NEW i \in Items, NEW event \in EventKinds, NEW prior \in 0..MaxVersions, LifecycleEvent(i, event, prior)
        PROVE RecycledTogether'
    <3>1. lifecycle[i] # "recycled" /\ pstate[i] # "recycled"
      BY <2>4 DEF LifecycleEvent, Closed
    <3>2. StatusAfter(event, lifecycle[i]) = "recycled" <=> event = "recycle"
      BY <3>1, AggregateAssumption DEF StatusAfter, EventTypes
    <3>3. lifecycle'[i] = StatusAfter(event, lifecycle[i]) /\ \A j \in Items : j # i => lifecycle'[j] = lifecycle[j]
      BY <2>4 DEF LifecycleEvent, TypeOK
    <3>4. CASE event = "recycle"
      BY <2>4, <3>2, <3>3, <3>4 DEF LifecycleEvent, RecycledTogether, TypeOK
    <3>5. CASE event # "recycle"
      <4>1. pstate' = AfterInvalidating({i})
        BY <2>4, <3>5 DEF LifecycleEvent
      <4> QED
        BY <3>1, <3>2, <3>3, <3>5, <4>1, InvalidatingKeepsRecycled DEF RecycledTogether
    <3> QED
      BY <3>4, <3>5
  <2> QED
    BY <2>1, <2>2, <2>3, <2>4, StateWriters DEF Validates, Publishes, Records
<1> QED
  BY <1>1, <1>2, AggregateTypes, PTL DEF Spec

-----------------------------------------------------------------------------
(* Value rows *)

(* A current row of an owner and field has that owner and field.            *)
LEMMA CurrentsMember ==
  \A o, f, v : v \in Currents(o, f) <=> v \in ValueIds /\ value[v].current /\ value[v].owner = o /\ value[v].field = f
  BY DEF Currents

(* With at most one current row, the row findFirst finds is the only one.   *)
LEMMA PriorIsAll ==
  ASSUME AtMostOneCurrent, NEW o \in Owners, NEW f \in Fields
  PROVE  Prior(o, f) = Currents(o, f)
<1>1. CASE Currents(o, f) = {}
  BY <1>1 DEF Prior
<1>2. CASE Currents(o, f) # {}
  <2>1. FirstFound(Currents(o, f)) \in Currents(o, f)
    BY <1>2 DEF FirstFound
  <2> QED
    BY <1>2, <2>1 DEF Prior, AtMostOneCurrent
<1> QED
  BY <1>1, <1>2

(* No owner has two current rows of a field (AtMostOneCurrent), although    *)
(* nothing but the order of the statements forbids it.                      *)
THEOREM OneCurrentRow == Spec => []AtMostOneCurrent
<1>1. Init => AtMostOneCurrent
  BY DEF Init, AtMostOneCurrent, Currents, NoRow
<1>2. TypeOK /\ AtMostOneCurrent /\ [Next]_vars => AtMostOneCurrent'
  <2> SUFFICES ASSUME TypeOK, AtMostOneCurrent, [Next]_vars PROVE AtMostOneCurrent'
    OBVIOUS
  <2>1. ASSUME \A v \in ValueIds : value'[v].current => value[v].current /\ value'[v].owner = value[v].owner
                                                        /\ value'[v].field = value[v].field
        PROVE  AtMostOneCurrent'
    BY <2>1 DEF AtMostOneCurrent, Currents
  <2>2. ASSUME NEW v \in ValueIds, NEW o \in Owners, NEW f \in Fields, NEW c \in Contents, CreateValue(v, o, f, c)
        PROVE AtMostOneCurrent'
    <3>1. value'[v].owner = o /\ value'[v].field = f
      BY <2>2 DEF CreateValue, Inserted, Row
    <3>2. \A w \in ValueIds : w # v /\ value'[w].current => value'[w] = value[w] /\ w \notin Currents(o, f)
      BY <2>2, PriorIsAll DEF CreateValue, Inserted, TypeOK, ValueRow
    <3> QED
      BY <3>1, <3>2 DEF AtMostOneCurrent, Currents
  <2>3. ASSUME NEW m \in Models, NEW S \in SUBSET Fresh, NEW sub \in [S -> Submission], NEW last \in SUBSET S,
               AcceptSubmissions(m, sub, last)
        PROVE AtMostOneCurrent'
    <3> DEFINE touched == {sub[v].field : v \in S}
    <3>1. \A v \in S : value'[v].owner = m /\ value'[v].field = sub[v].field /\ (value'[v].current => v \in last)
      BY <2>3 DEF AcceptSubmissions, Inserted, Row, Fresh
    <3>2. \A f \in touched : Prior(m, f) = Currents(m, f)
      BY PriorIsAll DEF Owners, Submission
    <3>3. \A w \in ValueIds \ S : value'[w].current =>
             value'[w] = value[w] /\ \A f \in touched : w \notin Currents(m, f)
      <4> SUFFICES ASSUME NEW w \in ValueIds \ S, value'[w].current
                   PROVE  value'[w] = value[w] /\ \A f \in touched : w \notin Currents(m, f)
        OBVIOUS
      <4> DEFINE prior == UNION {Prior(m, f) : f \in touched}
      <4>1. value[w] \in ValueRow
        BY DEF TypeOK
      <4>2. value'[w] = IF w \in prior THEN [value[w] EXCEPT !.status = "superseded", !.current = FALSE] ELSE value[w]
        BY <2>3 DEF AcceptSubmissions, Inserted
      <4>3. ~[value[w] EXCEPT !.status = "superseded", !.current = FALSE].current
        BY <4>1 DEF ValueRow
      <4>4. w \notin prior /\ value'[w] = value[w]
        BY <4>2, <4>3
      <4> QED
        BY <3>2, <4>4
    <3>4. \A v, w \in last : sub[v].field = sub[w].field => v = w
      BY <2>3 DEF AcceptSubmissions
    <3> SUFFICES ASSUME NEW o \in Owners, NEW f \in Fields, NEW a \in ValueIds, NEW b \in ValueIds,
                        value'[a].current, value'[a].owner = o, value'[a].field = f,
                        value'[b].current, value'[b].owner = o, value'[b].field = f
                 PROVE  a = b
      BY DEF AtMostOneCurrent, Currents
    <3>6. CASE a \in S /\ b \in S
      BY <3>1, <3>4, <3>6
    <3>7. CASE (a \in S /\ b \notin S) \/ (a \notin S /\ b \in S)
      <4>1. ASSUME NEW x \in S, NEW y \in ValueIds \ S, value'[y].current, value'[x].owner = value'[y].owner
            PROVE  value'[x].field # value'[y].field
        <5>1. sub[x].field \in touched /\ value'[x].field = sub[x].field /\ value'[x].owner = m
          BY <3>1
        <5>2. value'[y] = value[y] /\ y \notin Currents(m, sub[x].field)
          BY <3>3, <4>1, <5>1
        <5> QED
          BY <4>1, <5>1, <5>2 DEF Currents
      <4> QED
        BY <3>7, <4>1
    <3>8. CASE a \notin S /\ b \notin S
      BY <3>3, <3>8 DEF AtMostOneCurrent, Currents
    <3> QED
      BY <3>6, <3>7, <3>8
  <2>4. ASSUME NEW v \in ValueIds, (\E usable : ValidateValue(v, usable)) \/ RejectValue(v)
        PROVE AtMostOneCurrent'
    <3>1. value[v] \in ValueRow /\ value[v].current
      BY <2>4 DEF ValidateValue, RejectValue, Reviewable, TypeOK
    <3>2. value'[v].owner = value[v].owner /\ value'[v].field = value[v].field
      BY <2>4, <3>1 DEF ValidateValue, RejectValue, TypeOK, ValueRow
    <3>3. \A w \in ValueIds : w # v => value'[w] = value[w]
      BY <2>4 DEF ValidateValue, RejectValue, TypeOK
    <3> QED
      BY <2>1, <3>1, <3>2, <3>3
  <2>5. CASE value' = value
    BY <2>1, <2>5
  <2> QED
    BY <2>2, <2>3, <2>4, <2>5 DEF Next, CreateItem, ReviewApplicability, LinkEvidence, ValidatePassport, Publish,
       LifecycleEvent, Telemetry, AdvanceEvidence, RejectEvidence, vars
<1> QED
  BY <1>1, <1>2, AggregateTypes, PTL DEF Spec

(* Rejected and superseded rows are history (HistoryIsFixed): no handler    *)
(* writes a row that is not current, and an insert takes a fresh id.        *)
THEOREM HistoryStays == Spec => HistoryIsFixed
<1> DEFINE Kept == \A v \in ValueIds : value[v] # NoRow /\ ~value[v].current => value'[v] = value[v]
<1>1. TypeOK /\ [Next]_vars => [Kept]_vars
  <2> SUFFICES ASSUME TypeOK, [Next]_vars PROVE Kept
    OBVIOUS
  <2>1. ASSUME NEW new, NEW prior, DOMAIN new \subseteq Fresh, \A v \in prior : value[v].current,
               value' = Inserted(new, prior)
        PROVE  Kept
    BY <2>1 DEF Inserted, Fresh
  <2>2. ASSUME NEW v \in ValueIds, NEW o \in Owners, NEW f \in Fields, NEW c \in Contents, CreateValue(v, o, f, c)
        PROVE Kept
    BY <2>1, <2>2, PriorType, CurrentsMember DEF CreateValue
  <2>3. ASSUME NEW m \in Models, NEW S \in SUBSET Fresh, NEW sub \in [S -> Submission], NEW last \in SUBSET S,
               AcceptSubmissions(m, sub, last)
        PROVE Kept
    BY <2>1, <2>3, PriorType, CurrentsMember DEF AcceptSubmissions
  <2>4. ASSUME NEW v \in ValueIds, (\E usable : ValidateValue(v, usable)) \/ RejectValue(v) PROVE Kept
    BY <2>4 DEF ValidateValue, RejectValue, Reviewable, TypeOK
  <2>5. CASE value' = value
    BY <2>5
  <2> QED
    BY <2>2, <2>3, <2>4, <2>5 DEF Next, CreateItem, ReviewApplicability, LinkEvidence, ValidatePassport, Publish,
       LifecycleEvent, Telemetry, AdvanceEvidence, RejectEvidence, vars
<1> QED
  BY <1>1, AggregateTypes, PTL DEF Spec, HistoryIsFixed

-----------------------------------------------------------------------------
(* The publication gate.  A step keeps what the gate says of item i when it *)
(* leaves alone everything the gate reads and no evidence it relies on      *)
(* stops being verified.                                                    *)

GateInv == ReadyIsPublishable /\ PublishedMirrorsData

KeepsGate(i) ==
  /\ modelOf'[i] = modelOf[i] /\ lifecycle'[i] = lifecycle[i] /\ versions'[i] = versions[i]
  /\ modelOf[i] \in reviewed => modelOf[i] \in reviewed'
  /\ applicable'[modelOf[i]] = applicable[modelOf[i]]
  /\ View(i)' = View(i)
  /\ \A f \in Fields : View(i)[f].evidence \cap Verified \subseteq Verified'

(* The gate of an item depends on its model, its merged data, its lifecycle *)
(* status and the evidence verified, nothing else.                          *)
LEMMA GateKept ==
  ASSUME NEW i \in Items, KeepsGate(i), Publishable(i, Verified)
  PROVE  Publishable(i, Verified)'
<1>1. \A f \in Fields : Proven(View(i)[f], Verified) => Proven(View(i)[f], Verified')
  BY DEF KeepsGate, Proven
<1>2. GatePasses(RequirementOf[modelOf[i]], modelOf[i] \in reviewed', applicable[modelOf[i]], View(i), lifecycle[i], Verified')
  BY <1>1 DEF KeepsGate, Publishable, GatePasses, RequiredNow
<1> QED
  BY <1>2 DEF KeepsGate, Publishable

(* Evidence usable now is verified, so what passes the gate now passes it   *)
(* with all the verified evidence.                                          *)
LEMMA GateMonotone ==
  ASSUME NEW i \in Items, NEW usable \in SUBSET Verified, Publishable(i, usable)
  PROVE  Publishable(i, Verified)
<1>1. \A f \in Fields : Proven(View(i)[f], usable) => Proven(View(i)[f], Verified)
  BY DEF Proven
<1> QED
  BY <1>1 DEF Publishable, GatePasses, RequiredNow

(* A step that leaves alone the gate of every item that is ready or         *)
(* published after it keeps the gate invariant.                             *)
LEMMA GateFrame ==
  ASSUME GateInv,
         \A i \in Items : pstate'[i] \in {"ready", "published"} /\ Exists(i) => pstate'[i] = pstate[i] /\ KeepsGate(i),
         \A i \in Items : pstate'[i] \in {"ready", "published"} => Exists(i)
  PROVE  GateInv'
<1>1. ASSUME NEW i \in Items, pstate'[i] = "ready" PROVE Exists(i)' /\ Publishable(i, Verified)'
  <2>1. KeepsGate(i) /\ pstate[i] = "ready"
    BY <1>1
  <2> QED
    BY <2>1, GateKept DEF GateInv, ReadyIsPublishable, KeepsGate, Exists
<1>2. ASSUME NEW i \in Items, pstate'[i] = "published"
      PROVE /\ Exists(i)' /\ versions'[i] # <<>>
            /\ versions'[i][Len(versions'[i])].entries = View(i)'
            /\ versions'[i][Len(versions'[i])].lifecycle = lifecycle'[i]
            /\ Publishable(i, Verified)'
  <2>1. KeepsGate(i) /\ pstate[i] = "published"
    BY <1>2
  <2> QED
    BY <2>1, GateKept DEF GateInv, PublishedMirrorsData, KeepsGate, Exists
<1> QED
  BY <1>1, <1>2 DEF GateInv, ReadyIsPublishable, PublishedMirrorsData

(* Invalidation leaves no affected item ready or published.                 *)
LEMMA InvalidatingClears ==
  ASSUME TypeOK, NEW S, NEW i \in Items, AfterInvalidating(S)[i] \in {"ready", "published"}
  PROVE  i \notin S /\ AfterInvalidating(S)[i] = pstate[i]
  BY DEF AfterInvalidating, Invalidated, PublishedStates, TypeOK

(* An item that is ready or published exists.                               *)
LEMMA UntouchedExists ==
  ASSUME GateInv, NEW i \in Items, pstate[i] \in {"ready", "published"}
  PROVE  Exists(i) /\ i \in Items /\ modelOf[i] # None
  BY DEF GateInv, ReadyIsPublishable, PublishedMirrorsData, Exists

(* What an item shows depends only on its own rows and those of its model.  *)
LEMMA ViewKept ==
  ASSUME TypeOK, NEW i \in Items, modelOf'[i] = modelOf[i],
         \A v \in ValueIds : value[v].owner \in {i, modelOf[i]} \/ value'[v].owner \in {i, modelOf[i]}
                                => value'[v] = value[v] /\ Linked(v)' = Linked(v)
  PROVE  View(i)' = View(i)
<1>1. ASSUME NEW f \in Fields
      PROVE  Currents(i, f)' = Currents(i, f) /\ Currents(modelOf[i], f)' = Currents(modelOf[i], f)
  BY DEF Currents
<1>2. ASSUME NEW f \in Fields PROVE Merged(i, f)' = Merged(i, f)
  <2>1. Shown(i, f)' = Shown(i, f)
    BY <1>1 DEF Shown
  <2> QED
    BY <2>1 DEF Merged
<1>3. ASSUME NEW f \in Fields, Merged(i, f) # None
      PROVE  /\ Merged(i, f) \in ValueIds
             /\ value[Merged(i, f)].owner \in {i, modelOf[i]}
  BY <1>3 DEF Merged, FirstFound, Shown, Currents
<1>4. ASSUME NEW f \in Fields PROVE EntryOf(Merged(i, f))' = EntryOf(Merged(i, f))
  BY <1>2, <1>3 DEF EntryOf
<1> QED
  BY <1>4 DEF View

(* The evidence an item shows is linked to a row of the item or of its      *)
(* model.                                                                   *)
LEMMA ViewEvidence ==
  ASSUME NEW i \in Items, NEW f \in Fields, NEW e \in View(i)[f].evidence
  PROVE  \E v \in ValueIds : value[v].owner \in {i, modelOf[i]} /\ <<e, v>> \in links
<1>1. Merged(i, f) # None
  BY DEF View, EntryOf, NoEntry
<1>2. Merged(i, f) \in ValueIds /\ value[Merged(i, f)].owner \in {i, modelOf[i]}
  BY <1>1 DEF Merged, FirstFound, Shown, Currents
<1> QED
  BY <1>1, <1>2 DEF View, EntryOf, Linked

(* A write to rows of one owner leaves every unaffected item's gate alone.  *)
LEMMA OwnerWriteFrame ==
  ASSUME TypeOK, GateInv, NEW o,
         pstate' = AfterInvalidating(Affected(o)),
         UNCHANGED <<reviewed, applicable, modelOf, lifecycle, evidence, versions>>,
         \A v \in ValueIds : value'[v] # value[v] \/ Linked(v)' # Linked(v)
                               => value[v].owner \in {o, None} /\ value'[v].owner = o
  PROVE  GateInv'
<1>1. ASSUME NEW i \in Items, pstate'[i] \in {"ready", "published"}
      PROVE  pstate'[i] = pstate[i] /\ Exists(i) /\ KeepsGate(i)
  <2>1. i \notin Affected(o) /\ pstate'[i] = pstate[i]
    BY <1>1, InvalidatingClears
  <2>2. Exists(i)
    BY <1>1, <2>1, UntouchedExists
  <2>3. o # i /\ o # modelOf[i] /\ None # i /\ None # modelOf[i]
    BY <2>1, <2>2, AggregateAssumption DEF Affected, Exists
  <2>4. \A v \in ValueIds : value[v].owner \in {i, modelOf[i]} \/ value'[v].owner \in {i, modelOf[i]}
           => value'[v] = value[v] /\ Linked(v)' = Linked(v)
    BY <2>3
  <2>5. View(i)' = View(i)
    BY <2>4, ViewKept
  <2>6. Verified' = Verified
    BY DEF Verified
  <2> QED
    BY <2>1, <2>2, <2>5, <2>6 DEF KeepsGate
<1> QED
  BY <1>1, GateFrame

(* Inserting rows of one owner, and superseding rows of it, is such a write. *)
LEMMA InsertedFrame ==
  ASSUME TypeOK, NEW o, NEW new, NEW prior, value' = Inserted(new, prior),
         DOMAIN new \subseteq Fresh, \A v \in DOMAIN new : new[v].owner = o,
         \A v \in prior : value[v].owner = o
  PROVE  \A v \in ValueIds : value'[v] # value[v] => value[v].owner \in {o, None} /\ value'[v].owner = o
<1> TAKE v \in ValueIds
<1>1. CASE v \in DOMAIN new
  <2>1. value[v] = NoRow /\ value'[v] = new[v]
    BY <1>1 DEF Inserted, Fresh
  <2> QED
    BY <1>1, <2>1 DEF NoRow
<1>2. CASE v \notin DOMAIN new /\ v \in prior
  <2>1. value'[v] = [value[v] EXCEPT !.status = "superseded", !.current = FALSE]
    BY <1>2 DEF Inserted
  <2> QED
    BY <1>2, <2>1 DEF TypeOK, ValueRow
<1>3. CASE v \notin DOMAIN new /\ v \notin prior
  BY <1>3 DEF Inserted
<1> QED
  BY <1>1, <1>2, <1>3

(* Every step of every handler keeps the gate invariant.                    *)
LEMMA GateStep == TypeOK /\ GateInv /\ [Next]_vars => GateInv'
<1> SUFFICES ASSUME TypeOK, GateInv, [Next]_vars PROVE GateInv'
  OBVIOUS
<1>1. ASSUME NEW i \in Items, UNCHANGED <<reviewed, applicable, lifecycle, value, links, versions>>,
             modelOf'[i] = modelOf[i], Verified \subseteq Verified'
      PROVE  KeepsGate(i)
  <2>1. View(i)' = View(i)
    BY <1>1, ViewKept DEF Linked
  <2> QED
    BY <1>1, <2>1 DEF KeepsGate
<1>2. ASSUME NEW i \in Items, NEW m \in Models, CreateItem(i, m) PROVE GateInv'
  <2>1. ASSUME NEW j \in Items, pstate'[j] \in {"ready", "published"}
        PROVE  pstate'[j] = pstate[j] /\ Exists(j) /\ KeepsGate(j)
    <3>1. pstate'[j] = pstate[j] /\ Exists(j)
      BY <1>2, <2>1, UntouchedExists DEF CreateItem
    <3>2. modelOf'[j] = modelOf[j] /\ Verified' = Verified
      BY <1>2, <3>1 DEF CreateItem, TypeOK, Verified
    <3> QED
      BY <1>1, <1>2, <3>1, <3>2 DEF CreateItem
  <2> QED
    BY <2>1, GateFrame
<1>3. ASSUME NEW m \in Models, NEW S \in SUBSET Fields, ReviewApplicability(m, S) PROVE GateInv'
  <2>1. ASSUME NEW j \in Items, pstate'[j] \in {"ready", "published"}
        PROVE  pstate'[j] = pstate[j] /\ Exists(j) /\ KeepsGate(j)
    <3>1. j \notin Affected(m) /\ pstate'[j] = pstate[j]
      BY <1>3, <2>1, InvalidatingClears DEF ReviewApplicability
    <3>2. Exists(j) /\ modelOf[j] # m
      BY <2>1, <3>1, UntouchedExists DEF Affected
    <3>3. applicable'[modelOf[j]] = applicable[modelOf[j]] /\ reviewed \subseteq reviewed'
      BY <1>3, <3>2 DEF ReviewApplicability, TypeOK, Exists
    <3>4. View(j)' = View(j)
      BY <1>3, ViewKept DEF ReviewApplicability, Linked
    <3>5. Verified' = Verified
      BY <1>3 DEF ReviewApplicability, Verified
    <3> QED
      BY <1>3, <3>1, <3>2, <3>3, <3>4, <3>5 DEF ReviewApplicability, KeepsGate
  <2> QED
    BY <2>1, GateFrame
<1>4. ASSUME NEW v \in ValueIds, NEW o \in Owners, NEW f \in Fields, NEW c \in Contents, CreateValue(v, o, f, c)
      PROVE GateInv'
  <2>1. \A w \in ValueIds : value'[w] # value[w] => value[w].owner \in {o, None} /\ value'[w].owner = o
    <3> DEFINE new == [x \in {v} |-> Row(o, f, c, "unvalidated")]
    <3>1. DOMAIN new \subseteq Fresh /\ \A x \in DOMAIN new : new[x].owner = o
      BY <1>4 DEF CreateValue, Row
    <3> DEFINE prior == Prior(o, f)
    <3>2. \A x \in prior : value[x].owner = o
      BY PriorType, CurrentsMember
    <3>3. value' = Inserted(new, prior)
      BY <1>4 DEF CreateValue
    <3> HIDE DEF new, prior
    <3> QED
      BY <3>1, <3>2, <3>3, InsertedFrame, ZenonT(40)
  <2>2. \A w \in ValueIds : Linked(w)' = Linked(w)
    BY <1>4 DEF CreateValue, Linked
  <2> QED
    BY <1>4, <2>1, <2>2, OwnerWriteFrame DEF CreateValue
<1>5. ASSUME NEW v \in ValueIds, NEW usable \in SUBSET Verified, ValidateValue(v, usable) PROVE GateInv'
  <2>1. CASE value[v].status = "validated"
    <3>1. value' = value
      BY <1>5, <2>1 DEF ValidateValue, TypeOK, ValueRow
    <3>2. ASSUME NEW j \in Items, pstate'[j] \in {"ready", "published"}
          PROVE  pstate'[j] = pstate[j] /\ Exists(j) /\ KeepsGate(j)
      BY <1>1, <1>5, <2>1, <3>1, <3>2, UntouchedExists DEF ValidateValue, Verified
    <3> QED
      BY <3>2, GateFrame
  <2>2. CASE value[v].status # "validated"
    <3>1. \A w \in ValueIds : value'[w] # value[w] => w = v /\ value'[w].owner = value[v].owner
      BY <1>5 DEF ValidateValue, TypeOK, ValueRow
    <3>2. \A w \in ValueIds : Linked(w)' = Linked(w)
      BY <1>5 DEF ValidateValue, Linked
    <3> QED
      BY <1>5, <2>2, <3>1, <3>2, OwnerWriteFrame DEF ValidateValue
  <2> QED
    BY <2>1, <2>2
<1>6. ASSUME NEW v \in ValueIds, RejectValue(v) PROVE GateInv'
  <2>1. \A w \in ValueIds : value'[w] # value[w] => w = v /\ value'[w].owner = value[v].owner
    BY <1>6 DEF RejectValue, TypeOK, ValueRow
  <2>2. \A w \in ValueIds : Linked(w)' = Linked(w)
    BY <1>6 DEF RejectValue, Linked
  <2> QED
    BY <1>6, <2>1, <2>2, OwnerWriteFrame DEF RejectValue
<1>7. ASSUME NEW e \in Evidence, NEW v \in ValueIds, LinkEvidence(e, v) PROVE GateInv'
  <2>1. \A w \in ValueIds : Linked(w)' # Linked(w) => w = v
    BY <1>7 DEF LinkEvidence, Linked
  <2> QED
    BY <1>7, <2>1, OwnerWriteFrame DEF LinkEvidence
<1>8. ASSUME NEW m \in Models, NEW S \in SUBSET Fresh, NEW sub \in [S -> Submission], NEW last \in SUBSET S,
             AcceptSubmissions(m, sub, last)
      PROVE GateInv'
  <2> DEFINE new == [v \in DOMAIN sub |->
        IF v \in last THEN Row(m, sub[v].field, sub[v].content, "submitted")
        ELSE [Row(m, sub[v].field, sub[v].content, "superseded") EXCEPT !.current = FALSE]]
  <2> DEFINE prior == UNION {Prior(m, f) : f \in {sub[v].field : v \in DOMAIN sub}}
  <2>1. DOMAIN new \subseteq Fresh /\ \A v \in DOMAIN new : new[v].owner = m
    BY DEF Row
  <2>2. \A v \in prior : value[v].owner = m
    BY PriorType, CurrentsMember
  <2>3. value' = Inserted(new, prior)
    BY <1>8 DEF AcceptSubmissions
  <2> HIDE DEF new, prior
  <2>4. \A w \in ValueIds : value'[w] # value[w] => value[w].owner \in {m, None} /\ value'[w].owner = m
    BY <2>1, <2>2, <2>3, InsertedFrame, ZenonT(40)
  <2>5. ASSUME NEW w \in S PROVE value[w].owner = None /\ value'[w].owner = m
    <3>1. w \in ValueIds /\ value[w] = NoRow /\ w \in DOMAIN new
      BY <2>5 DEF Fresh, new
    <3>2. value'[w] = new[w]
      BY <2>3, <3>1 DEF Inserted
    <3> QED
      BY <2>1, <3>1, <3>2 DEF NoRow
  <2>6. \A w \in ValueIds \ S : Linked(w)' = Linked(w)
    BY <1>8 DEF AcceptSubmissions, Linked
  <2> QED
    BY <1>8, <2>4, <2>5, <2>6, OwnerWriteFrame DEF AcceptSubmissions
<1>9. ASSUME NEW i \in Items, UNCHANGED <<reviewed, applicable, modelOf, lifecycle, value, evidence, links>>
      PROVE  View(i)' = View(i) /\ (Publishable(i, Verified)' <=> Publishable(i, Verified))
  <2>1. View(i)' = View(i)
    BY <1>9, ViewKept DEF Linked
  <2> QED
    BY <1>9, <2>1 DEF Publishable, Verified
<1>10. ASSUME NEW i \in Items, NEW usable \in SUBSET Verified, ValidatePassport(i, usable) PROVE GateInv'
  <2>1. pstate'[i] \in {"ready", "published"} => Publishable(i, usable) /\ (pstate'[i] = "published" => pstate[i] = "published")
    BY <1>10 DEF ValidatePassport, ValidationTarget, PublishedStates, TypeOK
  <2>2. \A j \in Items : j # i => pstate'[j] = pstate[j]
    BY <1>10 DEF ValidatePassport, TypeOK
  <2>3. \A j \in Items : (View(j)' = View(j)) /\ (Publishable(j, Verified)' <=> Publishable(j, Verified))
    BY <1>9, <1>10 DEF ValidatePassport
  <2>4. Publishable(i, usable) => Publishable(i, Verified)
    BY GateMonotone
  <2> QED
    BY <1>10, <2>1, <2>2, <2>3, <2>4 DEF ValidatePassport, GateInv, ReadyIsPublishable, PublishedMirrorsData, Exists
<1>11. ASSUME NEW i \in Items, NEW usable \in SUBSET Verified, Publish(i, usable) PROVE GateInv'
  <2>1. pstate'[i] = "published" /\ \A j \in Items : j # i => pstate'[j] = pstate[j] /\ versions'[j] = versions[j]
    BY <1>11 DEF Publish, TypeOK
  <2>2. \A j \in Items : (View(j)' = View(j)) /\ (Publishable(j, Verified)' <=> Publishable(j, Verified))
    BY <1>9, <1>11 DEF Publish
  <2>3. Publishable(i, Verified)
    BY <1>11, GateMonotone DEF Publish
  <2>4. /\ versions'[i] # <<>>
        /\ versions'[i][Len(versions'[i])] = NextVersion(i)
    <3>1. versions'[i] = Append(versions[i], NextVersion(i)) /\ versions[i] \in Seq(Version)
      BY <1>11 DEF Publish, TypeOK
    <3>2. NextVersion(i) \in Version
      BY NextVersionType
    <3> QED
      BY <3>1, <3>2
  <2>5. NextVersion(i).entries = View(i) /\ NextVersion(i).lifecycle = lifecycle[i]
    BY DEF NextVersion
  <2> QED
    BY <1>11, <2>1, <2>2, <2>3, <2>4, <2>5 DEF Publish, GateInv, ReadyIsPublishable, PublishedMirrorsData, Exists
<1>12. ASSUME NEW i \in Items, pstate' = AfterInvalidating({i}) \/ pstate' = [pstate EXCEPT ![i] = "recycled"],
              \A j \in Items : j # i => lifecycle'[j] = lifecycle[j],
              UNCHANGED <<reviewed, applicable, modelOf, value, evidence, links, versions>>
       PROVE GateInv'
  <2>1. ASSUME NEW j \in Items, pstate'[j] \in {"ready", "published"}
        PROVE  pstate'[j] = pstate[j] /\ Exists(j) /\ KeepsGate(j)
    <3>1. j # i /\ pstate'[j] = pstate[j]
      BY <1>12, <2>1, InvalidatingClears DEF TypeOK
    <3>2. View(j)' = View(j)
      BY <1>12, ViewKept DEF Linked
    <3> QED
      BY <1>12, <2>1, <3>1, <3>2, UntouchedExists DEF KeepsGate, Verified
  <2> QED
    BY <2>1, GateFrame
<1>13. ASSUME NEW i \in Items, NEW event \in EventKinds, NEW prior \in 0..MaxVersions, LifecycleEvent(i, event, prior)
       PROVE GateInv'
  <2>1. \A j \in Items : j # i => lifecycle'[j] = lifecycle[j]
    BY <1>13 DEF LifecycleEvent, TypeOK
  <2> QED
    BY <1>12, <1>13, <2>1 DEF LifecycleEvent
<1>14. ASSUME NEW i \in Items, Telemetry(i) PROVE GateInv'
  BY <1>12, <1>14 DEF Telemetry
<1>15. ASSUME NEW e \in Evidence, NEW to \in EvidenceStatus, AdvanceEvidence(e, to) PROVE GateInv'
  <2>1. Verified \subseteq Verified'
    BY <1>15 DEF AdvanceEvidence, EvidenceMoves, Verified, TypeOK
  <2>2. ASSUME NEW j \in Items, pstate'[j] \in {"ready", "published"}
        PROVE  pstate'[j] = pstate[j] /\ Exists(j) /\ KeepsGate(j)
    BY <1>1, <1>15, <2>1, <2>2, UntouchedExists DEF AdvanceEvidence
  <2> QED
    BY <2>2, GateFrame
<1>16. ASSUME NEW e \in Evidence, RejectEvidence(e) PROVE GateInv'
  <2> DEFINE S == UNION {Affected(value[v].owner) : v \in {w \in ValueIds : <<e, w>> \in links}}
  <2>1. ASSUME NEW j \in Items, pstate'[j] \in {"ready", "published"}
        PROVE  pstate'[j] = pstate[j] /\ Exists(j) /\ KeepsGate(j)
    <3>1. j \notin S /\ pstate'[j] = pstate[j]
      BY <1>16, <2>1, InvalidatingClears DEF RejectEvidence
    <3>2. Exists(j)
      BY <2>1, <3>1, UntouchedExists
    <3>3. ASSUME NEW v \in ValueIds, value[v].owner \in {j, modelOf[j]} PROVE <<e, v>> \notin links
      <4>1. j \in Affected(value[v].owner)
        BY <3>2, <3>3 DEF Affected
      <4> QED
        BY <3>1, <4>1
    <3>6. \A f \in Fields : e \notin View(j)[f].evidence
      BY <3>3, ViewEvidence
    <3>4. Verified \ {e} \subseteq Verified'
      BY <1>16 DEF RejectEvidence, Verified, TypeOK
    <3>5. View(j)' = View(j)
      BY <1>16, ViewKept DEF RejectEvidence, Linked
    <3> QED
      BY <1>16, <3>1, <3>2, <3>4, <3>5, <3>6 DEF RejectEvidence, KeepsGate
  <2> QED
    BY <2>1, GateFrame
<1>17. CASE UNCHANGED vars
  <2>1. ASSUME NEW j \in Items, pstate'[j] \in {"ready", "published"}
        PROVE  pstate'[j] = pstate[j] /\ Exists(j) /\ KeepsGate(j)
    BY <1>1, <1>17, <2>1, UntouchedExists DEF vars, Verified
  <2> QED
    BY <2>1, GateFrame
<1> QED
  BY <1>2, <1>3, <1>4, <1>5, <1>6, <1>7, <1>8, <1>10, <1>11, <1>13, <1>14, <1>15, <1>16, <1>17 DEF Next

(* The gate invariant holds in every reachable state.                       *)
LEMMA GateAlways == Spec => []GateInv
<1>1. Init => GateInv
  BY DEF Init, GateInv, ReadyIsPublishable, PublishedMirrorsData
<1> QED
  BY <1>1, GateStep, AggregateTypes, PTL DEF Spec

(* "ready" always means publishable, up to the validity window of evidence  *)
(* (ReadyIsPublishable): every writer invalidates what its write can reach. *)
THEOREM ReadyMeansPublishable == Spec => []ReadyIsPublishable
  BY GateAlways, PTL DEF GateInv

(* "published" always means that the latest version is the present data, and *)
(* that this data still passes the gate (PublishedMirrorsData).             *)
THEOREM PublishedMeansUnchanged == Spec => []PublishedMirrorsData
  BY GateAlways, PTL DEF GateInv

-----------------------------------------------------------------------------
(* Action properties of an item                                             *)

(* Whatever state invalidatePassports changes, it changes along an edge of  *)
(* the state machine it never asks.                                         *)
LEMMA InvalidatingIsLegal ==
  ASSUME TypeOK, NEW S, NEW i \in Items, AfterInvalidating(S)[i] # pstate[i]
  PROVE  CanTransition(pstate[i], AfterInvalidating(S)[i])
<1>1. \/ pstate[i] \in PublishedStates /\ AfterInvalidating(S)[i] = "updated"
      \/ pstate[i] = "ready" /\ AfterInvalidating(S)[i] = "data_collection"
  <2>1. AfterInvalidating(S)[i] = Invalidated(pstate[i])
    BY DEF AfterInvalidating
  <2>2. CASE pstate[i] \in PublishedStates
    BY <2>1, <2>2 DEF Invalidated, PublishedStates
  <2>3. CASE pstate[i] = "ready"
    BY <2>1, <2>3 DEF Invalidated, PublishedStates
  <2>4. CASE pstate[i] \notin PublishedStates /\ pstate[i] # "ready"
    BY <2>1, <2>4 DEF Invalidated
  <2> QED
    BY <2>2, <2>3, <2>4
<1> QED
  BY <1>1 DEF CanTransition, Transitions, PublishedStates

(* Whatever writes passportState follows an edge of the state machine       *)
(* (LegalTransitions), the writers that never ask it included.              *)
THEOREM TransitionsAreLegal == Spec => LegalTransitions
<1> DEFINE Legal(i) == pstate'[i] # pstate[i] =>
             \/ CanTransition(pstate[i], pstate'[i])
             \/ pstate[i] = "draft" /\ CanTransition("data_collection", pstate'[i])
<1>1. TypeOK /\ [Next]_vars => [\A i \in Items : Legal(i)]_vars
  <2> SUFFICES ASSUME TypeOK, [Next]_vars, NEW i \in Items PROVE Legal(i)
    OBVIOUS
  <2>1. ASSUME NEW S, pstate' = AfterInvalidating(S) \/ pstate' = pstate PROVE Legal(i)
    BY <2>1, InvalidatingIsLegal
  <2>2. ASSUME NEW j \in Items, NEW usable \in SUBSET Verified, ValidatePassport(j, usable) PROVE Legal(i)
    <3> DEFINE to == ValidationTarget(pstate[j], Publishable(j, usable))
    <3>1. pstate' = [pstate EXCEPT ![j] = to]
      BY <2>2 DEF ValidatePassport
    <3>2. \/ pstate[j] = "draft" /\ ("data_collection" = to \/ CanTransition("data_collection", to))
          \/ pstate[j] = to \/ CanTransition(pstate[j], to)
      BY <2>2 DEF ValidatePassport, ValidationAllowed
    <3>3. to # "data_collection"
      BY DEF ValidationTarget, PublishedStates
    <3> HIDE DEF to
    <3> QED
      BY <3>1, <3>2, <3>3 DEF TypeOK
  <2>3. ASSUME NEW j \in Items, NEW usable \in SUBSET Verified, Publish(j, usable) PROVE Legal(i)
    BY <2>3 DEF Publish, TypeOK
  <2>4. ASSUME NEW j \in Items, NEW event \in EventKinds, NEW prior \in 0..MaxVersions, LifecycleEvent(j, event, prior)
        PROVE Legal(i)
    <3>1. CASE event = "recycle"
      BY <2>4, <3>1 DEF LifecycleEvent, TypeOK
    <3>2. CASE event # "recycle"
      BY <2>1, <2>4, <3>2 DEF LifecycleEvent
    <3> QED
      BY <3>1, <3>2
  <2> HIDE DEF Legal
  <2> QED
    BY <2>1, <2>2, <2>3, <2>4, StateWriters DEF OnlyInvalidates, Validates, Publishes, Records
<1> QED
  BY <1>1, AggregateTypes, PTL DEF Spec, LegalTransitions

(* Recycling is terminal (RecycledIsFrozen): the handlers of the item refuse *)
(* it as closed, and those of its model leave its state and history alone.  *)
THEOREM RecycledStaysFrozen == Spec => RecycledIsFrozen
<1> DEFINE Rows(i) == \A v \in ValueIds : (value[v].owner = i \/ value'[v].owner = i) => value'[v] = value[v]
           Links(i) == \A l \in links' \ links : value[l[2]].owner # i
           State(i) == /\ pstate'[i] = pstate[i] /\ lifecycle'[i] = lifecycle[i]
                       /\ versions'[i] = versions[i] /\ active'[i] = active[i]
           Frozen(i) == State(i) /\ Rows(i) /\ Links(i)
           Step == \A i \in Items : lifecycle[i] = "recycled" =>
             /\ pstate'[i] = pstate[i] /\ lifecycle'[i] = lifecycle[i]
             /\ versions'[i] = versions[i] /\ active'[i] = active[i]
             /\ \A v \in ValueIds : (value[v].owner = i \/ value'[v].owner = i) => value'[v] = value[v]
             /\ \A l \in links' \ links : value[l[2]].owner # i
<1>1. TypeOK /\ RecycledTogether /\ [Next]_vars => [Step]_vars
  <2> SUFFICES ASSUME TypeOK, RecycledTogether, [Next]_vars, NEW i \in Items, lifecycle[i] = "recycled" PROVE Frozen(i)
    OBVIOUS
  <2>1. Closed(i) /\ pstate[i] = "recycled" /\ i # None /\ i \notin Models
    BY AggregateAssumption DEF Closed, RecycledTogether
  <2>2. ASSUME NEW S PROVE AfterInvalidating(S)[i] = pstate[i]
    BY <2>1 DEF AfterInvalidating, Invalidated, PublishedStates
  <2>3. ASSUME NEW v \in ValueIds, NEW o \in Owners, NEW f \in Fields, NEW c \in Contents, CreateValue(v, o, f, c)
        PROVE Frozen(i)
    <3> DEFINE new == [x \in {v} |-> Row(o, f, c, "unvalidated")]
    <3>1. o # i
      BY <2>1, <2>3 DEF CreateValue, OwnerWritable
    <3>2. DOMAIN new \subseteq Fresh /\ \A x \in DOMAIN new : new[x].owner = o
      BY <2>3 DEF CreateValue, Row
    <3>3. \A x \in Prior(o, f) : value[x].owner = o
      BY PriorType, CurrentsMember
    <3>4. value' = Inserted(new, Prior(o, f))
      BY <2>3 DEF CreateValue
    <3> HIDE DEF new
    <3>5. Rows(i)
      BY <2>1, <3>1, <3>2, <3>3, <3>4, InsertedFrame
    <3> QED
      BY <2>2, <2>3, <3>5 DEF CreateValue
  <2>4. ASSUME NEW v \in ValueIds, (\E usable : ValidateValue(v, usable)) \/ RejectValue(v) PROVE Frozen(i)
    <3>1. value[v].owner # i
      BY <2>1, <2>4 DEF ValidateValue, RejectValue, OwnerWritable
    <3>2. \A w \in ValueIds : value'[w].owner = value[w].owner /\ (w # v => value'[w] = value[w])
      BY <2>4 DEF ValidateValue, RejectValue, TypeOK, ValueRow
    <3> QED
      BY <2>2, <2>4, <3>1, <3>2 DEF ValidateValue, RejectValue
  <2>5. ASSUME NEW e \in Evidence, NEW v \in ValueIds, LinkEvidence(e, v) PROVE Frozen(i)
    <3>1. value[v].owner # i /\ \A l \in links' \ links : l[2] = v
      BY <2>1, <2>5 DEF LinkEvidence, OwnerWritable
    <3> QED
      BY <2>2, <2>5, <3>1 DEF LinkEvidence
  <2>6. ASSUME NEW m \in Models, NEW S \in SUBSET Fresh, NEW sub \in [S -> Submission], NEW last \in SUBSET S,
               AcceptSubmissions(m, sub, last)
        PROVE Frozen(i)
    <3> DEFINE new == [v \in DOMAIN sub |->
          IF v \in last THEN Row(m, sub[v].field, sub[v].content, "submitted")
          ELSE [Row(m, sub[v].field, sub[v].content, "superseded") EXCEPT !.current = FALSE]]
    <3> DEFINE prior == UNION {Prior(m, f) : f \in {sub[v].field : v \in DOMAIN sub}}
    <3>1. DOMAIN new \subseteq Fresh /\ \A v \in DOMAIN new : new[v].owner = m
      BY DEF Row
    <3>2. \A v \in prior : value[v].owner = m
      BY PriorType, CurrentsMember
    <3>3. value' = Inserted(new, prior)
      BY <2>6 DEF AcceptSubmissions
    <3>4. \A l \in links' \ links : l[2] \in S
      BY <2>6 DEF AcceptSubmissions
    <3>5. Links(i)
      BY <2>1, <3>4 DEF Fresh, NoRow
    <3> HIDE DEF new, prior
    <3>6. Rows(i)
      BY <2>1, <3>1, <3>2, <3>3, InsertedFrame, ZenonT(40)
    <3> QED
      BY <2>2, <2>6, <3>5, <3>6 DEF AcceptSubmissions
  <2>7. ASSUME UNCHANGED <<value, links>>, State(i) PROVE Frozen(i)
    BY <2>7
  <2>8. ASSUME NEW j \in Items, NEW usable \in SUBSET Verified, ValidatePassport(j, usable) \/ Publish(j, usable)
        PROVE Frozen(i)
    <3>1. j # i
      BY <2>1, <2>8 DEF ValidatePassport, Publish
    <3> QED
      BY <2>7, <2>8, <3>1 DEF ValidatePassport, Publish, TypeOK
  <2>9. ASSUME NEW j \in Items, NEW event \in EventKinds, NEW prior \in 0..MaxVersions, LifecycleEvent(j, event, prior)
        PROVE Frozen(i)
    <3>1. j # i
      BY <2>1, <2>9 DEF LifecycleEvent
    <3>2. pstate'[i] = pstate[i] /\ lifecycle'[i] = lifecycle[i]
      BY <2>2, <2>9, <3>1 DEF LifecycleEvent, TypeOK
    <3> QED
      BY <2>7, <2>9, <3>2 DEF LifecycleEvent
  <2> HIDE DEF Frozen
  <2>10. CASE UNCHANGED <<value, links, lifecycle, versions, active>>
              /\ (pstate' = pstate \/ \E S : pstate' = AfterInvalidating(S))
    BY <2>2, <2>7, <2>10
  <2> QED
    BY <2>3, <2>4, <2>5, <2>6, <2>8, <2>9, <2>10 DEF Next, CreateItem, ReviewApplicability, Telemetry, AdvanceEvidence,
       RejectEvidence, vars
<1> QED
  BY <1>1, AggregateTypes, RecycledAgrees, PTL DEF Spec, RecycledIsFrozen

-----------------------------------------------------------------------------
(* PassportTx: what holds of the transactions between their commits *)

(* A row belongs to an owner that is there, and a link to a row that is.    *)
RowsOwned ==
  /\ \A v \in ValueIds : value[v] # NoRow =>
       value[v].owner \in Owners /\ (value[v].owner \in Items => Exists(value[v].owner))
  /\ \A l \in links : value[l[2]] # NoRow

(* What the unlocked reads of request r found, as far as it stays so; S are *)
(* the values a rejection found linked.                                     *)
Known(r, S) ==
  /\ r.op \in ItemOps => Exists(r.item)
  /\ r.op = "createValue" => (r.owner \in Items => Exists(r.owner))
  /\ r.op \in {"validateValue", "rejectValue", "link"} => value[r.val] # NoRow
  /\ r.op = "link" => evidence[r.evidence] # "absent"
  /\ r.op = "rejectEvidence" => \A v \in S : v \in ValueIds /\ value[v] # NoRow

(* The rows r must hold: the model its reads and writes stay under, or the  *)
(* models of the values a rejection found linked, and its evidence.         *)
Needs(r, S) ==
  EvidenceOf(r) \cup
  (IF r.op = "rejectEvidence" THEN {ModelOfOwner(value[v].owner) : v \in S} ELSE {ModelOfOwner(OwnerOf(r))})

(* What r decided on, and the data it kept, would be the same now.          *)
Stands(r, kept) ==
  /\ r.op = "createValue" => OwnerWritable(r.owner) /\ kept = Prior(r.owner, r.field)
  /\ r.op = "validateValue" =>
       /\ OwnerWritable(value[r.val].owner) /\ Reviewable(r.val) /\ Linked(r.val) \cap Verified # {}
       /\ kept = (value[r.val].status = "validated")
  /\ r.op = "rejectValue" => OwnerWritable(value[r.val].owner) /\ value[r.val].current
  /\ r.op = "link" => OwnerWritable(value[r.val].owner) /\ evidence[r.evidence] # "rejected"
  /\ r.op = "accept" =>
       /\ \A s \in r.subs : \A e \in s.evidence : evidence[e] \notin {"absent", "rejected"}
       /\ kept = UNION {Prior(r.model, s.field) : s \in r.subs}
  /\ r.op \in ItemOps => ~Closed(r.item)
  /\ r.op = "validatePassport" =>
       \E usable \in {{}, Verified} :
         /\ ValidationAllowed(pstate[r.item], Publishable(r.item, usable))
         /\ kept = ValidationTarget(pstate[r.item], Publishable(r.item, usable))
  /\ r.op = "publish" =>
       /\ pstate[r.item] \in {"ready", "updated"}
       /\ Publishable(r.item, Verified) /\ kept = NextVersion(r.item)
  /\ r.op = "event" =>
       /\ r.event \in LineageEvents => r.prior # 0
       /\ r.prior # 0 => r.prior = Len(versions[r.item])
       /\ r.event = "recycle" => CanTransition(pstate[r.item], "recycled")
  /\ r.op = "rejectEvidence" => <<evidence[r.evidence], "rejected">> \in EvidenceMoves /\ kept = LinkedValues(r.evidence)

(* A transaction that takes its locks has asked for all it needs ...        *)
Locking(r, want, seen, status) ==
  /\ r \in Requests /\ Known(r, seen) /\ Needs(r, seen) \subseteq want
  /\ r.op = "rejectEvidence" => <<status, "rejected">> \in EvidenceMoves

(* ... and one that writes holds it, so that its decision stands.           *)
Writing(r, kept, held) ==
  r \in Requests /\ Known(r, kept) /\ Needs(r, kept) \subseteq held /\ Stands(r, kept)

TxOK(p) ==
  \/ tx[p].phase = "idle"
  \/ tx[p].phase = "locking" /\ Locking(tx[p].req, tx[p].want, tx[p].seen, tx[p].status)
  \/ tx[p].phase = "writing" /\ Writing(tx[p].req, tx[p].data, Held(p))

TxInv ==
  /\ DOMAIN tx = Procs /\ holder \in [Resource -> Procs \cup {None}]
  /\ \A p \in Procs : TxOK(p)

(* What the fields of a request are.                                        *)
Formed(r) ==
  /\ r.op \in ItemOps => r.item \in Items
  /\ r.op = "event" => r.event \in EventKinds /\ r.prior \in 0..MaxVersions
  /\ r.op = "createValue" => r.owner \in Owners /\ r.field \in Fields /\ r.content \in Contents
  /\ r.op \in {"validateValue", "rejectValue", "link"} => r.val \in ValueIds
  /\ r.op \in {"link", "rejectEvidence"} => r.evidence \in Evidence
  /\ r.op = "review" =>
       r.model \in Models /\ r.fields \subseteq Fields /\ \A f \in r.fields : RequirementOf[r.model][f] = "conditional"
  /\ r.op = "accept" =>
       /\ r.model \in Models /\ r.subs \subseteq Submission
       /\ IsFiniteSet(r.subs) /\ Cardinality(r.subs) \in 1..MaxSubmitted
       /\ \A s, t \in r.subs : s.field = t.field => s = t
  /\ r.op \in ItemOps \cup {"createValue", "validateValue", "rejectValue", "link", "review", "accept", "rejectEvidence"}

(* Every request has these fields, in these ranges.                         *)
LEMMA RequestsFormed == ASSUME NEW r \in Requests PROVE Formed(r)
<1> DEFINE ByItem == [op : {"validatePassport", "publish", "telemetry"}, item : Items]
           Events == [op : {"event"}, item : Items, event : EventKinds, prior : 0..MaxVersions]
           Creations == [op : {"createValue"}, owner : Owners, field : Fields, content : Contents]
           ByValue == [op : {"validateValue", "rejectValue"}, val : ValueIds]
           Linkings == [op : {"link"}, evidence : Evidence, val : ValueIds]
           Reviews == {q \in [op : {"review"}, model : Models, fields : SUBSET Fields] :
                         \A f \in q.fields : RequirementOf[q.model][f] = "conditional"}
           Submitted == {S \in SUBSET Submission : IsFiniteSet(S) /\ Cardinality(S) \in 1..MaxSubmitted
                           /\ \A s, t \in S : s.field = t.field => s = t}
           Accepts == [op : {"accept"}, model : Models, subs : Submitted]
           Rejections == [op : {"rejectEvidence"}, evidence : Evidence]
<1>1. Requests = ByItem \cup Events \cup Creations \cup ByValue \cup Linkings
                   \cup Reviews \cup Accepts \cup Rejections
  BY DEF Requests
<1>2. r \in ByItem \/ r \in Events \/ r \in Creations \/ r \in ByValue => Formed(r)
  BY DEF Formed, ItemOps
<1>3. r \in Linkings \/ r \in Rejections => Formed(r)
  BY DEF Formed, ItemOps
<1>4. r \in Reviews => Formed(r)
  BY DEF Formed, ItemOps
<1>5. r \in Accepts => Formed(r)
  <2> HIDE DEF Submitted
  <2>1. r \in Accepts => r.op = "accept" /\ r.model \in Models /\ r.subs \in Submitted
    OBVIOUS
  <2> QED
    BY <2>1 DEF Submitted, Formed, ItemOps
<1> HIDE DEF ByItem, Events, Creations, ByValue, Linkings, Reviews, Accepts, Rejections
<1> QED
  BY <1>1, <1>2, <1>3, <1>4, <1>5

-----------------------------------------------------------------------------
(* What every step of the aggregate leaves for good                         *)

(* What is there stays there: an item in its model, a row with its owner,   *)
(* an evidence object.                                                      *)
Lasting ==
  /\ \A i \in Items : Exists(i) => modelOf'[i] = modelOf[i]
  /\ \A v \in ValueIds : value[v] # NoRow => value'[v] # NoRow /\ value'[v].owner = value[v].owner
  /\ \A e \in Evidence : evidence[e] # "absent" => evidence'[e] # "absent"

(* How a handler writes rows and links: it rewrites rows of their owner or  *)
(* fills an empty one for an owner that is there, and links rows.           *)
RowsWritten ==
  /\ \A v \in ValueIds :
       \/ value'[v] = value[v]
       \/ value[v] # NoRow /\ value'[v].owner = value[v].owner
       \/ value'[v].owner \in Owners /\ value[v] = NoRow /\ (value'[v].owner \in Items => Exists(value'[v].owner))
  /\ \A l \in links' \ links : value'[l[2]] # NoRow

(* Superseding and inserting rows of one owner writes rows that way.        *)
LEMMA InsertedRows ==
  ASSUME TypeOK, NEW o \in Owners, o \in Items => Exists(o), NEW new, NEW prior, value' = Inserted(new, prior),
         DOMAIN new \subseteq Fresh, \A v \in DOMAIN new : new[v].owner = o,
         \A v \in prior : value[v].current
  PROVE  \A v \in ValueIds :
           \/ value'[v] = value[v]
           \/ value[v] # NoRow /\ value'[v].owner = value[v].owner
           \/ value'[v].owner = o /\ value[v] = NoRow
<1> TAKE v \in ValueIds
<1>1. CASE v \in DOMAIN new
  BY <1>1 DEF Inserted, Fresh
<1>2. CASE v \notin DOMAIN new /\ v \in prior
  <2>1. value'[v] = [value[v] EXCEPT !.status = "superseded", !.current = FALSE]
    BY <1>2 DEF Inserted
  <2>2. value[v] # NoRow
    BY <1>2 DEF NoRow
  <2> QED
    BY <2>1, <2>2 DEF TypeOK, ValueRow
<1>3. CASE v \notin DOMAIN new /\ v \notin prior
  BY <1>3 DEF Inserted
<1> QED
  BY <1>1, <1>2, <1>3

(* Rows written that way are owned, and stay.                               *)
LEMMA WrittenRowsOwned ==
  ASSUME TypeOK, RowsOwned, RowsWritten, \A i \in Items : Exists(i) => modelOf'[i] = modelOf[i]
  PROVE  /\ RowsOwned'
         /\ \A v \in ValueIds : value[v] # NoRow => value'[v] # NoRow /\ value'[v].owner = value[v].owner
<1>1. None \notin Owners
  BY AggregateAssumption DEF Owners
<1>2. \A i \in Items : Exists(i) => Exists(i)'
  BY DEF Exists
<1>3. ASSUME NEW v \in ValueIds, value[v] # NoRow PROVE value'[v] # NoRow /\ value'[v].owner = value[v].owner
  <2>1. value'[v].owner = value[v].owner
    BY <1>3 DEF RowsWritten
  <2>2. value[v].owner \in Owners /\ NoRow.owner = None
    BY <1>3 DEF RowsOwned, NoRow
  <2> QED
    BY <1>1, <2>1, <2>2
<1>4. ASSUME NEW v \in ValueIds, value'[v] # NoRow
      PROVE  value'[v].owner \in Owners /\ (value'[v].owner \in Items => Exists(value'[v].owner))
  BY <1>3, <1>4 DEF RowsWritten, RowsOwned
<1>5. ASSUME NEW l \in links' PROVE value'[l[2]] # NoRow
  <2>1. CASE l \in links
    BY <1>3, <2>1 DEF RowsOwned, TypeOK
  <2> QED
    BY <1>5, <2>1 DEF RowsWritten
<1> QED
  BY <1>2, <1>3, <1>4, <1>5 DEF RowsOwned

(* Every step of the aggregate keeps the rows owned, and what is there.     *)
LEMMA StepLasts ==
  ASSUME TypeOK, RowsOwned, [Next]_vars
  PROVE  RowsOwned' /\ Lasting
<1>1. \A i \in Items : Exists(i) => modelOf'[i] = modelOf[i]
  BY DEF Next, vars, CreateItem, ReviewApplicability, CreateValue, ValidateValue, RejectValue, LinkEvidence,
     AcceptSubmissions, ValidatePassport, Publish, LifecycleEvent, Telemetry, AdvanceEvidence, RejectEvidence, TypeOK
<1>2. \A e \in Evidence : evidence[e] # "absent" => evidence'[e] # "absent"
  <2>1. ASSUME NEW e \in Evidence, NEW to \in EvidenceStatus, AdvanceEvidence(e, to) \/ RejectEvidence(e)
        PROVE  \A d \in Evidence : evidence[d] # "absent" => evidence'[d] # "absent"
    BY <2>1 DEF AdvanceEvidence, RejectEvidence, EvidenceMoves, TypeOK
  <2> QED
    BY <2>1 DEF Next, vars, CreateItem, ReviewApplicability, CreateValue, ValidateValue, RejectValue, LinkEvidence,
     AcceptSubmissions, ValidatePassport, Publish, LifecycleEvent, Telemetry, EvidenceStatus
<1>3. RowsWritten
  <2>1. ASSUME NEW v \in ValueIds, NEW o \in Owners, NEW f \in Fields, NEW c \in Contents, CreateValue(v, o, f, c)
        PROVE  RowsWritten
    <3> DEFINE new == [x \in {v} |-> Row(o, f, c, "unvalidated")]
    <3>1. DOMAIN new \subseteq Fresh /\ \A x \in DOMAIN new : new[x].owner = o
      BY <2>1 DEF CreateValue, Row
    <3> DEFINE prior == Prior(o, f)
    <3>2. \A x \in prior : value[x].current
      BY PriorType, CurrentsMember
    <3>3. value' = Inserted(new, prior) /\ links' = links /\ (o \in Items => Exists(o))
      BY <2>1 DEF CreateValue, OwnerWritable
    <3> HIDE DEF new, prior
    <3>4. \A x \in ValueIds :
             \/ value'[x] = value[x]
             \/ value[x] # NoRow /\ value'[x].owner = value[x].owner
             \/ value'[x].owner = o /\ value[x] = NoRow
      BY <3>1, <3>2, <3>3, InsertedRows, ZenonT(40)
    <3> QED
      BY <3>3, <3>4 DEF RowsWritten
  <2>2. ASSUME NEW v \in ValueIds, (\E usable : ValidateValue(v, usable)) \/ RejectValue(v) PROVE RowsWritten
    <3>1. \A w \in ValueIds : w # v => value'[w] = value[w]
      BY <2>2 DEF ValidateValue, RejectValue, TypeOK
    <3>2. value[v] # NoRow /\ value'[v].owner = value[v].owner
      BY <2>2 DEF ValidateValue, RejectValue, TypeOK, ValueRow
    <3>3. links' = links
      BY <2>2 DEF ValidateValue, RejectValue
    <3> QED
      BY <3>1, <3>2, <3>3 DEF RowsWritten
  <2>3. ASSUME NEW e \in Evidence, NEW v \in ValueIds, LinkEvidence(e, v) PROVE RowsWritten
    BY <2>3 DEF LinkEvidence, RowsWritten
  <2>4. ASSUME NEW m \in Models, NEW S \in SUBSET Fresh, NEW sub \in [S -> Submission], NEW last \in SUBSET S,
               AcceptSubmissions(m, sub, last)
        PROVE RowsWritten
    <3> DEFINE new == [v \in DOMAIN sub |->
          IF v \in last THEN Row(m, sub[v].field, sub[v].content, "submitted")
          ELSE [Row(m, sub[v].field, sub[v].content, "superseded") EXCEPT !.current = FALSE]]
    <3> DEFINE prior == UNION {Prior(m, f) : f \in {sub[v].field : v \in DOMAIN sub}}
    <3>1. DOMAIN new \subseteq Fresh /\ (\A v \in DOMAIN new : new[v].owner = m) /\ DOMAIN new = S
      BY DEF Row
    <3>2. \A v \in prior : value[v].current
      BY PriorType, CurrentsMember
    <3>3. value' = Inserted(new, prior)
      BY <2>4 DEF AcceptSubmissions
    <3>4. m \in Owners /\ m \notin Items /\ m # None
      BY AggregateAssumption DEF Owners
    <3>5. \A l \in links' \ links : l[2] \in S
      BY <2>4 DEF AcceptSubmissions
    <3> HIDE DEF new, prior
    <3>6. \A x \in ValueIds :
             \/ value'[x] = value[x]
             \/ value[x] # NoRow /\ value'[x].owner = value[x].owner
             \/ value'[x].owner = m /\ value[x] = NoRow
      BY <3>1, <3>2, <3>3, <3>4, InsertedRows, ZenonT(40)
    <3>7. \A x \in S : value'[x].owner = m
      BY <3>1, <3>3 DEF Inserted, Fresh
    <3>8. \A x \in S : value'[x] # NoRow
      BY <3>4, <3>7 DEF NoRow
    <3> QED
      BY <3>4, <3>5, <3>6, <3>8 DEF RowsWritten
  <2>5. CASE UNCHANGED <<value, links>>
    BY <2>5 DEF RowsWritten
  <2> QED
    BY <2>1, <2>2, <2>3, <2>4, <2>5 DEF Next, CreateItem, ReviewApplicability, ValidatePassport, Publish,
       LifecycleEvent, Telemetry, AdvanceEvidence, RejectEvidence, vars
<1> QED
  BY <1>1, <1>2, <1>3, WrittenRowsOwned DEF Lasting

-----------------------------------------------------------------------------
(* A write on a decision that still stands is a step of the aggregate       *)

(* The passport handlers.                                                   *)
LEMMA PassportWriteIsAtomic ==
  ASSUME TypeOK, NEW p, NEW r \in Requests, NEW kept, Known(r, kept), Stands(r, kept), WritePassport(p, r, kept)
  PROVE  Next
<1>1. Formed(r)
  BY RequestsFormed
<1>2. CASE r.op = "validatePassport"
  <2>1. r.item \in Items /\ Exists(r.item) /\ ~Closed(r.item)
    BY <1>1, <1>2 DEF Formed, Known, Stands, ItemOps
  <2>2. PICK usable \in {{}, Verified} :
          /\ ValidationAllowed(pstate[r.item], Publishable(r.item, usable))
          /\ kept = ValidationTarget(pstate[r.item], Publishable(r.item, usable))
    BY <1>2 DEF Stands
  <2>3. /\ pstate' = [pstate EXCEPT ![r.item] = kept]
        /\ UNCHANGED <<reviewed, applicable, modelOf, lifecycle, value, evidence, links, versions, active>>
    BY <1>2 DEF WritePassport
  <2>4. ValidatePassport(r.item, usable) /\ usable \in SUBSET Verified
    BY <2>1, <2>2, <2>3 DEF ValidatePassport
  <2> QED
    BY <2>1, <2>4 DEF Next
<1>3. CASE r.op = "publish"
  <2>1. r.item \in Items /\ Exists(r.item) /\ ~Closed(r.item)
    BY <1>1, <1>3 DEF Formed, Known, Stands, ItemOps
  <2>2. pstate[r.item] \in {"ready", "updated"} /\ Publishable(r.item, Verified) /\ kept = NextVersion(r.item)
    BY <1>3 DEF Stands
  <2>3. /\ Len(versions[r.item]) < MaxVersions
        /\ versions' = [versions EXCEPT ![r.item] = Append(@, kept)]
        /\ active' = [active EXCEPT ![r.item] = {kept.no}]
        /\ pstate' = [pstate EXCEPT ![r.item] = "published"]
        /\ UNCHANGED <<reviewed, applicable, modelOf, lifecycle, value, evidence, links>>
    BY <1>3 DEF WritePassport
  <2>4. {kept.no} = SnapshotsAfter(r.item) /\ CanTransition(pstate[r.item], "published")
    BY <2>2 DEF NextVersion, SnapshotsAfter, CanTransition, Transitions
  <2>5. Publish(r.item, Verified)
    BY <2>1, <2>2, <2>3, <2>4 DEF Publish
  <2> QED
    BY <2>1, <2>5 DEF Next
<1>4. CASE r.op \in {"event", "telemetry"}
  <2>1. r.item \in Items /\ Exists(r.item) /\ ~Closed(r.item)
    BY <1>1, <1>4 DEF Formed, Known, Stands, ItemOps
  <2>2. /\ pstate' = IF r.op = "event" /\ r.event = "recycle" THEN [pstate EXCEPT ![r.item] = "recycled"]
                     ELSE AfterInvalidating({r.item})
        /\ lifecycle' = IF r.op = "event" THEN [lifecycle EXCEPT ![r.item] = StatusAfter(r.event, @)] ELSE lifecycle
        /\ UNCHANGED <<reviewed, applicable, modelOf, value, evidence, links, versions, active>>
    BY <1>4 DEF WritePassport
  <2>3. CASE r.op = "telemetry"
    BY <2>1, <2>2, <2>3 DEF Telemetry, Next
  <2>4. CASE r.op = "event"
    <3>1. r.event \in EventKinds /\ r.prior \in 0..MaxVersions
      BY <1>1, <2>4 DEF Formed
    <3>2. LifecycleEvent(r.item, r.event, r.prior)
      BY <2>1, <2>2, <2>4 DEF LifecycleEvent, Stands
    <3> QED
      BY <2>1, <3>1, <3>2 DEF Next
  <2> QED
    BY <1>4, <2>3, <2>4
<1>5. CASE r.op = "review"
  <2>1. r.model \in Models /\ r.fields \subseteq {f \in Fields : RequirementOf[r.model][f] = "conditional"}
    BY <1>1, <1>5 DEF Formed
  <2>2. ReviewApplicability(r.model, r.fields)
    BY <1>5, <2>1 DEF WritePassport, ReviewApplicability
  <2> QED
    BY <2>1, <2>2 DEF Next
<1>6. CASE r.op = "rejectEvidence"
  <2>1. r.evidence \in Evidence /\ <<evidence[r.evidence], "rejected">> \in EvidenceMoves /\ kept = LinkedValues(r.evidence)
    BY <1>1, <1>6 DEF Formed, Stands
  <2>2. RejectEvidence(r.evidence)
    BY <1>6, <2>1 DEF WritePassport, RejectEvidence, LinkedValues
  <2> QED
    BY <2>1, <2>2 DEF Next
<1> QED
  BY <1>2, <1>3, <1>4, <1>5, <1>6 DEF WritePassport

(* The supplier acceptance: the ids its submissions took give the rows      *)
(* their submissions.                                                       *)
LEMMA AcceptanceIsAtomic ==
  ASSUME TypeOK, NEW m \in Models, NEW subs \in SUBSET Submission,
         IsFiniteSet(subs), Cardinality(subs) \in 1..MaxSubmitted,
         \A s, t \in subs : s.field = t.field => s = t,
         \A s \in subs : \A e \in s.evidence : evidence[e] \notin {"absent", "rejected"},
         NEW id \in [subs -> Fresh], \A s, t \in subs : id[s] = id[t] => s = t,
         value' = Inserted([v \in {id[s] : s \in subs} |->
                              LET s == CHOOSE t \in subs : id[t] = v
                              IN  Row(m, s.field, s.content, "submitted")],
                           UNION {Prior(m, s.field) : s \in subs}),
         links' = links \cup UNION {{<<e, id[s]>> : e \in s.evidence} : s \in subs},
         pstate' = AfterInvalidating(Affected(m)),
         UNCHANGED <<reviewed, applicable, modelOf, lifecycle, evidence, versions, active>>
  PROVE  Next
<1> DEFINE S == {id[s] : s \in subs}
           sub == [v \in S |-> CHOOSE t \in subs : id[t] = v]
           new == [v \in S |-> Row(m, sub[v].field, sub[v].content, "submitted")]
           touched == {sub[v].field : v \in S}
<1>1. /\ \A s \in subs : id[s] \in S /\ sub[id[s]] = s
      /\ \A v \in S : sub[v] \in subs /\ id[sub[v]] = v
  OBVIOUS
<1>2. S \in SUBSET Fresh /\ S # {} /\ Cardinality(S) <= MaxSubmitted
  <2>1. subs # {}
    BY FS_EmptySet
  <2>2. id \in Surjection(subs, S)
    BY DEF Surjection
  <2>3. IsFiniteSet(S) /\ Cardinality(S) <= Cardinality(subs)
    BY <2>2, FS_Surjection
  <2>4. Cardinality(S) \in Nat
    BY <2>3, FS_CardinalityType
  <2> QED
    BY <2>1, <2>3, <2>4, AggregateAssumption
<1>3. sub \in [S -> Submission]
  BY <1>1
<1>4. value' = Inserted(new, UNION {Prior(m, f) : f \in touched})
  <2>1. {Prior(m, s.field) : s \in subs} = {Prior(m, f) : f \in touched}
    <3> HIDE DEF sub, S
    <3>1. (\A s \in subs : \E v \in S : sub[v] = s) /\ \A v \in S : sub[v] \in subs
      BY <1>1
    <3>2. touched = {s.field : s \in subs}
      BY <3>1
    <3> HIDE DEF touched
    <3> QED
      BY <3>2
  <2>2. new = [v \in {id[s] : s \in subs} |->
                  LET s == CHOOSE t \in subs : id[t] = v
                  IN  Row(m, s.field, s.content, "submitted")]
    OBVIOUS
  <2> QED
    BY <2>1, <2>2
<1>5. UNION {{<<e, id[s]>> : e \in s.evidence} : s \in subs} = {l \in Evidence \X S : l[1] \in sub[l[2]].evidence}
  <2>1. \A s \in subs : s.evidence \subseteq Evidence
    BY DEF Submission
  <2> QED
    BY <1>1, <2>1
<1>6. \A v, w \in S : sub[v].field = sub[w].field => v = w
  BY <1>1
<1>7. \A v \in S : \A e \in sub[v].evidence : evidence[e] \notin {"absent", "rejected"}
  BY <1>1
<1>8. DOMAIN sub = S
  OBVIOUS
<1> HIDE DEF S, sub
<1>9. new = [v \in DOMAIN sub |-> IF v \in S THEN Row(m, sub[v].field, sub[v].content, "submitted")
               ELSE [Row(m, sub[v].field, sub[v].content, "superseded") EXCEPT !.current = FALSE]]
  BY <1>8
<1>10. AcceptSubmissions(m, sub, S)
  BY <1>2, <1>4, <1>5, <1>6, <1>7, <1>8, <1>9 DEF AcceptSubmissions
<1> QED
  BY <1>2, <1>3, <1>10 DEF Next

(* The handlers of values.                                                  *)
LEMMA ValueWriteIsAtomic ==
  ASSUME TypeOK, RowsOwned, NEW p, NEW r \in Requests, NEW kept, Known(r, kept), Stands(r, kept), WriteValues(p, r, kept)
  PROVE  Next
<1>1. Formed(r) /\ UNCHANGED <<reviewed, applicable, modelOf, lifecycle, evidence, versions, active>>
  BY RequestsFormed DEF WriteValues
<1>2. CASE r.op = "createValue"
  <2>1. r.owner \in Owners /\ r.field \in Fields /\ r.content \in Contents /\ OwnerWritable(r.owner)
        /\ kept = Prior(r.owner, r.field)
    BY <1>1, <1>2 DEF Formed, Stands
  <2>2. PICK v \in Fresh : value' = Inserted([x \in {v} |-> Row(r.owner, r.field, r.content, "unvalidated")], kept)
    BY <1>2 DEF WriteValues
  <2>3. pstate' = AfterInvalidating(Affected(r.owner)) /\ links' = links
    BY <1>2 DEF WriteValues
  <2>4. CreateValue(v, r.owner, r.field, r.content) /\ v \in ValueIds
    BY <1>1, <2>1, <2>2, <2>3 DEF CreateValue, Fresh
  <2> QED
    BY <2>1, <2>4 DEF Next
<1>3. CASE r.op = "validateValue"
  <2>1. r.val \in ValueIds /\ value[r.val] # NoRow
    BY <1>1, <1>3 DEF Formed, Known
  <2>2. /\ OwnerWritable(value[r.val].owner) /\ Reviewable(r.val) /\ Linked(r.val) \cap Verified # {}
        /\ kept = (value[r.val].status = "validated")
    BY <1>3 DEF Stands
  <2>3. /\ value' = [value EXCEPT ![r.val].status = "validated"]
        /\ pstate' = IF kept THEN pstate ELSE AfterInvalidating(Affected(value[r.val].owner))
        /\ links' = links
    BY <1>3 DEF WriteValues
  <2>4. ValidateValue(r.val, Verified)
    BY <1>1, <2>1, <2>2, <2>3 DEF ValidateValue
  <2> QED
    BY <2>1, <2>4 DEF Next
<1>4. CASE r.op = "rejectValue"
  <2>1. r.val \in ValueIds /\ value[r.val] # NoRow /\ OwnerWritable(value[r.val].owner) /\ value[r.val].current
    BY <1>1, <1>4 DEF Formed, Known, Stands
  <2>2. RejectValue(r.val)
    BY <1>1, <1>4, <2>1 DEF WriteValues, RejectValue
  <2> QED
    BY <2>1, <2>2 DEF Next
<1>5. CASE r.op = "link"
  <2>1. /\ r.val \in ValueIds /\ r.evidence \in Evidence /\ value[r.val] # NoRow
        /\ OwnerWritable(value[r.val].owner) /\ evidence[r.evidence] \notin {"absent", "rejected"}
    BY <1>1, <1>5 DEF Formed, Known, Stands
  <2>2. LinkEvidence(r.evidence, r.val)
    BY <1>1, <1>5, <2>1 DEF WriteValues, LinkEvidence
  <2> QED
    BY <2>1, <2>2 DEF Next
<1>6. CASE r.op = "accept"
  <2>1. /\ r.model \in Models /\ r.subs \in SUBSET Submission
        /\ IsFiniteSet(r.subs) /\ Cardinality(r.subs) \in 1..MaxSubmitted
        /\ \A s, t \in r.subs : s.field = t.field => s = t
    BY <1>1, <1>6 DEF Formed
  <2>2. /\ \A s \in r.subs : \A e \in s.evidence : evidence[e] \notin {"absent", "rejected"}
        /\ kept = UNION {Prior(r.model, s.field) : s \in r.subs}
    BY <1>6 DEF Stands
  <2>3. PICK id \in [r.subs -> Fresh] :
             /\ \A s, t \in r.subs : id[s] = id[t] => s = t
             /\ value' = Inserted([v \in {id[s] : s \in r.subs} |->
                          LET s == CHOOSE t \in r.subs : id[t] = v
                          IN  Row(r.model, s.field, s.content, "submitted")], kept)
             /\ links' = links \cup UNION {{<<e, id[s]>> : e \in s.evidence} : s \in r.subs}
    BY <1>6 DEF WriteValues
  <2>4. pstate' = AfterInvalidating(Affected(r.model))
    BY <1>6 DEF WriteValues
  <2> DEFINE subs == r.subs
             m == r.model
  <2> HIDE DEF subs, m
  <2> QED
    BY <1>1, <2>1, <2>2, <2>3, <2>4, AcceptanceIsAtomic
<1> QED
  BY <1>2, <1>3, <1>4, <1>5, <1>6 DEF WriteValues

-----------------------------------------------------------------------------
(* What a write can reach *)

(* An owner is the model m or an item of it.                                *)
Under(o, m) == o = m \/ (o \in Items /\ modelOf[o] = m)

(* The step leaves alone whatever a decision under the lock of model m can  *)
(* have read, and takes back no verification it can have relied on.         *)
Undisturbed(m) ==
  /\ m \in reviewed' <=> m \in reviewed
  /\ applicable'[m] = applicable[m]
  /\ \A i \in Items : modelOf[i] = m =>
       modelOf'[i] = m /\ pstate'[i] = pstate[i] /\ lifecycle'[i] = lifecycle[i] /\ versions'[i] = versions[i]
  /\ \A v \in ValueIds : Under(value[v].owner, m) \/ Under(value'[v].owner, m) =>
       value'[v] = value[v] /\ Linked(v)' = Linked(v) /\ Linked(v) \cap Verified \subseteq Verified'

(* The step leaves alone what is read under the lock of an evidence row.    *)
EvidenceUndisturbed(e) == evidence'[e] = evidence[e] /\ LinkedValues(e)' = LinkedValues(e)

(* A model is neither an item nor None, and no item is None.                *)
LEMMA OwnersApart == \A m \in Models : m \notin Items /\ m # None /\ \A i \in Items : i # None
  BY AggregateAssumption

(* What is under model m has m for its home.                                *)
LEMMA UnderHome == \A m \in Models, o \in Owners : Under(o, m) <=> ModelOfOwner(o) = m
  BY OwnersApart DEF Under, ModelOfOwner, Owners

(* A write for one owner, as the handlers of values do it, disturbs only    *)
(* the model of that owner.                                                 *)
LEMMA OwnerFootprint ==
  ASSUME TypeOK, NEW o \in Owners, NEW m \in Models, ModelOfOwner(o) # m,
         pstate' = AfterInvalidating(Affected(o)) \/ pstate' = pstate,
         UNCHANGED <<reviewed, applicable, modelOf, lifecycle, evidence, versions>>,
         \A v \in ValueIds : value'[v] # value[v] \/ Linked(v)' # Linked(v)
                               => value[v].owner \in {o, None} /\ value'[v].owner = o
  PROVE  Undisturbed(m)
<1>1. ~Under(o, m) /\ ~Under(None, m)
  BY UnderHome, OwnersApart DEF Under
<1>2. ASSUME NEW i \in Items, modelOf[i] = m PROVE pstate'[i] = pstate[i]
  <2>1. i \notin Affected(o)
    BY <1>1, <1>2 DEF Affected, Under
  <2> QED
    BY <2>1 DEF AfterInvalidating
<1>3. \A v \in ValueIds : Under(value[v].owner, m) \/ Under(value'[v].owner, m) =>
        value'[v] = value[v] /\ Linked(v)' = Linked(v)
  BY <1>1
<1>4. Verified' = Verified
  BY DEF Verified
<1> QED
  BY <1>2, <1>3, <1>4 DEF Undisturbed

(* A write to the row of one item disturbs only its model.                  *)
LEMMA ItemFootprint ==
  ASSUME TypeOK, NEW i \in Items, NEW m \in Models, modelOf[i] # m,
         \A j \in Items : j # i => pstate'[j] = pstate[j] /\ lifecycle'[j] = lifecycle[j] /\ versions'[j] = versions[j],
         UNCHANGED <<reviewed, applicable, modelOf, value, evidence, links>>
  PROVE  Undisturbed(m)
  BY DEF Undisturbed, Linked, Verified

(* The handlers of values disturb only what they have locked.               *)
LEMMA ValueFootprint ==
  ASSUME TypeOK, RowsOwned, NEW p, NEW r \in Requests, NEW kept, Known(r, kept), Stands(r, kept), WriteValues(p, r, kept)
  PROVE  /\ \A m \in Models : m \notin Needs(r, kept) => Undisturbed(m)
         /\ \A e \in Evidence : e \notin Needs(r, kept) => EvidenceUndisturbed(e)
<1>1. Formed(r) /\ UNCHANGED <<reviewed, applicable, modelOf, lifecycle, evidence, versions, active>>
  BY RequestsFormed DEF WriteValues
<1>2. r.op # "rejectEvidence" => Needs(r, kept) = EvidenceOf(r) \cup {ModelOfOwner(OwnerOf(r))}
  BY DEF Needs
<1>3. CASE r.op = "createValue"
  <2> DEFINE o == r.owner
  <2>1. o \in Owners /\ OwnerOf(r) = o /\ kept = Prior(o, r.field)
    BY <1>1, <1>3 DEF Formed, Stands, OwnerOf, ItemOps
  <2>2. PICK v \in Fresh : value' = Inserted([x \in {v} |-> Row(o, r.field, r.content, "unvalidated")], kept)
    BY <1>3 DEF WriteValues
  <2>3. pstate' = AfterInvalidating(Affected(o)) /\ links' = links
    BY <1>3 DEF WriteValues
  <2> DEFINE new == [x \in {v} |-> Row(o, r.field, r.content, "unvalidated")]
  <2>4. DOMAIN new \subseteq Fresh /\ (\A x \in DOMAIN new : new[x].owner = o) /\ value' = Inserted(new, kept)
    BY <2>2 DEF Row
  <2>5. \A x \in kept : value[x].owner = o
    BY <2>1, PriorType, CurrentsMember
  <2> HIDE DEF new, o
  <2>6. \A w \in ValueIds : value'[w] # value[w] => value[w].owner \in {o, None} /\ value'[w].owner = o
    BY <2>4, <2>5, InsertedFrame, ZenonT(40)
  <2>7. \A w \in ValueIds : Linked(w)' = Linked(w)
    BY <2>3 DEF Linked
  <2>8. \A m \in Models : m # ModelOfOwner(o) => Undisturbed(m)
    BY <1>1, <2>1, <2>3, <2>6, <2>7, OwnerFootprint
  <2>9. \A e \in Evidence : EvidenceUndisturbed(e)
    BY <1>1, <2>3 DEF EvidenceUndisturbed, LinkedValues
  <2> QED
    BY <1>2, <1>3, <2>1, <2>8, <2>9
<1>4. CASE r.op \in {"validateValue", "rejectValue", "link"}
  <2> DEFINE o == value[r.val].owner
  <2>1. r.val \in ValueIds /\ OwnerOf(r) = o /\ o \in Owners
    BY <1>1, <1>4 DEF Formed, Known, RowsOwned, OwnerOf, ItemOps
  <2>2. pstate' = AfterInvalidating(Affected(o)) \/ pstate' = pstate
    BY <1>4 DEF WriteValues
  <2>3. \A w \in ValueIds : value'[w] # value[w] => w = r.val /\ value'[w].owner = o
    <3>1. value[r.val] \in ValueRow /\ value \in [ValueIds -> ValueRow]
      BY <2>1 DEF TypeOK
    <3>2. \/ value' = value
          \/ value' = [value EXCEPT ![r.val].status = "validated"]
          \/ value' = [value EXCEPT ![r.val].status = "rejected", ![r.val].current = FALSE]
      BY <1>4 DEF WriteValues
    <3> QED
      BY <2>1, <3>1, <3>2 DEF ValueRow
  <2>4. \A w \in ValueIds : Linked(w)' # Linked(w) => w = r.val
    BY <1>4 DEF WriteValues, Linked
  <2>5. \A w \in ValueIds : value'[w] # value[w] \/ Linked(w)' # Linked(w) => value[w].owner = o /\ value'[w].owner = o
    BY <2>3, <2>4
  <2>6. \A e \in Evidence : e \notin EvidenceOf(r) => EvidenceUndisturbed(e)
    BY <1>1, <1>4 DEF WriteValues, EvidenceUndisturbed, LinkedValues, EvidenceOf
  <2> HIDE DEF o
  <2>7. \A m \in Models : m # ModelOfOwner(o) => Undisturbed(m)
    BY <1>1, <2>1, <2>2, <2>5, OwnerFootprint
  <2> QED
    BY <1>2, <1>4, <2>1, <2>6, <2>7
<1>5. CASE r.op = "accept"
  <2> DEFINE o == r.model
             S == UNION {s.evidence : s \in r.subs}
  <2>1. o \in Models /\ o \in Owners /\ OwnerOf(r) = o /\ kept = UNION {Prior(o, s.field) : s \in r.subs}
        /\ EvidenceOf(r) = S
    BY <1>1, <1>5 DEF Formed, Stands, OwnerOf, ItemOps, Owners, EvidenceOf
  <2>2. PICK id \in [r.subs -> Fresh] :
             /\ value' = Inserted([v \in {id[s] : s \in r.subs} |->
                          LET s == CHOOSE t \in r.subs : id[t] = v
                          IN  Row(o, s.field, s.content, "submitted")], kept)
             /\ links' = links \cup UNION {{<<e, id[s]>> : e \in s.evidence} : s \in r.subs}
    BY <1>5 DEF WriteValues
  <2>3. pstate' = AfterInvalidating(Affected(o))
    BY <1>5 DEF WriteValues
  <2> DEFINE ids == {id[s] : s \in r.subs}
             new == [v \in ids |-> LET s == CHOOSE t \in r.subs : id[t] = v
                                   IN  Row(o, s.field, s.content, "submitted")]
  <2>4. DOMAIN new \subseteq Fresh /\ DOMAIN new = ids /\ (\A x \in ids : new[x].owner = o) /\ value' = Inserted(new, kept)
    BY <2>2 DEF Row
  <2>5. \A x \in kept : value[x].owner = o
    BY <2>1, PriorType, CurrentsMember
  <2>6. \A l \in links' \ links : l[2] \in ids /\ l[1] \in S
    BY <2>2
  <2> HIDE DEF new, ids, o, S
  <2>7. \A w \in ValueIds : value'[w] # value[w] => value[w].owner \in {o, None} /\ value'[w].owner = o
    BY <2>4, <2>5, InsertedFrame, ZenonT(40)
  <2>8. \A w \in ids : w \in ValueIds /\ value[w].owner = None /\ value'[w].owner = o
    <3> TAKE w \in ids
    <3>1. w \in ValueIds /\ value[w] = NoRow /\ w \in DOMAIN new
      BY <2>4 DEF Fresh
    <3>2. value'[w] = new[w]
      BY <2>4, <3>1 DEF Inserted
    <3> QED
      BY <2>4, <3>1, <3>2 DEF NoRow
  <2>9. links \subseteq links'
    BY <2>2
  <2>10. \A w \in ValueIds : Linked(w)' # Linked(w) => w \in ids
    BY <2>6, <2>9 DEF Linked
  <2>11. \A w \in ValueIds : value'[w] # value[w] \/ Linked(w)' # Linked(w)
                               => value[w].owner \in {o, None} /\ value'[w].owner = o
    BY <2>7, <2>8, <2>10
  <2>12. \A m \in Models : m # ModelOfOwner(o) => Undisturbed(m)
    BY <1>1, <2>1, <2>3, <2>11, OwnerFootprint
  <2>13. \A e \in Evidence : e \notin S => EvidenceUndisturbed(e)
    BY <1>1, <2>6, <2>9 DEF EvidenceUndisturbed, LinkedValues
  <2> QED
    BY <1>2, <1>5, <2>1, <2>12, <2>13
<1> QED
  BY <1>3, <1>4, <1>5 DEF WriteValues

(* So do the passport handlers.                                             *)
LEMMA PassportFootprint ==
  ASSUME TypeOK, RowsOwned, NEW p, NEW r \in Requests, NEW kept, Known(r, kept), Stands(r, kept), WritePassport(p, r, kept)
  PROVE  /\ \A m \in Models : m \notin Needs(r, kept) => Undisturbed(m)
         /\ \A e \in Evidence : e \notin Needs(r, kept) => EvidenceUndisturbed(e)
<1>1. Formed(r)
  BY RequestsFormed
<1>2. CASE r.op \in ItemOps
  <2> DEFINE i == r.item
  <2>1. i \in Items /\ ModelOfOwner(OwnerOf(r)) \in Needs(r, kept) /\ ModelOfOwner(OwnerOf(r)) = modelOf[i]
    BY <1>1, <1>2 DEF Formed, Needs, OwnerOf, ItemOps, ModelOfOwner
  <2>2. UNCHANGED <<reviewed, applicable, modelOf, value, evidence, links>>
    BY <1>2 DEF WritePassport, ItemOps
  <2>3. \A j \in Items : j # i => pstate'[j] = pstate[j] /\ lifecycle'[j] = lifecycle[j] /\ versions'[j] = versions[j]
    <3>1. CASE r.op = "validatePassport"
      BY <3>1 DEF WritePassport, TypeOK
    <3>2. CASE r.op = "publish"
      BY <3>2 DEF WritePassport, TypeOK
    <3>3. CASE r.op \in {"event", "telemetry"}
      <4>1. \A j \in Items : j # i => pstate'[j] = pstate[j]
        BY <3>3 DEF WritePassport, TypeOK, AfterInvalidating
      <4>2. versions' = versions /\ \A j \in Items : j # i => lifecycle'[j] = lifecycle[j]
        BY <3>3 DEF WritePassport, TypeOK
      <4> QED
        BY <4>1, <4>2
    <3> QED
      BY <1>2, <3>1, <3>2, <3>3 DEF ItemOps
  <2> HIDE DEF i
  <2>4. \A m \in Models : m # modelOf[i] => Undisturbed(m)
    BY <2>1, <2>2, <2>3, ItemFootprint
  <2>5. \A e \in Evidence : EvidenceUndisturbed(e)
    BY <2>2 DEF EvidenceUndisturbed, LinkedValues
  <2> QED
    BY <2>1, <2>4, <2>5
<1>3. CASE r.op = "review"
  <2>1. r.model \in Models /\ r.model \in Needs(r, kept)
    BY <1>1, <1>3, OwnersApart DEF Formed, Needs, OwnerOf, ItemOps, ModelOfOwner
  <2>2. /\ reviewed' = reviewed \cup {r.model}
        /\ applicable' = [applicable EXCEPT ![r.model] = r.fields]
        /\ pstate' = AfterInvalidating(Affected(r.model))
        /\ UNCHANGED <<modelOf, lifecycle, value, evidence, links, versions, active>>
    BY <1>3 DEF WritePassport
  <2>3. ASSUME NEW m \in Models, m # r.model PROVE Undisturbed(m)
    <3>1. \A i \in Items : modelOf[i] = m => pstate'[i] = pstate[i]
      BY <2>1, <2>2, <2>3, OwnersApart DEF Affected, AfterInvalidating
    <3>2. applicable'[m] = applicable[m] /\ (m \in reviewed' <=> m \in reviewed)
      BY <2>1, <2>2, <2>3 DEF TypeOK
    <3>3. Verified' = Verified /\ \A v \in ValueIds : Linked(v)' = Linked(v)
      BY <2>2 DEF Verified, Linked
    <3> QED
      BY <2>2, <3>1, <3>2, <3>3 DEF Undisturbed
  <2>4. \A e \in Evidence : EvidenceUndisturbed(e)
    BY <2>2 DEF EvidenceUndisturbed, LinkedValues
  <2> QED
    BY <2>1, <2>3, <2>4
<1>4. CASE r.op = "rejectEvidence"
  <2> DEFINE e == r.evidence
  <2>1. e \in Evidence /\ kept = LinkedValues(e) /\ e \in Needs(r, kept)
        /\ \A v \in kept : ModelOfOwner(value[v].owner) \in Needs(r, kept)
    BY <1>1, <1>4 DEF Formed, Stands, Needs, EvidenceOf
  <2>2. /\ evidence' = [evidence EXCEPT ![e] = "rejected"]
        /\ pstate' = AfterInvalidating(UNION {Affected(value[v].owner) : v \in kept})
        /\ UNCHANGED <<reviewed, applicable, modelOf, lifecycle, value, links, versions, active>>
    BY <1>4 DEF WritePassport
  <2>3. \A v \in kept : v \in ValueIds /\ value[v].owner \in Owners
    BY <2>1 DEF RowsOwned, LinkedValues
  <2> HIDE DEF e
  <2>4. ASSUME NEW m \in Models, m \notin Needs(r, kept) PROVE Undisturbed(m)
    <3>1. \A v \in kept : ~Under(value[v].owner, m)
      BY <2>1, <2>3, <2>4, UnderHome
    <3>2. ASSUME NEW i \in Items, modelOf[i] = m PROVE pstate'[i] = pstate[i]
      <4>1. \A v \in kept : i \notin Affected(value[v].owner)
        BY <3>1, <3>2 DEF Affected, Under
      <4> QED
        BY <2>2, <4>1 DEF AfterInvalidating
    <3>3. ASSUME NEW v \in ValueIds, Under(value[v].owner, m) \/ Under(value'[v].owner, m)
          PROVE  value'[v] = value[v] /\ Linked(v)' = Linked(v) /\ Linked(v) \cap Verified \subseteq Verified'
      <4>1. value'[v] = value[v] /\ Linked(v)' = Linked(v)
        BY <2>2 DEF Linked
      <4>2. v \notin kept
        BY <3>1, <3>3, <4>1
      <4>3. e \notin Linked(v)
        BY <2>1, <4>2 DEF Linked, LinkedValues
      <4>4. Verified \ {e} \subseteq Verified'
        BY <2>2 DEF Verified, TypeOK
      <4> QED
        BY <4>1, <4>3, <4>4
    <3> QED
      BY <2>2, <3>2, <3>3 DEF Undisturbed
  <2>5. ASSUME NEW d \in Evidence, d # e PROVE EvidenceUndisturbed(d)
    BY <2>2, <2>5 DEF EvidenceUndisturbed, LinkedValues, TypeOK
  <2> QED
    BY <2>1, <2>4, <2>5
<1> QED
  BY <1>2, <1>3, <1>4 DEF WritePassport, ItemOps

(* The writers without row locks disturb no model, and of the evidence only *)
(* the row they write.                                                      *)
LEMMA UnlockedFootprint ==
  ASSUME TypeOK, RowsOwned
  PROVE  /\ \A i \in Items, m \in Models : CreateItem(i, m) =>
              (\A n \in Models : Undisturbed(n)) /\ \A e \in Evidence : EvidenceUndisturbed(e)
         /\ \A d \in Evidence, to \in EvidenceStatus : AdvanceEvidence(d, to) =>
              (\A n \in Models : Undisturbed(n)) /\ \A e \in Evidence : e # d => EvidenceUndisturbed(e)
<1>1. ASSUME NEW i \in Items, NEW m \in Models, CreateItem(i, m)
      PROVE  (\A n \in Models : Undisturbed(n)) /\ \A e \in Evidence : EvidenceUndisturbed(e)
  <2>1. UNCHANGED <<reviewed, applicable, pstate, lifecycle, value, evidence, links, versions>>
        /\ \A j \in Items : modelOf[j] # None => modelOf'[j] = modelOf[j]
    BY <1>1 DEF CreateItem, Exists, TypeOK
  <2>2. Verified' = Verified /\ \A v \in ValueIds : Linked(v)' = Linked(v)
    BY <2>1 DEF Verified, Linked
  <2>3. \A n \in Models : Undisturbed(n)
    BY <2>1, <2>2, OwnersApart DEF Undisturbed
  <2> QED
    BY <2>1, <2>3 DEF EvidenceUndisturbed, LinkedValues
<1>2. ASSUME NEW d \in Evidence, NEW to \in EvidenceStatus, AdvanceEvidence(d, to)
      PROVE  (\A n \in Models : Undisturbed(n)) /\ \A e \in Evidence : e # d => EvidenceUndisturbed(e)
  <2>1. /\ UNCHANGED <<reviewed, applicable, modelOf, pstate, lifecycle, value, links, versions, active>>
        /\ evidence' = [evidence EXCEPT ![d] = to]
    BY <1>2 DEF AdvanceEvidence
  <2>2. Verified \subseteq Verified'
    BY <1>2 DEF AdvanceEvidence, EvidenceMoves, Verified, TypeOK
  <2>3. \A v \in ValueIds : Linked(v)' = Linked(v)
    BY <2>1 DEF Linked
  <2>4. \A n \in Models : Undisturbed(n)
    BY <2>1, <2>2, <2>3 DEF Undisturbed
  <2> QED
    BY <2>1, <2>4 DEF EvidenceUndisturbed, LinkedValues, TypeOK
<1> QED
  BY <1>1, <1>2

-----------------------------------------------------------------------------
(* A decision stands while what it needs is locked                          *)

(* The rows an undisturbed model or one of its items owns are the same,     *)
(* and so are the rows to supersede.                                        *)
LEMMA OwnerStands ==
  ASSUME TypeOK, NEW o \in Owners, NEW m \in Models, ModelOfOwner(o) = m, Undisturbed(m)
  PROVE  /\ OwnerWritable(o) => OwnerWritable(o)'
         /\ \A f : Prior(o, f)' = Prior(o, f)
         /\ \A v \in ValueIds : value[v].owner = o =>
              value'[v] = value[v] /\ (Linked(v) \cap Verified # {} => (Linked(v) \cap Verified)' # {})
<1>1. Under(o, m)
  BY UnderHome
<1>2. OwnerWritable(o) => OwnerWritable(o)'
  BY <1>1, OwnersApart DEF Under, Undisturbed, OwnerWritable, Exists, Closed
<1>3. \A v \in ValueIds : value[v].owner = o \/ value'[v].owner = o =>
        value'[v] = value[v] /\ Linked(v)' = Linked(v) /\ Linked(v) \cap Verified \subseteq Verified'
  BY <1>1 DEF Undisturbed
<1>4. \A f : Currents(o, f)' = Currents(o, f)
  BY <1>3 DEF Currents
<1>5. \A f : Prior(o, f)' = Prior(o, f)
  BY <1>4 DEF Prior
<1> QED
  BY <1>2, <1>3, <1>5

(* The gate of an item of an undisturbed model lets through what it let     *)
(* through, and goes on refusing what it refused without any evidence.      *)
LEMMA ItemStands ==
  ASSUME TypeOK, NEW i \in Items, NEW m \in Models, modelOf[i] = m, Undisturbed(m)
  PROVE  /\ Exists(i) /\ modelOf'[i] = m /\ pstate'[i] = pstate[i] /\ lifecycle'[i] = lifecycle[i] /\ versions'[i] = versions[i]
         /\ View(i)' = View(i)
         /\ Publishable(i, Verified) => Publishable(i, Verified)'
         /\ Publishable(i, {})' <=> Publishable(i, {})
<1>1. Exists(i) /\ modelOf'[i] = m /\ pstate'[i] = pstate[i] /\ lifecycle'[i] = lifecycle[i] /\ versions'[i] = versions[i]
  BY OwnersApart DEF Undisturbed, Exists
<1>2. \A v \in ValueIds : value[v].owner \in {i, m} \/ value'[v].owner \in {i, m} =>
        value'[v] = value[v] /\ Linked(v)' = Linked(v) /\ Linked(v) \cap Verified \subseteq Verified'
  BY DEF Undisturbed, Under
<1>3. View(i)' = View(i)
  BY <1>1, <1>2, ViewKept
<1>4. ASSUME NEW f \in Fields PROVE View(i)[f].evidence \cap Verified \subseteq Verified'
  <2> SUFFICES ASSUME NEW e \in View(i)[f].evidence, e \in Verified PROVE e \in Verified'
    OBVIOUS
  <2>1. PICK v \in ValueIds : value[v].owner \in {i, modelOf[i]} /\ <<e, v>> \in links
    BY ViewEvidence
  <2>2. e \in Linked(v)
    BY <2>1 DEF Linked, Verified
  <2> QED
    BY <1>2, <2>1, <2>2
<1>5. KeepsGate(i)
  BY <1>1, <1>3, <1>4 DEF KeepsGate, Undisturbed
<1>6. Publishable(i, Verified) => Publishable(i, Verified)'
  BY <1>5, GateKept
<1>7. Publishable(i, {})' <=> Publishable(i, {})
  BY <1>1, <1>3 DEF Publishable, Undisturbed
<1> QED
  BY <1>1, <1>3, <1>6, <1>7

(* What a request found stays found, and so do the rows it needs.           *)
LEMMA KnownLasts ==
  ASSUME TypeOK, RowsOwned, Lasting, NEW r \in Requests, NEW S, Known(r, S)
  PROVE  Known(r, S)' /\ Needs(r, S)' = Needs(r, S)
<1>1. Formed(r)
  BY RequestsFormed
<1>2. \A i \in Items : Exists(i) => Exists(i)' /\ modelOf'[i] = modelOf[i]
  BY DEF Lasting, Exists
<1>3. Known(r, S)'
  BY <1>1, <1>2 DEF Known, Lasting, Formed
<1>4. \A v \in ValueIds : value[v] # NoRow => ModelOfOwner(value[v].owner)' = ModelOfOwner(value[v].owner)
  BY <1>2 DEF Lasting, RowsOwned, ModelOfOwner
<1>5. EvidenceOf(r)' = EvidenceOf(r)
  BY DEF EvidenceOf
<1>6. CASE r.op = "rejectEvidence"
  <2>1. {ModelOfOwner(value[v].owner) : v \in S}' = {ModelOfOwner(value[v].owner) : v \in S}
    BY <1>4, <1>6 DEF Known
  <2> QED
    BY <1>3, <1>5, <1>6, <2>1 DEF Needs
<1>7. CASE r.op # "rejectEvidence"
  <2>1. ModelOfOwner(OwnerOf(r))' = ModelOfOwner(OwnerOf(r))
    <3>1. CASE r.op \in ItemOps
      <4>1. r.item \in Items /\ Exists(r.item) /\ OwnerOf(r) = r.item /\ OwnerOf(r)' = r.item
        BY <1>1, <3>1 DEF Known, Formed, OwnerOf, ItemOps
      <4> QED
        BY <1>2, <4>1 DEF ModelOfOwner
    <3>2. CASE r.op = "createValue"
      BY <1>1, <1>2, <3>2 DEF Known, Formed, OwnerOf, ModelOfOwner, ItemOps
    <3>3. CASE r.op \in {"validateValue", "rejectValue", "link"}
      <4>1. OwnerOf(r) = value[r.val].owner /\ OwnerOf(r)' = value'[r.val].owner /\ value'[r.val].owner = value[r.val].owner
        BY <1>1, <3>3 DEF OwnerOf, ItemOps, Known, Formed, Lasting
      <4> QED
        BY <1>1, <1>2, <3>3, <4>1 DEF Known, Formed, RowsOwned, ModelOfOwner
    <3>4. CASE r.op \in {"review", "accept"}
      BY <1>1, <3>4, OwnersApart DEF Formed, OwnerOf, ModelOfOwner, ItemOps
    <3>5. r.op \in ItemOps \cup {"createValue", "validateValue", "rejectValue", "link", "review", "accept", "rejectEvidence"}
      BY <1>1 DEF Formed
    <3> QED
      BY <1>7, <3>1, <3>2, <3>3, <3>4, <3>5
  <2> QED
    BY <1>3, <1>5, <1>7, <2>1 DEF Needs
<1> QED
  BY <1>6, <1>7

(* Whatever else commits meanwhile, a decision on locked rows stands.       *)
LEMMA DecisionStands ==
  ASSUME TypeOK, RowsOwned, Lasting, NEW r \in Requests, NEW kept, Known(r, kept), Stands(r, kept),
         \A m \in Models : m \in Needs(r, kept) => Undisturbed(m),
         \A e \in Evidence : e \in Needs(r, kept) => EvidenceUndisturbed(e)
  PROVE  Stands(r, kept)'
<1>1. Formed(r)
  BY RequestsFormed
<1>2. r.op # "rejectEvidence" => ModelOfOwner(OwnerOf(r)) \in Needs(r, kept)
  BY DEF Needs
<1>3. CASE r.op = "createValue"
  <2> DEFINE o == r.owner
             m == ModelOfOwner(o)
  <2>1. o \in Owners /\ m \in Models /\ OwnerOf(r) = o
    BY <1>1, <1>3 DEF Formed, Known, OwnerOf, ItemOps, ModelOfOwner, Owners, TypeOK, Exists
  <2>2. Undisturbed(m)
    BY <1>2, <1>3, <2>1
  <2> HIDE DEF m
  <2>3. OwnerWritable(o)' /\ Prior(o, r.field)' = Prior(o, r.field)
    BY <1>3, <2>1, <2>2, OwnerStands DEF Stands, m
  <2> QED
    BY <1>3, <2>3 DEF Stands, ItemOps
<1>4. CASE r.op \in {"validateValue", "rejectValue", "link"}
  <2> DEFINE o == value[r.val].owner
             m == ModelOfOwner(o)
  <2>1. r.val \in ValueIds /\ o \in Owners /\ m \in Models /\ OwnerOf(r) = o
    BY <1>1, <1>4 DEF Formed, Known, OwnerOf, ItemOps, RowsOwned, ModelOfOwner, Owners, TypeOK, Exists
  <2>2. Undisturbed(m)
    BY <1>2, <1>4, <2>1
  <2>3. OwnerWritable(o)
    BY <1>4 DEF Stands
  <2>4. \E c, d : c = o /\ d = m
    OBVIOUS
  <2>5. PICK c, d : c = o /\ d = m
    BY <2>4
  <2>6. OwnerWritable(c)'
    BY <2>1, <2>2, <2>3, <2>5, OwnerStands
  <2>7. value'[r.val] = value[r.val] /\ (Linked(r.val) \cap Verified # {} => (Linked(r.val) \cap Verified)' # {})
    BY <2>1, <2>2, <2>5, OwnerStands
  <2>8. OwnerWritable(value[r.val].owner)'
    BY <2>5, <2>6, <2>7
  <2>9. r.op = "link" => evidence'[r.evidence] = evidence[r.evidence]
    BY <1>1 DEF Formed, Needs, EvidenceOf, EvidenceUndisturbed
  <2> QED
    BY <1>4, <2>7, <2>8, <2>9 DEF Stands, ItemOps, Reviewable
<1>5. CASE r.op = "accept"
  <2> DEFINE m == r.model
  <2>1. m \in Models /\ m \in Owners /\ ModelOfOwner(m) = m /\ OwnerOf(r) = m /\ r.subs \subseteq Submission
    BY <1>1, <1>5, OwnersApart DEF Formed, OwnerOf, ItemOps, ModelOfOwner, Owners
  <2>2. Undisturbed(m)
    BY <1>2, <1>5, <2>1
  <2>3. \A f : Prior(m, f)' = Prior(m, f)
    BY <2>1, <2>2, OwnerStands
  <2>4. (UNION {Prior(m, s.field) : s \in r.subs})' = UNION {Prior(m, s.field) : s \in r.subs}
    BY <2>3
  <2>5. \A s \in r.subs : \A e \in s.evidence : evidence'[e] = evidence[e]
    <3>1. \A s \in r.subs : \A e \in s.evidence : e \in Evidence /\ e \in Needs(r, kept)
      BY <1>5, <2>1 DEF Needs, EvidenceOf, Submission
    <3> QED
      BY <3>1 DEF EvidenceUndisturbed
  <2> QED
    BY <1>5, <2>4, <2>5 DEF Stands, ItemOps
<1>6. CASE r.op \in ItemOps
  <2> DEFINE i == r.item
  <2>1. i \in Items /\ Exists(i) /\ OwnerOf(r) = i
    BY <1>1, <1>6 DEF Formed, Known, OwnerOf, ItemOps
  <2>2. PICK m \in Models : m = modelOf[i]
    BY <2>1 DEF TypeOK, Exists
  <2>3. Undisturbed(m)
    BY <1>2, <1>6, <2>1, <2>2 DEF ModelOfOwner, ItemOps
  <2>4. /\ pstate'[i] = pstate[i] /\ lifecycle'[i] = lifecycle[i] /\ versions'[i] = versions[i] /\ View(i)' = View(i)
        /\ Publishable(i, Verified) => Publishable(i, Verified)'
        /\ Publishable(i, {})' <=> Publishable(i, {})
    BY <2>1, <2>2, <2>3, ItemStands
  <2>5. Closed(i)' <=> Closed(i)
    BY <2>4 DEF Closed
  <2>6. NextVersion(i)' = NextVersion(i)
    BY <2>4 DEF NextVersion
  <2>7. CASE r.op = "validatePassport"
    <3>1. PICK usable \in {{}, Verified} :
            /\ ValidationAllowed(pstate[i], Publishable(i, usable))
            /\ kept = ValidationTarget(pstate[i], Publishable(i, usable))
      BY <2>7 DEF Stands
    <3>2. CASE Publishable(i, usable)
      <4>1. Publishable(i, Verified)
        BY <2>1, <3>1, <3>2, GateMonotone
      <4>2. ValidationAllowed(pstate[i], Publishable(i, Verified)) /\ kept = ValidationTarget(pstate[i], Publishable(i, Verified))
        BY <3>1, <3>2, <4>1 DEF ValidationAllowed, ValidationTarget
      <4>3. (ValidationAllowed(pstate[i], Publishable(i, Verified)) /\ kept = ValidationTarget(pstate[i], Publishable(i, Verified)))'
        BY <2>4, <4>1, <4>2 DEF ValidationAllowed, ValidationTarget
      <4> QED
        BY <2>5, <2>7, <4>3 DEF Stands, ItemOps
    <3>3. CASE ~Publishable(i, usable)
      <4>1. ~Publishable(i, {})
        <5>1. \A f \in Fields : Proven(View(i)[f], {}) => Proven(View(i)[f], usable)
          BY DEF Proven
        <5> QED
          BY <3>3, <5>1 DEF Publishable, GatePasses, RequiredNow
      <4>2. ValidationAllowed(pstate[i], Publishable(i, {})) /\ kept = ValidationTarget(pstate[i], Publishable(i, {}))
        BY <3>1, <3>3, <4>1 DEF ValidationAllowed, ValidationTarget
      <4>3. (ValidationAllowed(pstate[i], Publishable(i, {})) /\ kept = ValidationTarget(pstate[i], Publishable(i, {})))'
        BY <2>4, <4>1, <4>2 DEF ValidationAllowed, ValidationTarget
      <4> QED
        BY <2>5, <2>7, <4>3 DEF Stands, ItemOps
    <3> QED
      BY <3>2, <3>3
  <2>8. CASE r.op \in {"publish", "event", "telemetry"}
    BY <2>4, <2>5, <2>6, <2>8 DEF Stands, ItemOps
  <2> QED
    BY <1>6, <2>7, <2>8 DEF ItemOps
<1>7. CASE r.op = "rejectEvidence"
  <2>1. r.evidence \in Evidence /\ r.evidence \in Needs(r, kept)
    BY <1>1, <1>7 DEF Formed, Needs, EvidenceOf
  <2>2. evidence'[r.evidence] = evidence[r.evidence] /\ LinkedValues(r.evidence)' = LinkedValues(r.evidence)
    BY <2>1 DEF EvidenceUndisturbed
  <2> QED
    BY <1>7, <2>2 DEF Stands, ItemOps
<1>8. CASE r.op = "review"
  BY <1>8 DEF Stands, ItemOps
<1> QED
  BY <1>1, <1>3, <1>4, <1>5, <1>6, <1>7, <1>8 DEF Formed

-----------------------------------------------------------------------------
(* Transactions *)

(* A step that leaves a transaction alone, and what it holds, keeps it in   *)
(* order.                                                                   *)
LEMMA OthersStayOK ==
  ASSUME TypeOK, RowsOwned, [Next]_vars, NEW q \in Procs, TxOK(q), tx'[q] = tx[q], Held(q) \subseteq Held(q)',
         \A m \in Models : m \in Held(q) => Undisturbed(m),
         \A e \in Evidence : e \in Held(q) => EvidenceUndisturbed(e)
  PROVE  TxOK(q)'
<1>1. Lasting
  BY StepLasts
<1>2. CASE tx[q].phase = "idle"
  BY <1>2 DEF TxOK
<1>3. CASE tx[q].phase = "locking" /\ Locking(tx[q].req, tx[q].want, tx[q].seen, tx[q].status)
  <2>1. \E r, want, seen, status : r = tx[q].req /\ want = tx[q].want /\ seen = tx[q].seen /\ status = tx[q].status
    OBVIOUS
  <2>2. PICK r, want, seen, status : r = tx[q].req /\ want = tx[q].want /\ seen = tx[q].seen /\ status = tx[q].status
    BY <2>1
  <2>3. Locking(r, want, seen, status)
    BY <1>3, <2>2
  <2>4. Locking(r, want, seen, status)'
    <3>1. r \in Requests /\ Known(r, seen) /\ Needs(r, seen) \subseteq want
          /\ (r.op = "rejectEvidence" => <<status, "rejected">> \in EvidenceMoves)
      BY <2>3 DEF Locking
    <3>2. Known(r, seen)' /\ Needs(r, seen)' = Needs(r, seen)
      BY <1>1, <3>1, KnownLasts
    <3> QED
      BY <3>1, <3>2 DEF Locking
  <2>5. tx'[q].phase = "locking" /\ r = tx'[q].req /\ want = tx'[q].want /\ seen = tx'[q].seen /\ status = tx'[q].status
    BY <1>3, <2>2
  <2> QED
    BY <2>4, <2>5 DEF TxOK
<1>4. CASE tx[q].phase = "writing" /\ Writing(tx[q].req, tx[q].data, Held(q))
  <2>1. \E r, kept : r = tx[q].req /\ kept = tx[q].data
    OBVIOUS
  <2>2. PICK r, kept : r = tx[q].req /\ kept = tx[q].data
    BY <2>1
  <2>3. r \in Requests /\ Known(r, kept) /\ Needs(r, kept) \subseteq Held(q) /\ Stands(r, kept)
    BY <1>4, <2>2 DEF Writing
  <2>4. Known(r, kept)' /\ Needs(r, kept)' = Needs(r, kept)
    BY <1>1, <2>3, KnownLasts
  <2>5. Stands(r, kept)'
    BY <1>1, <2>3, DecisionStands
  <2>6. Writing(r, kept, Held(q))'
    BY <2>3, <2>4, <2>5 DEF Writing
  <2>7. tx'[q].phase = "writing" /\ r = tx'[q].req /\ kept = tx'[q].data
    BY <1>4, <2>2
  <2> QED
    BY <2>6, <2>7 DEF TxOK
<1> QED
  BY <1>2, <1>3, <1>4 DEF TxOK

(* A step that writes nothing disturbs nothing.                             *)
LEMMA NothingDisturbed ==
  ASSUME UNCHANGED vars
  PROVE  (\A m \in Models : Undisturbed(m)) /\ \A e \in Evidence : EvidenceUndisturbed(e)
<1>1. UNCHANGED <<reviewed, applicable, modelOf, pstate, lifecycle, value, evidence, links, versions>>
  BY DEF vars
<1> QED
  BY <1>1 DEF Undisturbed, EvidenceUndisturbed, LinkedValues, Linked, Verified

(* The rows a request locks are at least those it needs.                    *)
LEMMA LocksSuffice ==
  ASSUME NEW r, NEW S, r.op = "rejectEvidence" => S = LinkedValues(r.evidence)
  PROVE  Needs(r, S) \subseteq LocksFor(r)
  BY DEF Needs, LocksFor, OwnerLocks, ModelOfOwner

(* A request that begins, or begins again, is known and locks what it needs. *)
LEMMA StartedOK ==
  ASSUME RowsOwned, NEW r \in Requests, NEW status,
         Found(r) \/ r.op = "rejectEvidence", r.op = "rejectEvidence" => <<status, "rejected">> \in EvidenceMoves
  PROVE  Locking(r, LocksFor(r), IF r.op = "rejectEvidence" THEN LinkedValues(r.evidence) ELSE {}, status)
<1> DEFINE S == IF r.op = "rejectEvidence" THEN LinkedValues(r.evidence) ELSE {}
<1>1. Needs(r, S) \subseteq LocksFor(r)
  BY LocksSuffice
<1>2. Known(r, S)
  <2>1. r.op # "rejectEvidence" => Found(r)
    OBVIOUS
  <2>2. r.op = "rejectEvidence" => \A v \in S : v \in ValueIds /\ value[v] # NoRow
    BY DEF RowsOwned, LinkedValues
  <2>3. (r.op \in ItemOps => Exists(r.item)) /\ (r.op = "createValue" => (r.owner \in Items => Exists(r.owner)))
    BY <2>1 DEF Found, ItemOps
  <2>4. /\ r.op \in {"validateValue", "rejectValue", "link"} => value[r.val] # NoRow
        /\ r.op = "link" => evidence[r.evidence] # "absent"
    BY <2>1 DEF Found, ItemOps
  <2> QED
    BY <2>2, <2>3, <2>4 DEF Known
<1> QED
  BY <1>1, <1>2 DEF Locking

(* What the reads under the locks decided stands at that moment.            *)
LEMMA DecidedOK ==
  ASSUME NEW p \in Procs, NEW usable \in SUBSET Verified, Decide(p, usable), TxOK(p), DOMAIN tx = Procs
  PROVE  \E r, kept :
           /\ tx' = [tx EXCEPT ![p] = [phase |-> "writing", req |-> r, data |-> kept]]
           /\ Writing(r, kept, Held(p))
<1>1. PICK r, want, seen, status : r = tx[p].req /\ want = tx[p].want /\ seen = tx[p].seen /\ status = tx[p].status
  <2>1. \E r, want, seen, status : r = tx[p].req /\ want = tx[p].want /\ seen = tx[p].seen /\ status = tx[p].status
    OBVIOUS
  <2> QED
    BY <2>1
<1>2. tx[p].phase = "locking" /\ Locking(r, want, seen, status) /\ want \subseteq Held(p)
  BY <1>1 DEF Decide, TxOK, Waiting
<1>3. r \in Requests /\ Formed(r) /\ Known(r, seen) /\ Needs(r, seen) \subseteq Held(p)
      /\ (r.op = "rejectEvidence" => <<status, "rejected">> \in EvidenceMoves)
  BY <1>2, RequestsFormed DEF Locking
<1>4. r.op # "rejectEvidence" => \A kept : Known(r, kept) /\ Needs(r, kept) = Needs(r, seen)
  BY <1>3 DEF Known, Needs
<1>5. ASSUME NEW kept, r.op # "rejectEvidence" \/ kept = seen, Stands(r, kept)
      PROVE  Writing(r, kept, Held(p))
  BY <1>3, <1>4, <1>5 DEF Writing
<1> SUFFICES \E kept : /\ tx' = [tx EXCEPT ![p] = [phase |-> "writing", req |-> r, data |-> kept]]
                       /\ r.op # "rejectEvidence" \/ kept = seen
                       /\ Stands(r, kept)
  BY <1>5
<1>6. CASE r.op = "createValue" /\ OwnerWritable(r.owner) /\ Decided(p, Prior(r.owner, r.field))
  BY <1>1, <1>6 DEF Decided, Stands, ItemOps
<1>7. CASE r.op = "validateValue" /\ OwnerWritable(value[r.val].owner) /\ Reviewable(r.val) /\ Linked(r.val) \cap usable # {}
           /\ Decided(p, value[r.val].status = "validated")
  <2>1. Linked(r.val) \cap Verified # {}
    BY <1>7
  <2>2. Stands(r, value[r.val].status = "validated")
    BY <1>7, <2>1 DEF Stands, ItemOps
  <2> QED
    BY <1>1, <1>7, <2>2 DEF Decided
<1>8. CASE /\ r.op \in {"rejectValue", "link", "review", "event", "telemetry"} /\ Decided(p, {})
           /\ r.op = "rejectValue" => OwnerWritable(value[r.val].owner) /\ value[r.val].current
           /\ r.op = "link" => OwnerWritable(value[r.val].owner) /\ evidence[r.evidence] # "rejected"
           /\ r.op \in ItemOps => ~Closed(r.item)
           /\ r.op = "event" => /\ r.event \in LineageEvents => r.prior # 0
                                /\ r.prior # 0 => r.prior = Len(versions[r.item])
                                /\ r.event = "recycle" => CanTransition(pstate[r.item], "recycled")
  <2>1. Stands(r, {})
    BY <1>8 DEF Stands, ItemOps
  <2> QED
    BY <1>1, <1>8, <2>1 DEF Decided
<1>9. CASE r.op = "accept" /\ (\A s \in r.subs : \A e \in s.evidence : evidence[e] \notin {"absent", "rejected"})
           /\ Decided(p, UNION {Prior(r.model, s.field) : s \in r.subs})
  <2>1. Stands(r, UNION {Prior(r.model, s.field) : s \in r.subs})
    BY <1>9 DEF Stands, ItemOps
  <2> QED
    BY <1>1, <1>9, <2>1 DEF Decided
<1>10. CASE r.op = "validatePassport" /\ ~Closed(r.item)
            /\ ValidationAllowed(pstate[r.item], Publishable(r.item, usable))
            /\ Decided(p, ValidationTarget(pstate[r.item], Publishable(r.item, usable)))
  <2> DEFINE kept == ValidationTarget(pstate[r.item], Publishable(r.item, usable))
  <2>1. \E u \in {{}, Verified} : /\ ValidationAllowed(pstate[r.item], Publishable(r.item, u))
                                  /\ kept = ValidationTarget(pstate[r.item], Publishable(r.item, u))
    <3>1. r.item \in Items
      BY <1>3, <1>10 DEF Formed, ItemOps
    <3>2. CASE Publishable(r.item, usable)
      <4>1. Publishable(r.item, Verified)
        BY <3>1, <3>2, GateMonotone
      <4> QED
        BY <1>10, <3>2, <4>1 DEF ValidationAllowed, ValidationTarget
    <3>3. CASE ~Publishable(r.item, usable)
      <4>1. \A f \in Fields : Proven(View(r.item)[f], {}) => Proven(View(r.item)[f], usable)
        BY DEF Proven
      <4>2. ~Publishable(r.item, {})
        BY <3>3, <4>1 DEF Publishable, GatePasses, RequiredNow
      <4> QED
        BY <1>10, <3>3, <4>2 DEF ValidationAllowed, ValidationTarget
    <3> QED
      BY <3>2, <3>3
  <2>2. Decided(p, kept)
    BY <1>10
  <2> HIDE DEF kept
  <2>3. Stands(r, kept)
    BY <1>10, <2>1 DEF Stands, ItemOps
  <2> QED
    BY <1>1, <1>10, <2>2, <2>3 DEF Decided
<1>11. CASE r.op = "publish" /\ ~Closed(r.item) /\ pstate[r.item] \in {"ready", "updated"} /\ Publishable(r.item, usable)
            /\ Decided(p, NextVersion(r.item))
  <2>1. Publishable(r.item, Verified)
    BY <1>3, <1>11, GateMonotone DEF Formed, ItemOps
  <2>2. Stands(r, NextVersion(r.item))
    BY <1>11, <2>1 DEF Stands, ItemOps
  <2> QED
    BY <1>1, <1>11, <2>2 DEF Decided
<1>12. CASE r.op = "rejectEvidence" /\ LinkedValues(r.evidence) = seen /\ evidence[r.evidence] = status /\ Decided(p, seen)
  <2>1. Stands(r, seen)
    BY <1>3, <1>12 DEF Stands, ItemOps
  <2> QED
    BY <1>1, <1>12, <2>1 DEF Decided
<1> QED
  BY <1>1, <1>6, <1>7, <1>8, <1>9, <1>10, <1>11, <1>12 DEF Decide, ItemOps

(* The whole invariant: the aggregate's types, owned rows, and transactions *)
(* in order.                                                                *)
LockInv == TypeOK /\ RowsOwned /\ TxInv

(* Releasing its rows takes none from another transaction.                  *)
LEMMA ReleasedHeld ==
  ASSUME NEW p \in Procs, holder \in [Resource -> Procs \cup {None}], holder' = Released(p)
  PROVE  holder' \in [Resource -> Procs \cup {None}] /\ \A q \in Procs : q # p => Held(q)' = Held(q)
<1>1. None \notin Procs
  BY TxAssumption
<1> QED
  BY <1>1 DEF Released, Held

(* A commit is a step of the aggregate and disturbs no other transaction.   *)
LEMMA CommitStep ==
  ASSUME LockInv, NEW p \in Procs, Commit(p)
  PROVE  Next /\ TxInv'
<1>1. /\ tx[p].phase = "writing" /\ tx' = [tx EXCEPT ![p] = Idle] /\ holder' = Released(p)
      /\ WriteValues(p, tx[p].req, tx[p].data) \/ WritePassport(p, tx[p].req, tx[p].data)
  BY DEF Commit
<1>2. Writing(tx[p].req, tx[p].data, Held(p))
  BY <1>1 DEF LockInv, TxInv, TxOK
<1>3. \E r, kept : r = tx[p].req /\ kept = tx[p].data
  OBVIOUS
<1>4. PICK r, kept : r = tx[p].req /\ kept = tx[p].data
  BY <1>3
<1>5. /\ r \in Requests /\ Known(r, kept) /\ Needs(r, kept) \subseteq Held(p) /\ Stands(r, kept)
      /\ WriteValues(p, r, kept) \/ WritePassport(p, r, kept)
  BY <1>1, <1>2, <1>4 DEF Writing
<1>6. Next
  BY <1>5, PassportWriteIsAtomic, ValueWriteIsAtomic DEF LockInv
<1>7. /\ \A m \in Models : m \notin Needs(r, kept) => Undisturbed(m)
      /\ \A e \in Evidence : e \notin Needs(r, kept) => EvidenceUndisturbed(e)
  BY <1>5, PassportFootprint, ValueFootprint DEF LockInv
<1>8. holder' \in [Resource -> Procs \cup {None}] /\ \A q \in Procs : q # p => Held(q)' = Held(q)
  BY <1>1, ReleasedHeld DEF LockInv, TxInv
<1>9. ASSUME NEW q \in Procs, q # p PROVE TxOK(q)'
  <2>1. \A x : x \in Held(q) => x \notin Needs(r, kept)
    BY <1>5, <1>9 DEF Held
  <2>2. tx'[q] = tx[q]
    BY <1>1, <1>9 DEF LockInv, TxInv
  <2>3. TxOK(q)
    BY DEF LockInv, TxInv
  <2> QED
    BY <1>6, <1>7, <1>8, <1>9, <2>1, <2>2, <2>3, OthersStayOK DEF LockInv
<1>10. TxOK(p)'
  BY <1>1 DEF LockInv, TxInv, TxOK, Idle
<1> QED
  BY <1>1, <1>6, <1>8, <1>9, <1>10 DEF LockInv, TxInv

(* A step of transaction p that writes nothing leaves the others in order.  *)
LEMMA QuietStep ==
  ASSUME LockInv, UNCHANGED vars, NEW q \in Procs, tx'[q] = tx[q], Held(q) \subseteq Held(q)'
  PROVE  TxOK(q)'
<1>1. TxOK(q)
  BY DEF LockInv, TxInv
<1> QED
  BY <1>1, NothingDisturbed, OthersStayOK DEF LockInv

(* A beginning keeps the transactions in order.                             *)
LEMMA BeginStep ==
  ASSUME LockInv, NEW p \in Procs, NEW r \in Requests, Begin(p, r)
  PROVE  UNCHANGED vars /\ TxInv'
<1> DEFINE status == IF r.op = "rejectEvidence" THEN evidence[r.evidence] ELSE None
           seen == IF r.op = "rejectEvidence" THEN LinkedValues(r.evidence) ELSE {}
<1>1. UNCHANGED vars /\ holder' = holder /\ Found(r)
      /\ tx' = [tx EXCEPT ![p] = Started(r, 1, status)]
  BY DEF Begin
<1>2. r.op = "rejectEvidence" => <<status, "rejected">> \in EvidenceMoves
  BY <1>1 DEF Found, ItemOps
<1>3. Locking(r, LocksFor(r), seen, status)
  BY <1>1, <1>2, StartedOK DEF LockInv
<1>4. DOMAIN tx' = Procs /\ tx'[p] = Started(r, 1, status) /\ \A q \in Procs : q # p => tx'[q] = tx[q]
  BY <1>1 DEF LockInv, TxInv
<1>5. /\ tx'[p].phase = "locking" /\ tx'[p].req = r /\ tx'[p].want = LocksFor(r)
      /\ tx'[p].seen = seen /\ tx'[p].status = status
  BY <1>4 DEF Started
<1>6. \E want, found, read : want = LocksFor(r) /\ found = seen /\ read = status
  OBVIOUS
<1>7. PICK want, found, read : want = LocksFor(r) /\ found = seen /\ read = status
  BY <1>6
<1>8. Locking(r, want, found, read)
  BY <1>3, <1>7
<1> HIDE DEF status, seen
<1>9. Locking(r, want, found, read)'
  BY <1>1, <1>8, NothingDisturbed, KnownLasts, StepLasts DEF Locking, LockInv
<1>10. TxOK(p)'
  BY <1>5, <1>7, <1>9 DEF TxOK
<1>11. \A q \in Procs : q # p => TxOK(q)'
  BY <1>1, <1>4, QuietStep DEF Held
<1> QED
  BY <1>1, <1>4, <1>10, <1>11 DEF TxInv, LockInv

(* A rejection that finds other links than it read starts over.             *)
LEMMA RetryStep ==
  ASSUME LockInv, NEW p \in Procs, RetryRejection(p)
  PROVE  UNCHANGED vars /\ TxInv'
<1>1. /\ UNCHANGED vars /\ holder' = Released(p)
      /\ tx[p].phase = "locking" /\ tx[p].req.op = "rejectEvidence"
      /\ tx' = [tx EXCEPT ![p] = IF tx[p].attempt = MaxAttempts THEN Idle
                                 ELSE Started(tx[p].req, tx[p].attempt + 1, tx[p].status)]
  BY DEF RetryRejection
<1>2. holder' \in [Resource -> Procs \cup {None}] /\ \A q \in Procs : q # p => Held(q)' = Held(q)
  BY <1>1, ReleasedHeld DEF LockInv, TxInv
<1>3. PICK r, attempt, status : r = tx[p].req /\ attempt = tx[p].attempt /\ status = tx[p].status
  <2>1. \E r, attempt, status : r = tx[p].req /\ attempt = tx[p].attempt /\ status = tx[p].status
    OBVIOUS
  <2> QED
    BY <2>1
<1>4. r \in Requests /\ r.op = "rejectEvidence" /\ <<status, "rejected">> \in EvidenceMoves
  BY <1>1, <1>3 DEF LockInv, TxInv, TxOK, Locking
<1>5. Locking(r, LocksFor(r), LinkedValues(r.evidence), status)
  BY <1>4, StartedOK DEF LockInv
<1>6. PICK want, found : want = LocksFor(r) /\ found = LinkedValues(r.evidence)
  <2>1. \E want, found : want = LocksFor(r) /\ found = LinkedValues(r.evidence)
    OBVIOUS
  <2> QED
    BY <2>1
<1>7. Locking(r, want, found, status)
  BY <1>5, <1>6
<1>8. Locking(r, want, found, status)'
  BY <1>1, <1>7, KnownLasts, StepLasts DEF Locking, LockInv
<1>9. DOMAIN tx' = Procs /\ (\A q \in Procs : q # p => tx'[q] = tx[q])
      /\ (tx'[p] = Idle \/ tx'[p] = Started(r, attempt + 1, status))
  BY <1>1, <1>3 DEF LockInv, TxInv
<1>10. TxOK(p)'
  <2>1. CASE tx'[p] = Idle
    BY <2>1 DEF TxOK, Idle
  <2>2. CASE tx'[p] = Started(r, attempt + 1, status)
    <3>1. tx'[p].phase = "locking" /\ tx'[p].req = r /\ tx'[p].want = want /\ tx'[p].seen = found /\ tx'[p].status = status
      BY <1>4, <1>6, <2>2 DEF Started
    <3> QED
      BY <1>8, <3>1 DEF TxOK
  <2> QED
    BY <1>9, <2>1, <2>2
<1>11. \A q \in Procs : q # p => TxOK(q)'
  BY <1>1, <1>2, <1>9, QuietStep
<1> QED
  BY <1>1, <1>2, <1>9, <1>10, <1>11 DEF TxInv

(* A lock adds one row to what its transaction holds.                       *)
LEMMA LockStep ==
  ASSUME LockInv, NEW p \in Procs, Lock(p)
  PROVE  UNCHANGED vars /\ TxInv'
<1>1. /\ UNCHANGED vars /\ tx' = tx /\ holder[NextLock(p)] = None
      /\ holder' = [holder EXCEPT ![NextLock(p)] = p]
  BY DEF Lock
<1>2. holder' \in [Resource -> Procs \cup {None}]
  BY <1>1 DEF LockInv, TxInv
<1>3. \A q \in Procs : Held(q) \subseteq Held(q)'
  BY <1>1, TxAssumption DEF LockInv, TxInv, Held
<1>4. \A q \in Procs : TxOK(q)'
  BY <1>1, <1>3, QuietStep
<1> QED
  BY <1>1, <1>2, <1>4 DEF TxInv, LockInv

(* A decision keeps what stands under the locks.                            *)
LEMMA DecideStep ==
  ASSUME LockInv, NEW p \in Procs, NEW usable \in SUBSET Verified, Decide(p, usable)
  PROVE  UNCHANGED vars /\ TxInv'
<1>1. UNCHANGED vars /\ holder' = holder
  BY DEF Decide
<1>2. DOMAIN tx = Procs /\ TxOK(p)
  BY DEF LockInv, TxInv
<1>3. PICK r, kept : /\ tx' = [tx EXCEPT ![p] = [phase |-> "writing", req |-> r, data |-> kept]]
                     /\ Writing(r, kept, Held(p))
  BY <1>2, DecidedOK
<1>4. /\ tx'[p].phase = "writing" /\ tx'[p].req = r /\ tx'[p].data = kept
      /\ DOMAIN tx' = Procs /\ \A q \in Procs : q # p => tx'[q] = tx[q]
  BY <1>2, <1>3
<1>5. Held(p)' = Held(p)
  BY <1>1 DEF Held
<1>6. Lasting /\ (\A m \in Models : Undisturbed(m)) /\ \A e \in Evidence : EvidenceUndisturbed(e)
  BY <1>1, StepLasts, NothingDisturbed DEF LockInv
<1>7. Writing(r, kept, Held(p))'
  BY <1>3, <1>5, <1>6, KnownLasts, DecisionStands DEF Writing, LockInv
<1>8. TxOK(p)'
  BY <1>4, <1>7 DEF TxOK
<1>9. \A q \in Procs : q # p => TxOK(q)'
  BY <1>1, <1>4, QuietStep DEF Held
<1> QED
  BY <1>1, <1>4, <1>8, <1>9 DEF TxInv, LockInv

(* A rollback gives back the rows and keeps nothing.                        *)
LEMMA RollbackStep ==
  ASSUME LockInv, NEW p \in Procs, Rollback(p)
  PROVE  UNCHANGED vars /\ TxInv'
<1>1. UNCHANGED vars /\ holder' = Released(p) /\ tx' = [tx EXCEPT ![p] = Idle]
  BY DEF Rollback
<1>2. holder' \in [Resource -> Procs \cup {None}] /\ \A q \in Procs : q # p => Held(q)' = Held(q)
  BY <1>1, ReleasedHeld DEF LockInv, TxInv
<1>3. DOMAIN tx' = Procs /\ tx'[p] = Idle /\ \A q \in Procs : q # p => tx'[q] = tx[q]
  BY <1>1 DEF LockInv, TxInv
<1>4. TxOK(p)'
  BY <1>3 DEF TxOK, Idle
<1>5. \A q \in Procs : q # p => TxOK(q)'
  BY <1>1, <1>2, <1>3, QuietStep
<1> QED
  BY <1>1, <1>2, <1>3, <1>4, <1>5 DEF TxInv

(* The writers without row locks wait for evidence rows and reach no other. *)
LEMMA UnlockedStep ==
  ASSUME LockInv, Unlocked
  PROVE  Next /\ TxInv'
<1>1. UNCHANGED <<tx, holder>>
  BY DEF Unlocked
<1>2. ASSUME Next, \A m \in Models : Undisturbed(m), NEW q \in Procs, \A e \in Held(q) : e \in Evidence => EvidenceUndisturbed(e)
      PROVE  TxOK(q)'
  BY <1>1, <1>2, OthersStayOK DEF LockInv, TxInv, Held
<1>3. ASSUME NEW i \in Items, NEW m \in Models, CreateItem(i, m) PROVE Next /\ \A q \in Procs : TxOK(q)'
  <2>1. Next
    BY <1>3 DEF Next
  <2> QED
    BY <1>2, <1>3, <2>1, UnlockedFootprint DEF LockInv
<1>4. ASSUME NEW d \in Evidence, NEW to \in EvidenceStatus, holder[d] = None, AdvanceEvidence(d, to)
      PROVE  Next /\ \A q \in Procs : TxOK(q)'
  <2>1. Next
    BY <1>4 DEF Next
  <2>2. \A q \in Procs : d \notin Held(q)
    BY <1>4, TxAssumption DEF Held
  <2> QED
    BY <1>2, <1>4, <2>1, <2>2, UnlockedFootprint DEF LockInv
<1> QED
  BY <1>1, <1>3, <1>4 DEF Unlocked, TxInv, LockInv

(* Every step of the transactions is a step of the aggregate or none, and   *)
(* keeps the invariant.                                                     *)
LEMMA TxStep ==
  ASSUME LockInv, [TxNext]_allvars
  PROVE  [Next]_vars /\ LockInv'
<1>1. [Next]_vars /\ TxInv'
  <2>1. CASE UNCHANGED allvars
    <3>1. UNCHANGED vars /\ tx' = tx /\ holder' = holder
      BY <2>1 DEF allvars, txvars
    <3>2. \A q \in Procs : TxOK(q)'
      BY <3>1, QuietStep DEF Held
    <3> QED
      BY <3>1, <3>2 DEF TxInv, LockInv
  <2>2. CASE TxNext
    BY <2>2, BeginStep, LockStep, RetryStep, CommitStep, RollbackStep, DecideStep, UnlockedStep DEF TxNext
  <2> QED
    BY <2>1, <2>2
<1>2. TypeOK' /\ RowsOwned'
  BY <1>1, TypesStay, StepLasts DEF LockInv
<1> QED
  BY <1>1, <1>2 DEF LockInv

(* It holds when the server starts.                                         *)
LEMMA InitLockInv == Init /\ TxInit => LockInv
<1> SUFFICES ASSUME Init, TxInit PROVE LockInv
  OBVIOUS
<1>1. RowsOwned
  BY DEF Init, RowsOwned
<1>2. TxInv
  BY DEF TxInit, TxInv, TxOK, Idle
<1> QED
  BY <1>1, <1>2, InitTypes DEF LockInv

(* The handlers, as transactions that lock, read, decide and write at       *)
(* different moments, implement the handlers as atomic steps                *)
(* (ImplementsAggregate): whatever the interleaving, what a commit writes   *)
(* was decided on rows that have not changed since.                         *)
THEOREM HandlersAreAtomic == TxSpec => Init /\ ImplementsAggregate
  BY InitLockInv, TxStep, PTL DEF TxSpec, ImplementsAggregate

(* So what is proved of the atomic handlers holds of the committed rows     *)
(* between any two statements: what is ready is publishable, what is        *)
(* published mirrors its data, a field has one current value, and history   *)
(* stays as it was.                                                         *)
THEOREM CommittedPassportsAreSound ==
  TxSpec => []ReadyIsPublishable /\ []PublishedMirrorsData /\ []AtMostOneCurrent /\ HistoryIsFixed
<1>1. Init /\ ImplementsAggregate => Spec
  BY PTL DEF ImplementsAggregate, Spec
<1> QED
  BY <1>1, HandlersAreAtomic, ReadyMeansPublishable, PublishedMeansUnchanged, OneCurrentRow, HistoryStays, PTL

-----------------------------------------------------------------------------
(* The order of the locks *)

(* A set of numbers that is not empty has a least one.                      *)
LEMMA LeastNumber ==
  ASSUME NEW T \in SUBSET Nat, T # {}
  PROVE  \E m \in T : \A n \in T : m <= n
<1> DEFINE R == {ss \in Nat \X Nat : ss[1] < ss[2]}
<1>1. R = OpToRel(<, Nat)
  BY DEF OpToRel
<1>2. IsWellFoundedOn(R, Nat)
  BY <1>1, NatLessThanWellFounded
<1> HIDE DEF R
<1>3. PICK m \in T : \A n \in T : ~(<<n, m>> \in R)
  BY <1>2, WFMin
<1>4. \A n \in T : ~(n < m)
  BY <1>3 DEF R
<1> QED
  BY <1>4

(* Among rows that are not locked yet there is a first one to lock, and     *)
(* NextLock is it.                                                          *)
LEMMA FirstToLock ==
  ASSUME NEW r, NEW W \in SUBSET Resource, W # {}
  PROVE  \E x \in W : \A y \in W : LocksBefore(r, x, y)
<1> DEFINE classes == {LockClass(r, x) : x \in W}
<1>1. \A x \in W : LockClass(r, x) \in Nat /\ RankOf[x] \in Nat
  BY TxAssumption DEF LockClass
<1>2. PICK c \in classes : \A d \in classes : c <= d
  BY <1>1, LeastNumber
<1> DEFINE firsts == {x \in W : LockClass(r, x) = c}
           ranks == {RankOf[x] : x \in firsts}
<1>3. ranks \in SUBSET Nat /\ ranks # {}
  BY <1>1, <1>2
<1>4. PICK n \in ranks : \A k \in ranks : n <= k
  BY <1>3, LeastNumber
<1>5. PICK x \in firsts : RankOf[x] = n
  BY <1>4
<1>6. ASSUME NEW y \in W PROVE LocksBefore(r, x, y)
  <2>1. CASE LockClass(r, y) = c
    BY <1>4, <1>5, <2>1 DEF LocksBefore
  <2>2. CASE LockClass(r, y) # c
    BY <1>1, <1>2, <1>5, <2>2 DEF LocksBefore
  <2> QED
    BY <2>1, <2>2
<1> QED
  BY <1>5, <1>6

(* The rows a transaction holds come before those it still has to lock.     *)
InOrder(p) ==
  /\ tx[p].phase = "idle" => Held(p) = {}
  /\ tx[p].phase = "locking" =>
       /\ tx[p].want \subseteq Resource
       /\ \A x \in Held(p), y \in tx[p].want \ Held(p) : LocksBefore(tx[p].req, x, y)

OrderInv == \A p \in Procs : InOrder(p)

(* A request only asks for rows.                                            *)
LEMMA LocksAreRows ==
  ASSUME TypeOK, RowsOwned, NEW r \in Requests, Found(r) \/ r.op = "rejectEvidence"
  PROVE  LocksFor(r) \subseteq Resource
<1>1. Formed(r)
  BY RequestsFormed
<1>2. \A o \in Owners : (o \in Items => Exists(o)) => OwnerLocks(o) \subseteq Resource /\ ModelOfOwner(o) \in Resource
  BY DEF OwnerLocks, ModelOfOwner, Owners, Resource, TypeOK, Exists
<1>3. EvidenceOf(r) \subseteq Resource
  BY <1>1 DEF Formed, EvidenceOf, Resource, Submission
<1>4. CASE r.op = "rejectEvidence"
  <2>1. \A v \in LinkedValues(r.evidence) : ModelOfOwner(value[v].owner) \in Resource
    BY <1>2 DEF RowsOwned, LinkedValues
  <2> QED
    BY <1>3, <1>4, <2>1 DEF LocksFor
<1>5. CASE r.op # "rejectEvidence"
  <2>1. OwnerOf(r) \in Owners /\ (OwnerOf(r) \in Items => Exists(OwnerOf(r)))
    <3>1. CASE r.op \in ItemOps
      BY <1>1, <1>5, <3>1 DEF Found, Formed, OwnerOf, Owners, ItemOps
    <3>2. CASE r.op = "createValue"
      BY <1>1, <1>5, <3>2 DEF Found, Formed, OwnerOf, Owners, ItemOps
    <3>3. CASE r.op \in {"validateValue", "rejectValue", "link"}
      <4>1. r.val \in ValueIds /\ value[r.val] # NoRow /\ OwnerOf(r) = value[r.val].owner
        BY <1>1, <1>5, <3>3 DEF Found, Formed, OwnerOf, ItemOps
      <4> QED
        BY <4>1 DEF RowsOwned
    <3>4. CASE r.op \in {"review", "accept"}
      BY <1>1, <3>4, OwnersApart DEF Formed, OwnerOf, Owners, ItemOps
    <3>5. r.op \in ItemOps \cup {"createValue", "validateValue", "rejectValue", "link", "review", "accept", "rejectEvidence"}
      BY <1>1 DEF Formed
    <3> QED
      BY <1>5, <3>1, <3>2, <3>3, <3>4, <3>5
  <2> QED
    BY <1>2, <1>3, <1>5, <2>1 DEF LocksFor
<1> QED
  BY <1>4, <1>5

(* Every step keeps the order.                                              *)
LEMMA OrderStep ==
  ASSUME LockInv, OrderInv, [TxNext]_allvars
  PROVE  OrderInv'
<1>1. DOMAIN tx = Procs /\ holder \in [Resource -> Procs \cup {None}] /\ None \notin Procs
  BY TxAssumption DEF LockInv, TxInv
<1>2. ASSUME NEW q \in Procs, tx'[q] = tx[q], Held(q)' = Held(q) PROVE InOrder(q)'
  BY <1>2 DEF OrderInv, InOrder, LocksBefore, LockClass
<1>3. ASSUME NEW p \in Procs, holder' = Released(p), NEW new, tx' = [tx EXCEPT ![p] = new],
             new = Idle \/ \E r, n, status : r \in Requests /\ new = Started(r, n, status) /\ LocksFor(r) \subseteq Resource
      PROVE  OrderInv'
  <2>1. \A q \in Procs : q # p => Held(q)' = Held(q) /\ tx'[q] = tx[q]
    BY <1>1, <1>3, ReleasedHeld
  <2>2. Held(p)' = {} /\ tx'[p] = new
    BY <1>1, <1>3 DEF Released, Held
  <2>3. InOrder(p)'
    <3>1. CASE new = Idle
      BY <2>2, <3>1 DEF InOrder, Idle
    <3>2. ASSUME NEW r \in Requests, NEW n, NEW status, new = Started(r, n, status), LocksFor(r) \subseteq Resource
          PROVE  InOrder(p)'
      <4>1. tx'[p].phase = "locking" /\ tx'[p].want = LocksFor(r)
        BY <2>2, <3>2 DEF Started
      <4> QED
        BY <2>2, <3>2, <4>1 DEF InOrder
    <3> QED
      BY <1>3, <3>1, <3>2
  <2> QED
    BY <1>2, <2>1, <2>3 DEF OrderInv
<1>4. ASSUME NEW p \in Procs, NEW r \in Requests, Begin(p, r) PROVE OrderInv'
  <2> DEFINE new == Started(r, 1, IF r.op = "rejectEvidence" THEN evidence[r.evidence] ELSE None)
  <2>1. tx[p].phase = "idle" /\ holder' = holder /\ tx' = [tx EXCEPT ![p] = new] /\ Found(r)
    BY <1>4 DEF Begin
  <2>2. LocksFor(r) \subseteq Resource
    BY <2>1, LocksAreRows DEF LockInv
  <2>3. Held(p)' = {} /\ tx'[p] = new /\ \A q \in Procs : q # p => tx'[q] = tx[q] /\ Held(q)' = Held(q)
    BY <1>1, <2>1 DEF OrderInv, InOrder, Held
  <2>4. tx'[p].phase = "locking" /\ tx'[p].want = LocksFor(r)
    BY <2>3 DEF Started
  <2>5. InOrder(p)'
    BY <2>2, <2>3, <2>4 DEF InOrder
  <2> QED
    BY <1>2, <2>3, <2>5 DEF OrderInv
<1>5. ASSUME NEW p \in Procs, Lock(p) PROVE OrderInv'
  <2> DEFINE W == tx[p].want \ Held(p)
  <2>1. /\ tx[p].phase = "locking" /\ W # {} /\ tx' = tx /\ holder[NextLock(p)] = None
        /\ holder' = [holder EXCEPT ![NextLock(p)] = p]
    BY <1>5 DEF Lock, Waiting
  <2>2. W \in SUBSET Resource
    BY <2>1 DEF OrderInv, InOrder
  <2>3. NextLock(p) \in W /\ \A y \in W : LocksBefore(tx[p].req, NextLock(p), y)
    <3>1. \E x \in W : \A y \in W : LocksBefore(tx[p].req, x, y)
      BY <2>1, <2>2, FirstToLock
    <3> QED
      BY <3>1 DEF NextLock
  <2>4. Held(p)' = Held(p) \cup {NextLock(p)}
    BY <1>1, <2>1, <2>2, <2>3 DEF Held
  <2>5. \A q \in Procs : q # p => Held(q)' = Held(q)
    BY <1>1, <2>1, <2>2, <2>3 DEF Held
  <2>6. \A x \in Held(p)', y \in tx'[p].want \ Held(p)' : LocksBefore(tx'[p].req, x, y)
    <3>1. \A x \in Held(p), y \in W : LocksBefore(tx[p].req, x, y)
      BY <2>1 DEF OrderInv, InOrder
    <3> QED
      BY <2>1, <2>3, <2>4, <3>1
  <2>7. InOrder(p)'
    <3>1. \A x, y : LocksBefore(tx[p].req, x, y)' <=> LocksBefore(tx'[p].req, x, y)
      BY DEF LocksBefore, LockClass
    <3> QED
      BY <2>1, <2>2, <2>6, <3>1 DEF InOrder, OrderInv
  <2> QED
    BY <1>2, <2>1, <2>5, <2>7 DEF OrderInv
<1>6. ASSUME NEW p \in Procs, RetryRejection(p) PROVE OrderInv'
  <2> DEFINE r == tx[p].req
             new == IF tx[p].attempt = MaxAttempts THEN Idle ELSE Started(r, tx[p].attempt + 1, tx[p].status)
  <2>1. tx[p].phase = "locking" /\ r.op = "rejectEvidence" /\ holder' = Released(p) /\ tx' = [tx EXCEPT ![p] = new]
    BY <1>6 DEF RetryRejection
  <2>2. r \in Requests
    BY <2>1 DEF LockInv, TxInv, TxOK, Locking
  <2>3. LocksFor(r) \subseteq Resource
    BY <2>1, <2>2, LocksAreRows DEF LockInv
  <2>4. new = Idle \/ \E n, status : new = Started(r, n, status)
    OBVIOUS
  <2> HIDE DEF new, r
  <2> QED
    BY <1>3, <2>1, <2>2, <2>3, <2>4
<1>7. ASSUME NEW p \in Procs, NEW usable \in SUBSET Verified, Decide(p, usable) PROVE OrderInv'
  <2> DEFINE Shape(d) == [phase |-> "writing", req |-> tx[p].req, data |-> d]
  <2>0. holder' = holder /\ \E d : Decided(p, d)
    BY <1>7, Zenon DEF Decide
  <2>3. PICK d : tx' = [tx EXCEPT ![p] = Shape(d)]
    BY <2>0 DEF Decided
  <2>4. Shape(d).phase = "writing"
    OBVIOUS
  <2> HIDE DEF Shape
  <2>1. holder' = holder /\ \E new : tx' = [tx EXCEPT ![p] = new] /\ new.phase = "writing"
    BY <2>0, <2>3, <2>4
  <2>2. tx'[p].phase = "writing" /\ \A q \in Procs : q # p => tx'[q] = tx[q] /\ Held(q)' = Held(q)
    BY <1>1, <2>1 DEF Held
  <2>5. InOrder(p)'
    BY <2>2 DEF InOrder
  <2> QED
    BY <1>2, <2>2, <2>5 DEF OrderInv
<1>8. ASSUME NEW p \in Procs, Commit(p) \/ Rollback(p) PROVE OrderInv'
  BY <1>3, <1>8 DEF Commit, Rollback
<1>9. CASE Unlocked \/ UNCHANGED allvars
  BY <1>2, <1>9 DEF Unlocked, allvars, txvars, Held, OrderInv
<1> QED
  BY <1>4, <1>5, <1>6, <1>7, <1>8, <1>9 DEF TxNext

(* What a transaction waits for comes before what its holder waits for.     *)
Before(x, y) ==
  \/ LockClass(None, x) < LockClass(None, y)
  \/ LockClass(None, x) = LockClass(None, y) /\ RankOf[x] < RankOf[y]

(* A transaction that waits for one that waits itself wants the earlier row. *)
LEMMA WaitsGoUp ==
  ASSUME OrderInv, NEW p \in Procs, NEW q \in Procs, Blocks(p, q), Waiting(q)
  PROVE  NextLock(p) \in Resource /\ NextLock(q) \in Resource /\ Before(NextLock(p), NextLock(q))
<1>1. ASSUME NEW s \in Procs, Waiting(s)
      PROVE  /\ NextLock(s) \in Resource \ Held(s)
             /\ \A x \in Held(s) : LocksBefore(tx[s].req, x, NextLock(s))
  <2> DEFINE W == tx[s].want \ Held(s)
  <2>1. tx[s].phase = "locking" /\ W # {}
    BY <1>1 DEF Waiting
  <2>2. W \in SUBSET Resource /\ \A x \in Held(s), y \in W : LocksBefore(tx[s].req, x, y)
    BY <2>1 DEF OrderInv, InOrder
  <2>3. NextLock(s) \in W
    <3>1. \E x \in W : \A y \in W : LocksBefore(tx[s].req, x, y)
      BY <2>1, <2>2, FirstToLock
    <3> QED
      BY <3>1 DEF NextLock
  <2> QED
    BY <2>2, <2>3
<1>2. Waiting(p) /\ holder[NextLock(p)] = q
  BY DEF Blocks
<1> DEFINE x == NextLock(p)
           y == NextLock(q)
<1>3. x \in Held(q) /\ x \in Resource /\ y \in Resource \ Held(q) /\ LocksBefore(tx[q].req, x, y)
  BY <1>1, <1>2 DEF Held
<1>4. RankOf[x] # RankOf[y] /\ RankOf[x] \in Nat /\ RankOf[y] \in Nat
  BY <1>3, TxAssumption
<1> HIDE DEF x, y
<1>5. Before(x, y)
  BY <1>3, <1>4 DEF Before, LocksBefore, LockClass
<1> QED
  BY <1>3, <1>5 DEF x, y

(* Waits that only go up close no cycle among finitely many transactions.   *)
LEMMA OrderedWaits == OrderInv => NoDeadlock
<1> SUFFICES ASSUME OrderInv, NEW D \in (SUBSET Procs) \ {{}} PROVE \E p \in D : \A q \in D : ~Blocks(p, q)
  BY Zenon DEF NoDeadlock
<1>12. D \in SUBSET Procs /\ D # {}
  OBVIOUS
<1> DEFINE Above(p) == {q \in D : Before(NextLock(p), NextLock(q))}
           Size(p) == Cardinality(Above(p))
           sizes == {Size(p) : p \in D}
<1> SUFFICES ASSUME \A p \in D : \E q \in D : Blocks(p, q) PROVE FALSE
  OBVIOUS
<1>1. \A p \in D : IsFiniteSet(Above(p)) /\ Size(p) \in Nat
  <2>1. IsFiniteSet(D)
    BY <1>12, TxAssumption, FS_Subset
  <2> QED
    BY <2>1, FS_Subset, FS_CardinalityType
<1>2. PICK p \in D : \A q \in D : Size(p) <= Size(q)
  <2> HIDE DEF Size
  <2>1. sizes \in SUBSET Nat /\ sizes # {}
    BY <1>1, <1>12
  <2> HIDE DEF sizes
  <2>2. PICK m \in sizes : \A n \in sizes : m <= n
    BY <2>1, LeastNumber
  <2>3. PICK p \in D : m = Size(p)
    BY <2>2 DEF sizes
  <2>4. \A q \in D : Size(q) \in sizes
    BY DEF sizes
  <2> QED
    BY <2>2, <2>3, <2>4
<1>3. PICK q \in D : Blocks(p, q)
  OBVIOUS
<1>4. \A s \in D : Waiting(s)
  BY DEF Blocks
<1>5. Before(NextLock(p), NextLock(q)) /\ NextLock(p) \in Resource /\ NextLock(q) \in Resource
  BY <1>3, <1>4, WaitsGoUp
<1>6. \A s \in D : NextLock(s) \in Resource
  BY <1>4, WaitsGoUp
<1>7. \A x, y, z \in Resource : Before(x, y) /\ Before(y, z) => Before(x, z)
  BY TxAssumption DEF Before, LockClass
<1>8. \A x \in Resource : ~Before(x, x)
  BY TxAssumption DEF Before, LockClass
<1>9. Above(q) \in SUBSET Above(p) /\ q \in Above(p) /\ q \notin Above(q)
  BY <1>5, <1>6, <1>7, <1>8
<1>10. Size(q) <= Size(p) /\ Size(p) # Size(q)
  BY <1>1, <1>9, FS_Subset
<1>11. Size(p) <= Size(q) /\ Size(p) \in Nat /\ Size(q) \in Nat
  BY <1>1, <1>2
<1> HIDE DEF Size
<1> QED
  BY <1>10, <1>11

(* No set of transactions waits in a circle (NoDeadlock), however many run  *)
(* and however many rows each locks.                                        *)
THEOREM LocksNeverDeadlock == TxSpec => []NoDeadlock
<1>1. Init /\ TxInit => LockInv /\ OrderInv
  <2> SUFFICES ASSUME Init, TxInit PROVE OrderInv
    BY InitLockInv
  <2>1. \A p \in Procs : Held(p) = {} /\ tx[p] = Idle
    BY TxAssumption DEF TxInit, Held
  <2> QED
    BY <2>1 DEF OrderInv, InOrder, Idle
<1>2. LockInv /\ OrderInv /\ [TxNext]_allvars => LockInv' /\ OrderInv'
  BY TxStep, OrderStep
<1> QED
  BY <1>1, <1>2, OrderedWaits, PTL DEF TxSpec
=============================================================================
