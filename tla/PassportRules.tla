--------------------------- MODULE PassportRules ---------------------------
(***************************************************************************)
(* The pure rules of packages/rules and the helpers that apply them: the   *)
(* passport state machine, the lifecycle events, and the readiness and     *)
(* publication gates of PassportDataService.validateTx.  No state here;    *)
(* the aggregate modules read their state through these operators.        *)
(*                                                                         *)
(* A merged passport is a function from the data fields to entries.  An    *)
(* entry is what the publication serialises of a value: its content, its   *)
(* review status and the evidence linked to it.                            *)
(***************************************************************************)
EXTENDS Naturals

CONSTANTS
  Fields,        \* the data fields (data-points.json, 71 in the program)
  Contents,      \* the values a field can hold, as far as the rules tell them apart
  Evidence,      \* evidence object ids
  StatusField,   \* field 67, the battery status: must repeat the lifecycle status
  EmptyContent,  \* null or '': a value row that counts as missing
  Conflicts,     \* sets of <<field, content>> pairs that crossFieldChecks blocks
  None           \* "no value here"

ASSUME RulesAssumption ==
  /\ StatusField \in Fields
  /\ Conflicts \subseteq SUBSET (Fields \X Contents)
  /\ None \notin Contents

-----------------------------------------------------------------------------
(* State machine *)

PassportState ==
  {"draft", "data_collection", "validation_failed", "ready", "published",
   "registry_pending", "registered", "updated", "superseded", "recycled"}

Transitions ==
  [draft             |-> {"data_collection", "recycled"},
   data_collection   |-> {"validation_failed", "ready", "recycled"},
   validation_failed |-> {"data_collection", "ready", "recycled"},
   ready             |-> {"published", "data_collection", "validation_failed", "recycled"},
   published         |-> {"registry_pending", "updated", "recycled"},
   registry_pending  |-> {"registered", "updated", "recycled"},
   registered        |-> {"updated", "recycled"},
   updated           |-> {"ready", "validation_failed", "published",
                          "registry_pending", "registered", "recycled"},
   superseded        |-> {},
   recycled          |-> {}]

CanTransition(from, to) == to \in Transitions[from]

PublishedStates == {"published", "registered", "registry_pending"}

(* Mutants of Invalidated: only publications are taken back; every one of   *)
(* them starts over.                                                        *)
InvalidatedIfPublished(s) == IF s \in PublishedStates THEN "updated" ELSE s

InvalidatedToCollection(s) == IF s \in PublishedStates \cup {"ready"} THEN "data_collection" ELSE s

(* invalidatePassports: the state an item is in after a write to its data.  *)
Invalidated(s) ==
  CASE s \in PublishedStates -> "updated"
    [] s = "ready"           -> "data_collection"
    [] OTHER                 -> s

-----------------------------------------------------------------------------
(* Lifecycle events *)

LifecycleStatus == {"original", "repurposed", "reused", "remanufactured", "waste", "recycled"}

EventTypes == {"status_change", "repair", "accident", "repurpose", "reuse", "remanufacture", "recycle"}

LineageEvents == {"repurpose", "reuse", "remanufacture"}

(* statusForEvent: repair and accident leave the status alone.  A           *)
(* status_change is accepted only with newLifecycleStatus 'waste'.          *)
StatusAfter(event, status) ==
  CASE event = "repurpose"     -> "repurposed"
    [] event = "reuse"         -> "reused"
    [] event = "remanufacture" -> "remanufactured"
    [] event = "recycle"       -> "recycled"
    [] event = "status_change" -> "waste"
    [] OTHER                   -> status

-----------------------------------------------------------------------------
(* Readiness and publication gate *)

Requirement == {"mandatory", "conditional", "optional", "deferred", "hidden"}

ValueStatus == {"unvalidated", "submitted", "validated", "rejected", "superseded"}

Entry == [content : Contents \cup {None}, status : ValueStatus \cup {None}, evidence : SUBSET Evidence]

NoEntry == [content |-> None, status |-> None, evidence |-> {}]

(* The fields calculateReadiness counts: optional, deferred and hidden   *)
(* ones never, conditional ones when the review found them applicable.     *)
RequiredNow(req, applicable) ==
  {f \in Fields : req[f] = "mandatory" \/ (req[f] = "conditional" /\ f \in applicable)}

Missing(entry) == entry.content \in {None, EmptyContent}

(* Validated, and at least one linked evidence object is usable.            *)
Proven(entry, usable) == entry.status = "validated" /\ entry.evidence \cap usable # {}

CrossChecksPass(entries) ==
  \A conflict \in Conflicts : \E p \in conflict : entries[p[1]].content # p[2]

StatusMatches(entries, lifecycle) ==
  entries[StatusField].content \in {None, lifecycle}

(* publicationBlockers is empty: the review of the conditional fields is    *)
(* complete, every required field has a validated value with usable         *)
(* evidence, and no cross check blocks.  Warnings of the readiness count    *)
(* as blockers here (provenanceBlockers).                                   *)
GatePasses(req, reviewed, applicable, entries, lifecycle, usable) ==
  /\ reviewed
  /\ \A f \in RequiredNow(req, applicable) :
        ~Missing(entries[f]) /\ Proven(entries[f], usable)
  /\ CrossChecksPass(entries)
  /\ StatusMatches(entries, lifecycle)
=============================================================================
