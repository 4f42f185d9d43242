------------------------------- MODULE MCApi --------------------------------
(* Six parts around the API on small instances: registry drafts, the rows of *)
(* the tenants, what a deletion takes along, the request limits, the export *)
(* of an item and the archives an operator makes of exports.  They share no *)
(* state that any of them reads of another; a behaviour follows one of      *)
(* them, part, while the others stay where they start.                      *)
EXTENDS TenantRows, TLC

CONSTANTS
  i1, i2, i3, m1, m2, e1, e2,
  Items, Models, ModelOf, Calls, Groups, Refused, Authorisations, Preparing,
  MaxBatch, MaxRequest, MaxVersions,                                \* RegistryDraft
  Addresses, Limit, SensitiveLimit, Window, MaxBuckets, MaxTime,    \* RateLimiter
  Evidence, MaxExported, MaxSize, MaxPublished,                     \* OperatorExport
  Assemblers, Destinations, Issued, MaxArchived,                    \* ExportArchive
  Tables                                                            \* Erasure

ASSUME ApiAssumption ==
  /\ Limit \in Nat /\ SensitiveLimit \in Nat /\ Window \in Nat \ {0} /\ MaxBuckets \in Nat
  /\ ModelOf \in [Items -> Models] /\ None \notin Calls /\ None \notin Authorisations
  /\ {"PassportVersion", "AuditEvent"} \subseteq Tables /\ \A S \in SUBSET Tables : S # None
  /\ MaxBatch \in Nat \ {0}

VARIABLES
  part,
  item, versions, authorisation, call, holder, sharing, submissions, rejections,
  now, buckets, nextCleanup, served,
  published, evidence, export, issued,
  file, source, run, archive,
  refs

(* Three items of two models, two of which are alike.                       *)
MCModelOf == i1 :> m1 @@ i2 :> m1 @@ i3 :> m2

Drafts == INSTANCE RegistryDraft

Limiter == INSTANCE RateLimiter

Deletions == INSTANCE Erasure

Export == INSTANCE OperatorExport WITH versions <- published, row <- evidence, MaxVersions <- MaxExported

Archive == INSTANCE ExportArchive WITH MaxVersions <- MaxExported, MaxSize <- MaxArchived

Version(no, cites) == [no |-> no, previous |-> no - 1, cites |-> cites]

Whole(vs) == [versions |-> vs, known |-> UNION {vs[i].cites : i \in DOMAIN vs}, partial |-> {}, missing |-> {}]

(* What was issued: two versions that share an evidence, and two of which   *)
(* one has lost its evidence.                                               *)
MCIssued ==
  {Whole(<<Version(1, {e1}), Version(2, {e1, e2})>>),
   [Whole(<<Version(1, {e1}), Version(2, {e2})>>) EXCEPT !.known = {e1}, !.missing = {e2}]}

drafts  == <<item, versions, authorisation, call, holder, sharing, submissions, rejections>>
limiter == <<now, buckets, nextCleanup, served>>
exports == <<published, evidence, export, issued>>
disk    == <<file, source, run, archive>>
all     == <<part, vars, drafts, refs, limiter, exports, disk>>

MCInit ==
  /\ part \in {"registry", "tenants", "deletions", "limiter", "export", "archive"}
  /\ Init /\ Drafts!Init /\ Deletions!Init /\ Limiter!Init /\ Export!Init /\ Archive!Init
  /\ part # "tenants" => flaws = {}

MCNext ==
  /\ part' = part
  /\ \/ part = "registry" /\ Drafts!Next /\ UNCHANGED <<vars, refs, limiter, exports, disk>>
     \/ part = "tenants" /\ Next /\ UNCHANGED <<drafts, refs, limiter, exports, disk>>
     \/ part = "deletions" /\ Deletions!Next /\ UNCHANGED <<vars, drafts, limiter, exports, disk>>
     \/ part = "limiter" /\ Limiter!Next /\ UNCHANGED <<vars, drafts, refs, exports, disk>>
     \/ part = "export" /\ Export!Next /\ UNCHANGED <<vars, drafts, refs, limiter, disk>>
     \/ part = "archive" /\ Archive!Next /\ UNCHANGED <<vars, drafts, refs, limiter, exports>>

MCSpec == MCInit /\ [][MCNext]_all

(* Bound: the counts of the limiter.                                        *)
Bound == Limiter!Bound

(* The parts may share model values, so that one symmetry serves them all.  *)
MCSymmetry == Permutations({i1, i2}) \cup Permutations(Groups)

-----------------------------------------------------------------------------
(* Properties of the parts                                                  *)

(* A draft is stored whole or not at all (RegistryDraft).                   *)
WholeOrNothing == Drafts!WholeOrNothing

(* A draft repeats versions that are current when it is stored.             *)
DraftsAreCurrent == Drafts!DraftsAreCurrent

(* No address is passed on more than its limit, and the table of buckets is *)
(* bounded and emptied again (RateLimiter).                                 *)
LimitsHold == Limiter!ServedIsLimited /\ Limiter!MemoryIsBounded

(* What is deleted takes no published version and no audit event along      *)
(* (Erasure).                                                               *)
HistoryOutlives == Deletions!HistoryOutlives

(* What the API issues, the browser saves and the verifier accepts          *)
(* (OperatorExport), and an archive with a report is whole (ExportArchive). *)
ExportsHold == Export!ExportVerifies /\ Archive!ReportedIsWhole
=============================================================================
