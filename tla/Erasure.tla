------------------------------- MODULE Erasure -------------------------------
(***************************************************************************)
(* What a DELETE takes along.  The tables refer to each other by foreign     *)
(* keys that cascade, set null or restrict; a trigger protects published     *)
(* versions, the grants of the runtime protect the audit trail.  There is    *)
(* at most one row of a table here: a row shares nothing with its siblings.  *)
(***************************************************************************)
EXTENDS Integers, FiniteSets

CONSTANTS
  Tables,   \* some of the tables
  None

VARIABLE refs   \* per table: None, or the tables of the rows its row refers to

vars == <<refs>>

Rows == {t \in Tables : refs[t] # None}

(* Tables with an organisationId that cascades.                             *)
Owned ==
  {"RegistryEnrolmentProfile", "RegistryIdentity", "User", "WrittenAuthorisation", "BatteryModel", "BatteryItem",
   "PassportValue", "EvidenceObject", "ExtractionJob", "Supplier", "SupplierRequest", "ComplianceCheck",
   "PassportVersion", "PublicPassportSnapshot", "RegistrySubmission", "AccessGrant", "LifecycleEvent",
   "TelemetryReading", "IdempotencyRecord"}

(* Mutant of Cascades: the audit trail goes with its organisation.          *)
CascadesAudit == (Owned \cup {"AuditEvent"}) \X {"Organisation"}

(* ON DELETE CASCADE: the row that refers, the row it refers to.            *)
Cascades ==
  (Owned \X {"Organisation"}) \cup
  ({"PassportValue", "SupplierRequest", "ComplianceCheck"} \X {"BatteryModel"}) \cup
  ({"PassportValue", "ComplianceCheck", "PassportVersion", "PublicPassportSnapshot", "RegistrySubmission",
    "AccessGrant", "LifecycleEvent", "TelemetryReading"} \X {"BatteryItem"}) \cup
  ({"EvidenceLink", "ExtractionJob", "SupplierSubmissionEvidence"} \X {"EvidenceObject"}) \cup
  ({"SupplierRequestField", "SupplierSubmission"} \X {"SupplierRequest"}) \cup
  ({"SupplierContact", "SupplierRequest"} \X {"Supplier"}) \cup
  {<<"EvidenceLink", "PassportValue">>, <<"ExtractedClaim", "ExtractionJob">>, <<"FieldDefinition", "RegulatoryRuleSet">>,
   <<"SupplierSubmissionEvidence", "SupplierSubmission">>, <<"PublicPassportSnapshot", "PassportVersion">>}

(* ON DELETE SET NULL.                                                      *)
Nulls ==
  {<<"PassportValue", "User">>, <<"EvidenceObject", "Supplier">>, <<"ExtractedClaim", "PassportValue">>,
   <<"ComplianceCheck", "RegulatoryRuleSet">>, <<"RegistrySubmission", "PassportVersion">>, <<"AuditEvent", "Organisation">>}

(* ON DELETE RESTRICT.                                                      *)
Restricts == {<<"BatteryItem", "BatteryModel">>}

(* Columns that may be null, and yet cascade.                               *)
Optional ==
  {<<"PassportValue", "BatteryModel">>, <<"PassportValue", "BatteryItem">>, <<"AccessGrant", "BatteryItem">>,
   <<"ComplianceCheck", "BatteryModel">>, <<"ComplianceCheck", "BatteryItem">>}

Parents(t) == {p \in Tables : <<t, p>> \in Cascades \cup Nulls \cup Restricts}

Init == refs = [t \in Tables |-> None]

Insert(t, ps) ==
  /\ refs[t] = None /\ ps \subseteq Parents(t) \cap Rows
  /\ \A p \in Parents(t) \ ps : <<t, p>> \in Nulls \cup Optional
  /\ refs' = [refs EXCEPT ![t] = ps]

(* The row and all that go with it.                                         *)
Gone(t) ==
  LET goes[r \in Rows] == r = t \/ \E p \in refs[r] : <<r, p>> \in Cascades /\ goes[p]
  IN {r \in Rows : goes[r]}

(* Mutant of Raises: only a statement on the version itself is refused.     *)
RaisesDirect(t) == t = "PassportVersion"

(* enforce_published_passport_immutable, for each row that goes.            *)
Raises(t) == "PassportVersion" \in Gone(t)

(* A row that stays may forbid it; one that would go itself may, too: which *)
(* of the triggers fires first has nothing to do with the tables' meaning.  *)
Restricted(t) == \E r \in Rows \ Gone(t) : \E p \in refs[r] \cap Gone(t) : <<r, p>> \in Restricts

(* What the runtime may delete from; an owner may anywhere.                 *)
Granted(t) == t \notin {"AuditEvent", "PassportVersion", "RegulatoryRuleSet", "FieldDefinition"}

Delete(t, by) ==
  /\ t \in Rows /\ (by = "runtime" => Granted(t))
  /\ ~Raises(t) /\ ~Restricted(t)
  /\ refs' = [r \in Tables |-> IF r \in Rows \ Gone(t) THEN refs[r] \ Gone(t) ELSE None]

Next == \E t \in Tables :
  \/ \E ps \in SUBSET Parents(t) : Insert(t, ps)
  \/ \E by \in {"runtime", "owner"} : Delete(t, by)

Spec == Init /\ [][Next]_vars

-----------------------------------------------------------------------------
(* Properties                                                               *)

(* Whatever is deleted, and by whom: a published version stays, with the    *)
(* organisation and the item it is of ("blocks cascading deletion through   *)
(* an item/organisation and changes by table owners",                       *)
(* 002_runtime_grants.sql:21); an audit event goes with nothing else, only  *)
(* when an owner deletes it ("can append audit records, but cannot rewrite  *)
(* their history", line 18); and nothing is left that refers to nothing.    *)
HistoryOutlives ==
  [][/\ refs["PassportVersion"] # None => refs'["PassportVersion"] = refs["PassportVersion"]
     /\ refs["AuditEvent"] # None /\ refs'["AuditEvent"] = None =>
          \A t \in Tables \ {"AuditEvent"} : refs'[t] = refs[t]
     /\ \A t \in Rows' : refs'[t] \subseteq Rows']_vars
=============================================================================
