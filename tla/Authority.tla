------------------------------ MODULE Authority ------------------------------
(***************************************************************************)
(* Who may bring a dossier to publication.  Three guards stand before every  *)
(* handler of the API: one finds out who calls, one whether for their own    *)
(* organisation or under a written authorisation, one looks at their role.   *)
(* What each of them asks is declared at the handlers; this module has these *)
(* declarations and follows one dossier of the responsible organisation from *)
(* nothing to a published passport, with its people and those of a provider  *)
(* doing whatever they may, in any order.  Handlers are one step each here.  *)
(***************************************************************************)
EXTENDS FiniteSets

CONSTANTS
  People,
  Home, Role,   \* of each: the organisation, "own" or "provider", and the role in it
  Accounts,     \* those the identity provider knows; in development all get tokens
  Delegations,  \* sets of scopes an authorisation may name
  None

VARIABLES
  mode,      \* of the API's authentication, oidc or dev
  model,     \* None, "new" or who reviewed its applicability
  document,  \* the status of the one document, and who verified it
  value,     \* the model's one value: none, open or validated
  linked,    \* the value has the document as its evidence
  state,     \* of the passport: none, open, ready, published, updated, recycled
  grants,    \* the active authorisations of the provider
  granted,   \* scopes of all authorisations there were
  basis,     \* who had verified the document of the first of them
  touched    \* the provider did nothing, read or changed something

dossier == <<model, document, value, linked, state>>
delegation == <<grants, granted, basis>>
vars == <<mode, dossier, delegation, touched>>

Roles == {"operator_admin", "operator_user", "service_provider", "compliance_manager", "service_provider_admin"}
Reviewers == {"operator_admin", "compliance_manager", "service_provider_admin"}

-----------------------------------------------------------------------------
(* The declarations                                                         *)

(* Handlers with the scope a provider needs for them; all roles, or some.   *)
Of(roles, scope, names) == {[name |-> n, scope |-> scope, roles |-> roles] : n \in names}
Any(scope, names) == Of(Roles, scope, names)

(* No scope opens these to a provider; those need no caller at all.         *)
OwnTenantOnly == "own tenant only"
Public == "public"

OrganisationHandlers ==
  Any(OwnTenantOnly, {"bootstrap", "authorisedCustomers"}) \cup Any("organisationRead", {"current"})
  \cup Any("registryRead", {"registryProfile", "registryProfileReadiness"})
  \cup Any("organisationWrite", {"upsertRegistryProfile"})

AuthorisationHandlers ==
  Any(OwnTenantOnly, {"listAuthorisations"})
  \cup Of({"operator_admin"}, OwnTenantOnly, {"authorise", "revokeAuthorisation"})

BatteryHandlers ==
  Any("modelRead", {"listModels", "model"}) \cup Any("modelWrite", {"createModel"})
  \cup Of(Reviewers, "applicabilityReview", {"reviewApplicability"})
  \cup Any("itemWrite", {"createItem", "bulk"}) \cup Any("itemRead", {"item"})

ValueHandlers ==
  Any("valueWrite", {"createValue"}) \cup Any("valueRead", {"getValue"})
  \cup Any("valueReview", {"validateValue", "rejectValue"})

(* Mutant of EvidenceHandlers: whoever may review may verify, too.          *)
EvidenceHandlersOpen ==
  Any("evidenceWrite", {"createUpload", "finalize", "link"}) \cup Any("evidenceExtract", {"extract"})
  \cup Any("evidenceRead", {"listExtractions"}) \cup Any("evidenceReview", {"verify", "reviewDownload"})

EvidenceHandlers ==
  Any("evidenceWrite", {"createUpload", "finalize", "link"}) \cup Any("evidenceExtract", {"extract"})
  \cup Any("evidenceRead", {"listExtractions"}) \cup Of(Reviewers, "evidenceReview", {"verify", "reviewDownload"})

SupplierHandlers ==
  Any("supplierRead", {"listSuppliers", "listRequests", "requestDetail"})
  \cup Any("supplierWrite", {"createSupplier", "createRequest"}) \cup Any("supplierReview", {"accept"})
  \cup Any(Public, {"portalSession", "portalUpload", "portalFinalize", "submit"})

PassportHandlers ==
  Any("passportValidate", {"validatePassport"}) \cup Any("passportPublish", {"publish"})
  \cup Any("passportRead", {"validateReadOnly", "versions", "qr"})

ExportHandlers == Of(Reviewers, "passportExport", {"export"})

ComplianceHandlers ==
  Any("complianceRead", {"getFields", "readiness", "cross"}) \cup Any("modelRead", {"modelReadiness"})
  \cup Any("itemRead", {"itemReadiness"})

LifecycleHandlers == Any("lifecycleRead", {"events"}) \cup Any("lifecycleWrite", {"event", "telemetry"})

AccessHandlers == Any("accessGrantWrite", {"createGrant", "revokeGrant"}) \cup Any(Public, {"grantSession"})

RegistryHandlers ==
  Any("registryRead", {"gate", "exported"}) \cup Any("registryPrepare", {"exportJson", "exportXml", "prepare"})
  \cup Any("registrySubmit", {"submitToRegistry"})

(* The public passport and the health of the service                        *)
PublicHandlers == Any(Public, {"passport", "publicQr", "health"})

Handlers ==
  UNION {OrganisationHandlers, AuthorisationHandlers, BatteryHandlers, ValueHandlers, EvidenceHandlers, SupplierHandlers,
         PassportHandlers, ExportHandlers, ComplianceHandlers, LifecycleHandlers, AccessHandlers, RegistryHandlers, PublicHandlers}

(* What names them so only reads                                            *)
ReadScopes ==
  {"organisationRead", "modelRead", "itemRead", "valueRead", "evidenceRead", "supplierRead", "complianceRead",
   "passportRead", "lifecycleRead", "registryRead"}

-----------------------------------------------------------------------------
(* The guards                                                               *)

(* AuthGuard: a token of the identity provider, or in development of the    *)
(* API, which gives it to whomever it is asked for.                         *)
DevTokens == IF mode = "dev" THEN People ELSE {}
Verified(p) == p \in Accounts \cup DevTokens

(* TenantGuard, for the responsible organisation                            *)
TenantOpen(p, h) ==
  Home[p] = "own" \/ (h.scope # OwnTenantOnly /\ \E scopes \in grants : h.scope \in scopes)

(* RolesGuard: the role is the one the caller has at home.                  *)
RoleOpen(p, h) == Role[p] \in h.roles

Allowed(p, h) == h.scope # Public /\ Verified(p) /\ TenantOpen(p, h) /\ RoleOpen(p, h)

(* A call of p to the handler of that name at the controller                *)
Changes(p, controller, name) ==
  /\ \E h \in controller : h.name = name /\ Allowed(p, h)
  /\ touched' = IF Home[p] = "provider" THEN "changed" ELSE touched

Anyone(controller, name) ==
  /\ \E h \in controller : h.name = name /\ h.scope = Public
  /\ touched' = touched

-----------------------------------------------------------------------------
(* The handlers                                                             *)

Absent == [status |-> "absent", by |-> None]

Init ==
  /\ mode \in {"oidc", "dev"} /\ model = None /\ document = Absent /\ value = "none" /\ linked = FALSE
  /\ state = "none" /\ grants = {} /\ granted = {} /\ basis = None /\ touched = "nothing"

(* invalidatePassports                                                      *)
Invalidated ==
  CASE state = "published" -> "updated"
    [] state = "ready" -> "open"
    [] OTHER -> state

(* What validation finds: the applicability was reviewed, and the value     *)
(* validated and of usable evidence.                                        *)
Publishable == model \in People /\ value = "validated" /\ linked /\ document.status = "verified"

(* A new model has no review.                                               *)
CreateModel(p) ==
  /\ model = None /\ Changes(p, BatteryHandlers, "createModel") /\ model' = "new"
  /\ UNCHANGED <<mode, document, value, linked, state, delegation>>

ReviewApplicability(p) ==
  /\ model # None /\ Changes(p, BatteryHandlers, "reviewApplicability") /\ model' = p /\ state' = Invalidated
  /\ UNCHANGED <<mode, document, value, linked, delegation>>

CreateItem(p) ==
  /\ model # None /\ state = "none" /\ state' = "open"
  /\ \E name \in {"createItem", "bulk"} : Changes(p, BatteryHandlers, name)
  /\ UNCHANGED <<mode, model, document, value, linked, delegation>>

(* A new document in place of none or of one that was rejected              *)
Upload ==
  /\ document.status \in {"absent", "rejected"}
  /\ document' = [status |-> "pending", by |-> None] /\ linked' = FALSE
  /\ UNCHANGED <<mode, model, value, state, delegation>>

(* checkBytes finds malware, whoever asked for the check.                   *)
Reject ==
  /\ document' = [status |-> "rejected", by |-> None]
  /\ state' = IF linked THEN Invalidated ELSE state
  /\ UNCHANGED <<mode, model, value, linked, delegation>>

(* What was verified stays so.                                              *)
Finalize ==
  /\ document.status \in {"pending", "uploaded", "verified"}
  /\ \/ /\ document' = IF document.status = "pending" THEN [document EXCEPT !.status = "uploaded"] ELSE document
        /\ UNCHANGED <<mode, model, value, linked, state, delegation>>
     \/ Reject

Verify(p) ==
  /\ document.status \in {"uploaded", "verified"} /\ Changes(p, EvidenceHandlers, "verify")
  /\ \/ document' = [status |-> "verified", by |-> p] /\ UNCHANGED <<mode, model, value, linked, state, delegation>>
     \/ Reject

Extract(p) ==
  /\ document.status \in {"uploaded", "verified"} /\ Changes(p, EvidenceHandlers, "extract")
  /\ \/ Reject
     \/ UNCHANGED <<mode, dossier, delegation>>

Link(p) ==
  /\ document.status \notin {"absent", "rejected"} /\ value # "none" /\ Changes(p, EvidenceHandlers, "link")
  /\ linked' = TRUE /\ state' = Invalidated
  /\ UNCHANGED <<mode, model, document, value, delegation>>

CreateValue(p) ==
  /\ model # None /\ Changes(p, ValueHandlers, "createValue")
  /\ value' = "open" /\ linked' = FALSE /\ state' = Invalidated
  /\ UNCHANGED <<mode, model, document, delegation>>

(* accept: what a supplier submitted, with the document or without it.      *)
Accept(p) ==
  /\ model # None /\ Changes(p, SupplierHandlers, "accept")
  /\ value' = "open" /\ linked' \in {FALSE, document.status \notin {"absent", "rejected"}} /\ state' = Invalidated
  /\ UNCHANGED <<mode, model, document, delegation>>

ValidateValue(p) ==
  /\ value # "none" /\ linked /\ document.status = "verified" /\ Changes(p, ValueHandlers, "validateValue")
  /\ value' = "validated" /\ state' = IF value = "validated" THEN state ELSE Invalidated
  /\ UNCHANGED <<mode, model, document, linked, delegation>>

RejectValue(p) ==
  /\ value # "none" /\ Changes(p, ValueHandlers, "rejectValue")
  /\ value' = "none" /\ linked' = FALSE /\ state' = Invalidated
  /\ UNCHANGED <<mode, model, document, delegation>>

ValidatePassport(p) ==
  /\ state \notin {"none", "recycled"} /\ Changes(p, PassportHandlers, "validatePassport")
  /\ state' = IF state = "published" THEN (IF Publishable THEN state ELSE "updated")
              ELSE IF Publishable THEN "ready" ELSE "open"
  /\ UNCHANGED <<mode, model, document, value, linked, delegation>>

Publish(p) ==
  /\ state \in {"ready", "updated"} /\ Publishable /\ Changes(p, PassportHandlers, "publish") /\ state' = "published"
  /\ UNCHANGED <<mode, model, document, value, linked, delegation>>

Event(p) ==
  /\ state \notin {"none", "recycled"} /\ Changes(p, LifecycleHandlers, "event") /\ state' \in {"recycled", Invalidated}
  /\ UNCHANGED <<mode, model, document, value, linked, delegation>>

Telemetry(p) ==
  /\ state \notin {"none", "recycled"} /\ Changes(p, LifecycleHandlers, "telemetry") /\ state' = Invalidated
  /\ UNCHANGED <<mode, model, document, value, linked, delegation>>

(* What changes something beside the dossier, and what only reads           *)
Others == {"upsertRegistryProfile", "createSupplier", "createRequest", "createGrant", "revokeGrant",
           "exportJson", "exportXml", "prepare", "submitToRegistry"}
Readers == {"current", "registryProfile", "registryProfileReadiness", "listModels", "model", "item", "getValue",
            "listExtractions", "reviewDownload", "listSuppliers", "listRequests", "requestDetail", "validateReadOnly",
            "versions", "qr", "export", "getFields", "readiness", "cross", "modelReadiness", "itemReadiness",
            "events", "gate", "exported"}

(* Without a new trace these change nothing.                                *)
Beside(p) ==
  /\ Home[p] = "provider" /\ touched # "changed"
  /\ {h \in Handlers : h.name \in Others /\ Allowed(p, h)} # {}
  /\ touched' = "changed"
  /\ UNCHANGED <<mode, dossier, delegation>>

Read(p) ==
  /\ Home[p] = "provider" /\ touched = "nothing"
  /\ {h \in Handlers : h.name \in Readers /\ Allowed(p, h)} # {}
  /\ touched' = "read"
  /\ UNCHANGED <<mode, dossier, delegation>>

(* requireResponsibleOperator: for the organisation that calls; on a        *)
(* document that was verified.                                              *)
Authorise(p, scopes) ==
  /\ Home[p] = "own" /\ document.status = "verified" /\ Changes(p, AuthorisationHandlers, "authorise")
  /\ grants' = grants \cup {scopes} /\ granted' = granted \cup scopes
  /\ basis' = IF granted = {} THEN document.by ELSE basis
  /\ UNCHANGED <<mode, dossier>>

Revoke(p, scopes) ==
  /\ Home[p] = "own" /\ scopes \in grants /\ Changes(p, AuthorisationHandlers, "revokeAuthorisation")
  /\ grants' = grants \ {scopes}
  /\ UNCHANGED <<mode, dossier, granted, basis>>

(* An authorisation may end by itself.                                      *)
Lapse(scopes) ==
  /\ scopes \in grants /\ grants' = grants \ {scopes}
  /\ UNCHANGED <<mode, dossier, granted, basis, touched>>

Next ==
  \/ \E p \in People :
       \/ CreateModel(p) \/ ReviewApplicability(p) \/ CreateItem(p)
       \/ Upload /\ Changes(p, EvidenceHandlers, "createUpload")
       \/ Finalize /\ Changes(p, EvidenceHandlers, "finalize")
       \/ Verify(p) \/ Extract(p) \/ Link(p) \/ CreateValue(p) \/ Accept(p) \/ ValidateValue(p) \/ RejectValue(p)
       \/ ValidatePassport(p) \/ Publish(p) \/ Event(p) \/ Telemetry(p) \/ Beside(p) \/ Read(p)
       \/ \E scopes \in Delegations : Authorise(p, scopes) \/ Revoke(p, scopes)
  \/ Upload /\ Anyone(SupplierHandlers, "portalUpload")
  \/ Finalize /\ Anyone(SupplierHandlers, "portalFinalize")
  \/ \E scopes \in grants : Lapse(scopes)

Spec == Init /\ [][Next]_vars

-----------------------------------------------------------------------------
(* Properties                                                               *)

(* What is published was looked at by two reviewers, of the organisation or  *)
(* of the provider: one decided which fields apply, one verified the         *)
(* document; whoever else entered, validated, accepted and published.  With  *)
(* an identity provider both are accounts of it.                            *)
PublishedWasReviewed ==
  state = "published" =>
    \A p \in {model, document.by} : Role[p] \in Reviewers /\ (mode = "oidc" => p \in Accounts)

(* A provider begins with an authorisation that an account of the            *)
(* organisation verified, and changes nothing under scopes that only read.   *)
ProvidersWereLetIn ==
  /\ touched # "nothing" => granted # {} /\ Home[basis] = "own"
  /\ touched = "changed" => granted \ ReadScopes # {}
=============================================================================
