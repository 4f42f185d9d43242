------------------------------- MODULE MCWeb --------------------------------
(* The pages and the session of the web application, the people and their   *)
(* organisations behind them, the public page of a passport and the intake  *)
(* form of the website on small instances.  They keep their state apart     *)
(* from each other; a behaviour follows one of them, part, while the others *)
(* stay where they start.                                                   *)
EXTENDS SignIn, Sequences, TLC

CONSTANTS
  people, enrolling, MaxCalls, Enough, Times, Horizon, MaxClock, MaxRecords,  \* Bootstrap
  batteries, f1, f2, Points, Profiles,    \* ModelPage
  i1, items, Fields, evidence, Contested, MaxLoads, MaxSaves,  \* DossierPage
  supplierRequests, MaxSubmits,           \* SuppliersPage
  Calls, MAX_REQUEST_BYTES, MAX_RESPONSE_BYTES, Sizes, MaxSessions,  \* Console
  Pages, Forms, MaxText, Heading, AnswerSize, MaxMessage, MaxHour, MaxPosts,  \* IntakeForm
  publicItems, Status, Releases, visitors,  \* Disclosure
  Organisations, userRoles, Malformed, Audiences, ApiAudience, MaxVersions,  \* Provisioning
  clerk, administrator, officer, provider, Staff, Accounts, Home, Role, Mandates  \* Authority

(* None is no kind of command, no profile and no approval of one, nor the   *)
(* page; others work on data points there are.                              *)
ASSUME PagesAssumption ==
  /\ None \notin {"accept", "review", "model", "item", "open", "save", "link", "validateValue", "validatePassport",
                  "publish", "export", "download", "verify", "detail", "page"}
  /\ Contested \subseteq items \X Fields
  /\ None \notin Profiles
  /\ \A p \in Profiles : None \notin [model : batteries, decisions : [p.points -> {"yes", "no"}], profile : {p}]

(* Records have times; nobody is called None or new.                        *)
ASSUME OrganisationsAssumption ==
  /\ Times \subseteq Int /\ Horizon \in Int
  /\ None \notin people \X Nat /\ {None, "new"} \cap Staff = {}

VARIABLES
  part,
  organisation, users, profile, audit, form, shown, call, calls, clock, identities, answer,
  context, release, selected, fetching, detail, review, decisions, approved, modelBusy,
  item, itemId, field, saved, values, valueDetail, valueFetching, confirmed, reviewed, sequence, loads, busy,
  intake, posts, awaits, reference, intakes, hour,
  api, web, version, snapshot, issued, reader,
  metadata, email, deployed, bound, secret, claimed, inspection,
  mode, battery, document, entry, attached, passport, grants, granted, basis, touched,
  status, submissions, invited, imported, invitation, linked, listed, declared, word, waiting,
  configured, cookie, cookies, panel, opening, leaving, command, working, applied

founding == <<organisation, users, profile, audit, form, shown, call, calls, clock, identities, answer>>
models   == <<context, release, selected, fetching, detail, review, decisions, approved, modelBusy>>
dossier  == <<item, itemId, field, saved, values, valueDetail, valueFetching, confirmed, reviewed,
              sequence, loads, busy>>
intaking == <<intake, posts, awaits, reference, intakes, hour>>
public   == <<api, web, version, snapshot, issued, reader>>
accounts == <<metadata, email, deployed, bound, secret, claimed, inspection>>
authority == <<mode, battery, document, entry, attached, passport, grants, granted, basis, touched>>
requests == <<status, submissions, invited, imported, invitation, linked, listed, declared, word, waiting>>
console  == <<configured, cookie, cookies, panel, opening, leaving, command, working, applied>>
all == <<part, founding, models, dossier, intaking, public, accounts, authority, requests, console, vars>>

Founding == INSTANCE Bootstrap WITH People <- people, now <- clock, MaxTime <- MaxClock

MCProfiles == {[points |-> {f1, f2}, wording |-> 1], [points |-> {f1}, wording |-> 1]}

Review == INSTANCE ModelPage WITH
  Models <- batteries, profile <- release, busy <- modelBusy

(* Others work on one data point of one item.                               *)
MCContested == {<<i1, f1>>}

Dossier == INSTANCE DossierPage WITH
  Items <- items, Evidence <- evidence,
  detail <- valueDetail, fetching <- valueFetching

(* What fits, a company of blanks, answers of which the message gets too    *)
(* long, and one of no known form.                                          *)
Answers(company, text, given, wrong) == [company |-> company, text |-> text, given |-> given, wrong |-> wrong]
MCForms == {
  Answers(2, 1, {}, {}), Answers(2, 3, {"role"}, {}), Answers(2, 3, {"role", "energy"}, {}),
  Answers(1, 0, {"energy"}, {}), Answers(1, 0, {"energy"}, {"energy"})}

Form == INSTANCE IntakeForm WITH form <- intake

(* Releases that open and close the status, the second field, and one that  *)
(* closes both.                                                             *)
MCReleases == {
  f1 :> "public" @@ f2 :> "legitimate_interest_item", f1 :> "public" @@ f2 :> "public",
  f1 :> "legitimate_interest_model" @@ f2 :> "authority_only"}

Public == INSTANCE Disclosure WITH Items <- publicItems, Readers <- visitors

Audited == INSTANCE Provisioning WITH Roles <- userRoles, codes <- deployed, token <- claimed, audit <- inspection

(* A login runs what is deployed, whatever was before.                      *)
Logins == INSTANCE Provisioning WITH
  MaxVersions <- 1, Roles <- userRoles, codes <- deployed, token <- claimed, audit <- inspection

(* Of the organisation and of its provider; in development there is one more *)
(* officer.  Authorisations to look on, and to bring a passport all the way.  *)
MCHome == [p \in Staff |-> IF p = provider THEN "provider" ELSE "own"]
MCRole == clerk :> "operator_user" @@ administrator :> "operator_admin" @@ officer :> "compliance_manager"
          @@ provider :> "service_provider_admin"
MCMandates == {
  {"modelRead", "itemRead", "evidenceRead", "passportRead"},
  {"modelWrite", "applicabilityReview", "itemWrite", "valueWrite", "valueReview", "evidenceWrite", "evidenceReview",
   "passportValidate", "passportPublish"}}

Authority == INSTANCE Authority WITH
  People <- Staff, Delegations <- Mandates,
  model <- battery, value <- entry, linked <- attached, state <- passport

Chase == INSTANCE SuppliersPage WITH
  Requests <- supplierRequests,
  review <- declared, reviewed <- word, busy <- waiting

Workspace == INSTANCE Console WITH
  session <- cookie, sessions <- cookies, call <- command

(* The starts of the parts that stay there are the same in all behaviours.  *)
MCInit ==
  /\ part \in {"bootstrap", "enrolment", "models", "dossier", "session", "intake", "public", "logins", "audit", "authority",
              "suppliers", "console"}
  /\ Founding!Init /\ Chase!Init /\ Workspace!Init
  /\ Review!Init /\ Dossier!Init /\ Init /\ Form!Init /\ Public!Init /\ Audited!Init /\ Authority!Init
  /\ email = IF part = "logins" THEN "unverified" ELSE "none"
  /\ part # "authority" => mode = "oidc"
  /\ part # "console" => configured /\ cookies = 0
  /\ part # "public" => api = web /\ api[f2] = "public"
  /\ part # "models" => release.points = {f1, f2}
  /\ part # "dossier" => field = f1 /\ sequence = 0 /\ \A x \in DOMAIN saved : saved[x].no = 0
  /\ part = "dossier" => \A x \in (items \X Fields) \ Contested : saved[x].no = IF x[2] = f1 \/ x[1] = i1 THEN 1 ELSE 0

(* Administrators are at work in the logins and in the audit; few take all  *)
(* the steps of an enrolment.                                               *)
MCNext ==
  /\ part' = part
  /\ \/ /\ \/ part = "bootstrap" /\ Founding!Onboard
           \/ part = "enrolment" /\ Founding!Next /\ calls' <= Enough /\ \A p \in people \ enrolling : call'[p] = call[p]
        /\ UNCHANGED <<models, dossier, intaking, public, accounts, authority, requests, console, vars>>
     \/ part = "models" /\ Review!Next /\ UNCHANGED <<founding, dossier, intaking, public, accounts, authority, requests, console, vars>>
     \/ part = "dossier" /\ Dossier!Next /\ UNCHANGED <<founding, models, intaking, public, accounts, authority, requests, console, vars>>
     \/ part = "session" /\ Next /\ UNCHANGED <<founding, models, dossier, intaking, public, accounts, authority, requests, console>>
     \/ part = "intake" /\ Form!Next /\ UNCHANGED <<founding, models, dossier, public, accounts, authority, requests, console, vars>>
     \/ part = "public" /\ Public!Next /\ UNCHANGED <<founding, models, dossier, intaking, accounts, authority, requests, console, vars>>
     \/ part = "suppliers" /\ Chase!Next /\ UNCHANGED <<founding, models, dossier, intaking, public, accounts, authority, console, vars>>
     \/ part = "console" /\ Workspace!Next /\ UNCHANGED <<founding, models, dossier, intaking, public, accounts, authority, requests, vars>>
     \/ /\ \/ part = "logins" /\ (Logins!Administer \/ Logins!LogIn)
           \/ part = "audit" /\ (Audited!Administer \/ Audited!Audit)
        /\ UNCHANGED <<founding, models, dossier, intaking, public, authority, requests, console, vars>>
     \/ part = "authority" /\ Authority!Next
        /\ UNCHANGED <<founding, models, dossier, intaking, public, accounts, requests, console, vars>>

MCSpec == MCInit /\ [][MCNext]_all

-----------------------------------------------------------------------------
(* Properties of the parts                                                  *)

(* Onboarding leaves one creator of the organisation, an enrolment that is  *)
(* said to be ready or let through was recorded so (Bootstrap), and what is *)
(* published was reviewed, whoever worked on it (Authority).                *)
OrganisationsHold ==
  /\ Founding!OneFounder /\ Founding!EnrolmentIsRecorded
  /\ Authority!PublishedWasReviewed /\ Authority!ProvidersWereLetIn

(* A complete review was approved point by point on the page (ModelPage), a *)
(* command acts on what was on screen when it was meant (DossierPage), so   *)
(* does the word given for declarations (SuppliersPage), what the page is   *)
(* told of a command is true for good (Console), and the intake that is     *)
(* confirmed is the one that is stored (IntakeForm).                        *)
PagesAreMeant ==
  /\ Review!CompleteIsApproved /\ Dossier!CommandsAreMeant /\ Chase!WordIsForTheScreen
  /\ Workspace!ToldIsTrue /\ Form!ConfirmedIsStored

(* No reader sees what a catalogue on the way withholds (Disclosure).       *)
NothingWithheldIsShown == Public!NothingWithheldIsShown
(* Tokens let act as administrators provisioned, and an audit that passes   *)
(* saw the flow of the repository (Provisioning).                           *)
AccountsHold == Audited!ActsAsProvisioned /\ Audited!ReportSawTheFlow
=============================================================================
