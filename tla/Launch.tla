------------------------------- MODULE Launch --------------------------------
(***************************************************************************)
(* From the settings of a deployment to its services.  A blueprint is        *)
(* rendered from two templates.  An image is built for the public addresses  *)
(* its pages use.  Console and API start from the image, with whatever       *)
(* settings operators have given them by then, and refuse those that do not  *)
(* fit.  A preflight inspects the infrastructure of the API in a series of   *)
(* requests, while it changes.                                               *)
(***************************************************************************)
EXTENDS Integers, Sequences, FiniteSets

CONSTANTS
  Hosts,
  Templates,    \* contents of a template: sequences of Lines
  Settings,     \* of the API: a subset of AllSettings
  MaxFaults,    \* bound: things not in order at a time
  None

VARIABLES
  blueprint,    \* the file at the output path, or None
  image,        \* the addresses it was built for, or None
  environment,  \* of the console, as operators set it
  console,      \* the process: None, or [assets, environment]
  api,          \* does it listen?
  faults,       \* what is not in order now
  preflight

infrastructure == <<api, faults, preflight>>
deployment     == <<blueprint, image, environment, console>>
vars           == <<deployment, infrastructure>>

-----------------------------------------------------------------------------
(* render-blueprint                                                         *)

Secrets == {"DATABASE_URL", "AUTH0_CLIENT_SECRET"}
NoValue == ""
Lines   == [key : Secrets \cup {"CLAMAV_HOST", "PORT"}, value : {NoValue, "given"}]

(* envTemplate: no field twice, no secret with a value.                     *)
Accepted(t) ==
  /\ \A m, n \in DOMAIN t : m # n => t[m].key # t[n].key
  /\ \A n \in DOMAIN t : t[n].key \in Secrets => t[n].value = NoValue

(* A field without a value is asked for.                                    *)
Fields(t) == [key \in {t[n].key : n \in DOMAIN t} |->
                IF [key |-> key, value |-> NoValue] \in {t[n] : n \in DOMAIN t} THEN "asked" ELSE "given"]

(* The API's scanner is a service of the blueprint.  The file is written     *)
(* only where there is none.                                                *)
RenderBlueprint(apiTemplate, webTemplate) ==
  /\ Accepted(apiTemplate) /\ Accepted(webTemplate)
  /\ \E n \in DOMAIN apiTemplate : apiTemplate[n].key = "CLAMAV_HOST"
  /\ blueprint = None
  /\ blueprint' = [api |-> [Fields(apiTemplate) EXCEPT !["CLAMAV_HOST"] = "service"], web |-> Fields(webTemplate)]
  /\ UNCHANGED <<image, environment, console, infrastructure>>

RemoveBlueprint ==
  /\ blueprint' = None
  /\ UNCHANGED <<image, environment, console, infrastructure>>

-----------------------------------------------------------------------------
(* The image and the console                                                *)

ApiAddresses    == [host : Hosts, form : {"v1", "v1_slash", "other_path", "plain"}]
UploadAddresses == [host : Hosts, form : {"origin", "path", "plain"}]
Environments    == [api : ApiAddresses, upload : UploadAddresses, backend : ApiAddresses, signin : BOOLEAN]

(* publicOrigins: HTTPS, the API's /v1 and nothing else, a bare origin.     *)
PublicOrigins(e) == e.api.form = "v1" /\ e.upload.form = "origin"

(* build-origins, then the pages, from the same arguments.                  *)
Build(arguments) ==
  /\ PublicOrigins(arguments)
  /\ image' = arguments
  /\ UNCHANGED <<blueprint, environment, console, infrastructure>>

SetEnvironment(variable, value) ==
  /\ environment' = [environment EXCEPT ![variable] = value]
  /\ UNCHANGED <<blueprint, image, console, infrastructure>>

(* Mutant of FitsBuild: one of the two addresses is compared.               *)
FitsBuildApi(e) == image.api = e.api

(* The two addresses are the ones of the build.                             *)
FitsBuild(e) == image = [api |-> e.api, upload |-> e.upload]

(* start-service web: readAuth0Config, the origins of the build, the API's. *)
StartConsole ==
  /\ console = None /\ image # None
  /\ environment.signin
  /\ PublicOrigins(environment)
  /\ FitsBuild(environment)
  /\ environment.backend = environment.api
  /\ console' = [assets |-> image, environment |-> environment]
  /\ UNCHANGED <<blueprint, image, environment, infrastructure>>

StopConsole ==
  /\ console' = None
  /\ UNCHANGED <<blueprint, image, environment, infrastructure>>

(* allowedOrigin of the middleware, which answers 503 without; the API's    *)
(* address may have any path there.  A build has its addresses inlined.     *)
HasPolicy(assets) == assets.api.form # "plain" /\ assets.upload.form = "origin"

(* backendUrl, from the environment of the process.                         *)
HasBackend(e) == e.backend.form \in {"v1", "v1_slash"}

-----------------------------------------------------------------------------
(* The API                                                                  *)

(* An https address as it should be, in blanks, with a query, without TLS.  *)
Forms == {"exact", "padded", "query", "plain"}

AllSettings == [
  mode : {"oidc", "dev"}, portals : Forms, issuer : Forms, jwks : Forms,
  audience : {"exact", "padded", "blank"}, origins : SUBSET {"exact", "padded", "path"},
  scanner : BOOLEAN, claims : {"ours", "unset", "same"}, algorithms : {"RS256", "PS256", "HS256"},
  storage : {"eu", "elsewhere"}]

HttpsUrl(form) == form \in {"exact", "query"}

AssertProductionConfig(s) ==
  /\ s.mode = "oidc" /\ HttpsUrl(s.portals) /\ HttpsUrl(s.issuer) /\ HttpsUrl(s.jwks)
  /\ s.audience # "blank" /\ s.origins # {} /\ "path" \notin s.origins /\ s.scanner

(* Its constructor.                                                         *)
AuthService(s) ==
  /\ s.mode = "oidc" /\ s.claims # "same" /\ s.algorithms # "HS256"
  /\ HttpsUrl(s.issuer) /\ s.audience = "exact" /\ HttpsUrl(s.jwks)

StartsWith(s) == AssertProductionConfig(s) /\ AuthService(s)

(* start-service api, with the settings s: the database is inspected before *)
(* the API listens.                                                         *)
StartApi(s) ==
  /\ ~api /\ StartsWith(s) /\ "database" \notin faults
  /\ api' = TRUE
  /\ UNCHANGED <<deployment, faults, preflight>>

StopApi ==
  /\ api' = FALSE
  /\ UNCHANGED <<deployment, faults, preflight>>

-----------------------------------------------------------------------------
(* production-preflight                                                     *)

(* The requests of the inspections, in their order.                         *)
Inspections == <<
  <<"database">>,
  <<"discovery", "keys">>,
  <<"location", "versioning", "publicAccess", "policy", "encryption", "lock", "cors">>,
  <<"signatures", "clamd">> >>

Things == UNION {{Inspections[i][n] : n \in DOMAIN Inspections[i]} : i \in DOMAIN Inspections}

Https(form) == form \in {"exact", "padded"}

Configuration(s) ==
  /\ s.mode = "oidc" /\ Https(s.portals) /\ s.issuer = "exact" /\ Https(s.jwks)
  /\ s.audience # "blank" /\ s.origins = {"exact"} /\ s.scanner
  /\ s.claims = "ours" /\ s.algorithms = "RS256" /\ s.storage = "eu"

(* Its run keeps the settings it was given; data is what its answers showed *)
(* not in order in this inspection; never is what was not in order at any   *)
(* moment since it began.                                                   *)
Idle == [given |-> None, inspection |-> 0, request |-> 1, data |-> {}, failed |-> FALSE, never |-> {}]

(* Begin: nothing is inspected when the configuration fails.                *)
BeginPreflight(s) ==
  LET passes == Configuration(s) IN
  /\ preflight.inspection \in {0, Len(Inspections) + 1}
  /\ preflight' = [Idle EXCEPT !.given = s, !.failed = ~passes, !.never = faults,
                               !.inspection = IF passes THEN 1 ELSE Len(Inspections) + 1]
  /\ UNCHANGED <<deployment, api, faults>>

(* An inspection ends: it failed if a request did, or if its contract finds *)
(* something in its data.                                                   *)
Ends(failed) == preflight' = [preflight EXCEPT
  !.inspection = @ + 1, !.request = 1, !.data = {}, !.failed = @ \/ failed]

(* Mutant of Answers: the contract looks at the last answer only.           *)
AnswersLast(thing) == faults \cap {thing}

Answers(thing) == preflight.data \cup (faults \cap {thing})

(* The issuer's own document names the key address, without blanks.         *)
Contract(data) == data = {} /\ (preflight.inspection = 2 => preflight.given.jwks = "exact")

Read ==
  /\ preflight.inspection \in DOMAIN Inspections
  /\ LET requests == Inspections[preflight.inspection]
         data     == Answers(requests[preflight.request])
     IN \/ Ends(TRUE)
        \/ preflight.request < Len(requests)
           /\ preflight' = [preflight EXCEPT !.request = @ + 1, !.data = data]
        \/ preflight.request = Len(requests) /\ Ends(~Contract(data))
  /\ UNCHANGED <<deployment, api, faults>>

(* technicalChecksPassed                                                    *)
Passed == preflight.inspection = Len(Inspections) + 1 /\ ~preflight.failed

(* Somebody changes the infrastructure, or signatures grow old.             *)
Change(thing) ==
  /\ faults' = IF thing \in faults THEN faults \ {thing} ELSE faults \cup {thing}
  /\ Cardinality(faults') <= MaxFaults
  /\ preflight' = [preflight EXCEPT !.never = @ \cap faults']
  /\ UNCHANGED <<deployment, api>>

-----------------------------------------------------------------------------
Init ==
  /\ blueprint = None /\ image = None /\ console = None
  /\ environment \in {e \in Environments : e.api = e.backend}
  /\ api = FALSE /\ faults = {} /\ preflight = Idle

Plan == (\E t, u \in Templates : RenderBlueprint(t, u)) \/ RemoveBlueprint

Deploy ==
  \/ \E a \in ApiAddresses, u \in UploadAddresses : Build([api |-> a, upload |-> u])
  \/ \E a \in ApiAddresses : SetEnvironment("api", a) \/ SetEnvironment("backend", a)
  \/ \E u \in UploadAddresses : SetEnvironment("upload", u)
  \/ \E b \in BOOLEAN : SetEnvironment("signin", b)
  \/ StartConsole \/ StopConsole

Operate ==
  \/ \E s \in Settings : StartApi(s) \/ BeginPreflight(s)
  \/ \E thing \in Things : Change(thing)
  \/ StopApi \/ Read

Next == Plan \/ Deploy \/ Operate

Spec == Init /\ [][Next]_vars

-----------------------------------------------------------------------------
(* Properties                                                               *)

(* A console that is up, through rebuilds and changes of its environment,   *)
(* gives its pages a security policy and forwards their commands to the API *)
(* whose address was built into them (docs/23_PRODUCTION_OPERATIONS.md:42). *)
(* No blueprint holds a secret.                                             *)
DeploymentFits ==
  /\ console # None =>
       /\ HasPolicy(console.assets) /\ HasBackend(console.environment)
       /\ console.environment.backend = console.assets.api
       /\ console.environment.upload = console.assets.upload
  /\ blueprint # None => \A key \in Secrets :
       /\ key \in DOMAIN blueprint.api => blueprint.api[key] = "asked"
       /\ key \in DOMAIN blueprint.web => blueprint.web[key] = "asked"

(* "Exit 0 means the five technical inspections passed"                     *)
(* (docs/23_PRODUCTION_OPERATIONS.md:66): each thing that was inspected was *)
(* in order at some moment of the run, though perhaps never all at once;    *)
(* and the API starts with the settings that were inspected, unless there   *)
(* are blanks around its audience or the addresses of its portals, which    *)
(* only the API refuses.                                                    *)
PassedInspection == Passed =>
  /\ preflight.never = {}
  /\ StartsWith(preflight.given) \/ "padded" \in {preflight.given.audience, preflight.given.portals}
=============================================================================
