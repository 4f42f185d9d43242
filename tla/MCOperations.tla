---------------------------- MODULE MCOperations -----------------------------
(* Around the API and the site, on small instances: the scan of an object   *)
(* by clamd, the dependency installs of a machine, the pnpm process of one  *)
(* install, the paper an operator's model is assessed on, and the launch of *)
(* the services with its preflight.  They share nothing; a behaviour        *)
(* follows one of them, part, while the others stay where they start.       *)
EXTENDS Installs, Sequences, TLC

CONSTANTS
  Bodies, MaxChunks,                     \* MalwareScan
  here, moved,                           \* a project, and a runtime root elsewhere
  pnpm1, pnpm2, npm1, bare1, bare2, \* runs
  Packages, MaxPackages,                 \* PnpmInstall
  Models, Ids, Energies, MaxRecords,     \* IndustrialAssessment
  host1, host2, Hosts, Templates, Settings, MaxFaults  \* Launch

(* None is no answer and no number; energies are numbers, and a chunk of an *)
(* object is of one of three kinds.                                         *)
ASSUME OperationsAssumption ==
  /\ Bodies \subseteq Seq({"empty", "harmless", "infected"}) /\ Energies \subseteq Int
  /\ None \notin Int /\ None \notin BOOLEAN
  /\ None \notin {"EV", "LMT", "INDUSTRIAL", "INDUSTRIAL_GT_2KWH", "OTHER"}

VARIABLES
  part, body, request, socket, outcome,
  stage, progress, failure, signal, code, marker, report, exit, seen,
  scope, model, review, evidence,
  blueprint, image, environment, console, api, faults, preflight

Clamd == INSTANCE MalwareScan

(* Objects of up to three chunks.                                           *)
MCBodies == UNION {[1..k -> {"empty", "harmless", "infected"}] : k \in 0..3}

MCKind == [r \in Runs |-> IF r = npm1 THEN "npm" ELSE IF r \in {bare1, bare2} THEN "bare" ELSE "pnpm"]
MCProjectOf == [r \in Runs |-> here]
MCRootOf == [r \in Runs |-> IF r = pnpm2 THEN moved ELSE here]

Pnpm == INSTANCE PnpmInstall

Paper == INSTANCE IndustrialAssessment

Services == INSTANCE Launch

(* Templates: two that are accepted, one with a secret, one with a field    *)
(* twice.                                                                   *)
Asked(key) == [key |-> key, value |-> ""]
Given(key) == [key |-> key, value |-> "given"]
MCTemplates == {
  <<Asked("CLAMAV_HOST"), Asked("DATABASE_URL")>>, <<Given("PORT"), Asked("AUTH0_CLIENT_SECRET")>>,
  <<Given("DATABASE_URL"), Asked("CLAMAV_HOST")>>, <<Given("PORT"), Given("PORT")>>}

(* The settings that are right, and those that differ in one.               *)
Right == [mode |-> "oidc", portals |-> "exact", issuer |-> "exact", jwks |-> "exact", audience |-> "exact",
          origins |-> {"exact"}, scanner |-> TRUE, claims |-> "ours", algorithms |-> "RS256", storage |-> "eu"]
MCSettings == {
  [Right EXCEPT !.mode = "dev"], [Right EXCEPT !.audience = "padded"], [Right EXCEPT !.audience = "blank"],
  [Right EXCEPT !.scanner = FALSE], [Right EXCEPT !.claims = "unset"], [Right EXCEPT !.claims = "same"],
  [Right EXCEPT !.algorithms = "PS256"], [Right EXCEPT !.algorithms = "HS256"], [Right EXCEPT !.storage = "elsewhere"]}
  \cup {[Right EXCEPT ![url] = form] : url \in {"portals", "issuer", "jwks"}, form \in {"padded", "query", "plain"}}
  \cup {[Right EXCEPT !.origins = forms] : forms \in SUBSET {"exact", "padded", "path"}}

ASSUME LaunchAssumption ==
  /\ Settings \subseteq Services!AllSettings
  /\ Templates \subseteq Seq(Services!Lines)

scan     == <<body, request, socket, outcome>>
process  == <<stage, progress, failure, signal, code, marker, report, exit, seen>>
paper    == <<scope, model, review, evidence>>
services == <<blueprint, image, environment, console, api, faults, preflight>>
all      == <<part, vars, scan, process, paper, services>>

MCInit ==
  /\ part \in {"scan", "installs", "pnpm", "paper", "plan", "console", "preflight"}
  /\ Init /\ Clamd!Init /\ Pnpm!Init /\ Paper!Init /\ Services!Init
  /\ part # "scan" => body = <<>>
  /\ environment.api = [host |-> host1, form |-> "v1"] /\ environment.upload.form = "origin"
  /\ part # "console" => environment.upload.host = host1 /\ environment.signin

Scans(A) == part = "scan" /\ A /\ UNCHANGED <<part, vars, process, paper, services>>

MCNext ==
  \/ Scans(Clamd!Next)
  \/ part = "installs" /\ Next /\ UNCHANGED <<part, scan, process, paper, services>>
  \/ part = "pnpm" /\ Pnpm!Next /\ UNCHANGED <<part, vars, scan, paper, services>>
  \/ part = "paper" /\ Paper!Next /\ UNCHANGED <<part, vars, scan, process, services>>
  \/ /\ \/ part = "plan" /\ Services!Plan
        \/ part = "console" /\ Services!Deploy
        \/ part = "preflight" /\ Services!Operate
     /\ UNCHANGED <<part, vars, scan, process, paper>>

(* Fair as the scan is: FairSpec of MalwareScan.                            *)
MCSpec ==
  /\ MCInit /\ [][MCNext]_all
  /\ WF_all(Scans(Clamd!Deadline)) /\ WF_all(Scans(Clamd!SenderFails)) /\ WF_all(Scans(Clamd!Conclude))

-----------------------------------------------------------------------------
(* Properties of the parts                                                  *)

(* The verdict of a scan is the one on the whole object (MalwareScan).      *)
VerdictOnTheWhole == Clamd!VerdictOnTheWhole

(* A scan ends, whatever clamd, network and object store do.                *)
Settles == part = "scan" ~> outcome # "none"

(* What reports success has it: the status and the report of a pnpm install *)
(* (PnpmInstall), and the preflight of the infrastructure (Launch); and a   *)
(* console that is up fits its build (Launch).                              *)
ReportsAreTrue == Pnpm!StatusIsTrue /\ Services!PassedInspection /\ Services!DeploymentFits

(* An indicator of the paper stands (IndustrialAssessment).                 *)
VerdictsStand == Paper!VerdictsStand
=============================================================================
