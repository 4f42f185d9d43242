---------------------------- MODULE Provisioning -----------------------------
(***************************************************************************)
(* How an account comes to act for an organisation.  Administrators write    *)
(* the organisation and the role into the account's metadata at the identity *)
(* provider; an Action there, of which a reviewed copy is in the repository, *)
(* puts them into tokens as claims; the web application and the API read the *)
(* claims.  An audit inspects the provider in a series of requests, while    *)
(* administrators go on to deploy versions of the Action and change the flow *)
(* it is bound to.                                                           *)
(***************************************************************************)
EXTENDS Integers, Sequences, FiniteSets

CONSTANTS
  Organisations, Roles,
  Malformed,     \* an organisation or a role that is none
  Audiences,     \* of the tokens: the API's and others
  ApiAudience,
  None,
  MaxVersions    \* bound: deployments of the Action

VARIABLES
  metadata,  \* of the account: None, or [organisation, role]
  email,     \* "none", "verified" or "unverified"
  codes,     \* what each deployed version of the Action does: "repository" or "other"
  bound,     \* the Actions in the login flow, of "ours" and "foreign"
  secret,    \* the audience our Action knows, or None
  token,     \* the last one issued
  audit      \* the run of the audit

vars == <<metadata, email, codes, bound, secret, token, audit>>

Claims == [organisation : Organisations \cup {Malformed}, role : Roles \cup {Malformed}]

(* The requests after the configuration, in their order.                    *)
Checks == <<"console_client", "api_configuration", "deployed_action", "login_binding", "mfa_factors", "mfa_policy">>

Idle == [at |-> 0, version |-> None, passed |-> {}, flow |-> None]

Init ==
  /\ metadata = None /\ email \in {"none", "unverified"} /\ codes = <<>> /\ bound = {}
  /\ secret = None /\ token = None /\ audit = Idle

(* What the login flow is.                                                  *)
Flow == IF bound = {"ours"} /\ codes # <<>> THEN codes[Len(codes)] ELSE IF bound = {} THEN "none" ELSE "other"

-----------------------------------------------------------------------------
(* Administrators of the provider                                           *)

Provision(claims) ==
  /\ metadata' = claims
  /\ UNCHANGED <<email, codes, bound, secret, token, audit>>

Verify ==
  /\ email = "unverified" /\ email' = "verified"
  /\ UNCHANGED <<metadata, codes, bound, secret, token, audit>>

SetSecret(audience) ==
  /\ secret' = audience
  /\ UNCHANGED <<metadata, email, codes, bound, token, audit>>

(* A binding follows its Action to the new version.                         *)
Deploy(code) ==
  /\ Len(codes) < MaxVersions /\ codes' = Append(codes, code)
  /\ UNCHANGED <<metadata, email, bound, secret, token, audit>>

Bind(actions) ==
  /\ "ours" \in actions => codes # <<>>
  /\ bound' = actions
  /\ UNCHANGED <<metadata, email, codes, secret, token, audit>>

-----------------------------------------------------------------------------
(* A login                                                                  *)

(* Only what administrators wrote, in full and well-formed, and no address  *)
(* that is not verified.                                                    *)
Admitted ==
  /\ metadata # None /\ metadata.organisation \in Organisations /\ metadata.role \in Roles
  /\ email # "unverified"

(* Mutant of PostLogin: the claims are what the account itself asks for.    *)
PostLoginAsked(audience, claims, mfa) ==
  /\ secret # None
  /\ \/ audience # secret /\ claims = None
     \/ audience = secret /\ Admitted /\ mfa

(* onExecutePostLogin: denied without an audience to compare with; a token  *)
(* for anything else has no claims.                                         *)
PostLogin(audience, claims, mfa) ==
  /\ secret # None
  /\ \/ audience # secret /\ claims = None
     \/ audience = secret /\ Admitted /\ mfa /\ claims = metadata

(* Any other flow may put anything into a token, whatever the metadata.     *)
(* The step is the run of the flow, which fixes the claims; the challenge   *)
(* that the Action requests and the issue of the token follow and change    *)
(* neither, and a login whose challenge fails has no token.                 *)
Login(audience, claims, mfa) ==
  /\ CASE Flow = "repository" -> PostLogin(audience, claims, mfa)
       [] Flow = "none" -> claims = None
       [] OTHER -> TRUE
  /\ token' = [audience |-> audience, claims |-> claims, mfa |-> mfa, flow |-> Flow,
                metadata |-> IF Flow = "other" THEN None ELSE metadata]
  /\ UNCHANGED <<metadata, email, codes, bound, secret, audit>>

(* assertMfaIdentity, assertProvisionedIdentity: may the web application    *)
(* keep a session of the token?                                             *)
KeepsSession(t) ==
  t.mfa /\ t.claims # None /\ t.claims.organisation \in Organisations /\ t.claims.role \in Roles

(* claimName: the API is told which claims to read, or reads those of other *)
(* providers.  Ours are not among them.                                     *)
Mappings == [organisation : {"ours", "org_id"}, role : {"ours", "role"}]

(* actor: the organisation must be one; a missing role is the least.        *)
Actor(t, mapping) ==
  LET role == IF mapping.role = "ours" THEN t.claims.role ELSE "operator_user" IN
  IF t.audience = ApiAudience /\ t.claims # None /\ mapping.organisation = "ours"
     /\ t.claims.organisation \in Organisations /\ role \in Roles
  THEN [organisation |-> t.claims.organisation, role |-> role] ELSE None

-----------------------------------------------------------------------------
(* The audit: run                                                           *)

Goes(passes) == audit' = [audit EXCEPT !.at = @ + 1, !.passed = IF passes THEN @ \cup {Checks[audit.at]} ELSE @]

BeginAudit ==
  /\ audit.at \in {0, Len(Checks) + 1}
  /\ audit' = [Idle EXCEPT !.at = 1]
  /\ UNCHANGED <<metadata, email, codes, bound, secret, token>>

(* clientContract, apiContract, factorContract and policyContract look at   *)
(* what is apart from the flow; a request may fail.                         *)
OtherCheck ==
  /\ audit.at \in DOMAIN Checks /\ Checks[audit.at] \notin {"deployed_action", "login_binding"}
  /\ \E passes \in BOOLEAN : Goes(passes)
  /\ UNCHANGED <<metadata, email, codes, bound, secret, token>>

(* actionContract: the code of the deployed version is the repository's.    *)
DeployedAction ==
  LET passes == codes # <<>> /\ codes[Len(codes)] = "repository" /\ secret # None IN
  /\ audit.at \in DOMAIN Checks /\ Checks[audit.at] = "deployed_action"
  /\ \/ passes /\ audit' = [audit EXCEPT !.at = @ + 1, !.passed = @ \cup {"deployed_action"}, !.version = Len(codes)]
     \/ Goes(FALSE)
  /\ UNCHANGED <<metadata, email, codes, bound, secret, token>>

(* Mutant of BindingContract: our Action is bound, in whichever version.    *)
BindingAny == bound = {"ours"} /\ audit.version # None

(* One binding, of our Action, in the version whose code was looked at.     *)
BindingContract == bound = {"ours"} /\ audit.version # None /\ Len(codes) = audit.version

(* The flow of this moment is remembered.                                   *)
LoginBinding ==
  /\ audit.at \in DOMAIN Checks /\ Checks[audit.at] = "login_binding"
  /\ \/ /\ BindingContract
        /\ audit' = [audit EXCEPT !.at = @ + 1, !.passed = @ \cup {"login_binding"}, !.flow = Flow]
     \/ Goes(FALSE)
  /\ UNCHANGED <<metadata, email, codes, bound, secret, token>>

Report == audit.at = Len(Checks) + 1 /\ audit.passed = {Checks[n] : n \in DOMAIN Checks}

Administer ==
  \/ \E claims \in Claims \cup {None} : Provision(claims)
  \/ Verify \/ \E audience \in Audiences \cup {None} : SetSecret(audience)
  \/ \E code \in {"repository", "other"} : Deploy(code)
  \/ \E actions \in SUBSET {"ours", "foreign"} : Bind(actions)

LogIn == \E audience \in Audiences, claims \in Claims \cup {None}, mfa \in BOOLEAN : Login(audience, claims, mfa)

Audit == BeginAudit \/ OtherCheck \/ DeployedAction \/ LoginBinding

Next == Administer \/ LogIn \/ Audit

Spec == Init /\ [][Next]_vars

-----------------------------------------------------------------------------
(* Properties                                                               *)

(* Who acts in the API, or keeps a session, with a token of the repository's *)
(* flow acts for the organisation, and in the role, that administrators had  *)
(* written when the Action ran, whatever they changed since ("Only trusted   *)
(* administrator-controlled app_metadata supplies these claims",             *)
(* post-login-action.cjs:44); only an API that was told of no role claim     *)
(* takes everyone for an operator_user.  No mapping lets in a token that     *)
(* has none of the claims.                                                   *)
ActsAsProvisioned ==
  token # None /\ token.flow \in {"repository", "none"} =>
    /\ \A mapping \in Mappings : LET actor == Actor(token, mapping) IN
         actor # None =>
           /\ token.metadata # None /\ actor.organisation = token.metadata.organisation
           /\ actor.role = IF mapping.role = "ours" THEN token.metadata.role ELSE "operator_user"
    /\ KeepsSession(token) => token.metadata = token.claims

(* A report that all checks passed saw, in one and the same moment, the     *)
(* flow run the repository's code, though it looked at the code and at the  *)
(* binding in two requests.                                                 *)
ReportSawTheFlow == Report => audit.flow = "repository"
=============================================================================
