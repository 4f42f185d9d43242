------------------------------ MODULE Bootstrap ------------------------------
(***************************************************************************)
(* The first steps of an organisation.  Several people of it may open the   *)
(* onboarding page and create the workspace, and later save the Registry    *)
(* profile, ask whether it is ready, and pass the actor gate.  The handlers *)
(* run one transaction after the other: look, create the organisation,      *)
(* create the user, write the audit event; each of them may be the last one *)
(* that happens.  What the Registry says of the organisation is recorded    *)
(* from outside, and lapses by the clock.                                   *)
(***************************************************************************)
EXTENDS Integers, FiniteSets, Sequences

CONSTANTS
  People,
  MaxCalls,  \* bound: calls started
  Times,     \* times a record may name
  Horizon,   \* of a verification, whatever it names: three years
  MaxTime,   \* bound: the clock
  MaxRecords, \* bound: records of the identity
  None

VARIABLES
  organisation,  \* None, or who created it
  users,         \* subjects of the user rows
  profile,       \* the Registry profile: None, or the call that wrote it last
  audit,         \* the organisation's audit events in their order
  form,          \* people whose page found no organisation and shows the form
  shown,         \* per person: the organisation the page shows, None for none
  call,          \* per person: the call under way
  calls,         \* calls started
  now,
  identities,    \* the records of the RegistryIdentity row, the last of which it holds
  answer         \* per person: the last answer of readiness or of the gate

rows == <<organisation, users, profile, audit>>
page == <<form, shown>>
registry == <<now, identities, answer>>
vars == <<rows, page, call, calls, registry>>

Idle == [step |-> "idle"]

Rejected == [status |-> "rejected", verifiedAt |-> None, validUntil |-> None, electronicIdExpiresAt |-> None]

Identities ==
  [status : {"verified"}, verifiedAt : Times \cup {None}, validUntil : Times \cup {None},
   electronicIdExpiresAt : Times \cup {None}] \cup {Rejected}

Init ==
  /\ organisation = None /\ users = {} /\ profile = None /\ audit = <<>>
  /\ form = {} /\ shown = [p \in People |-> None] /\ call = [p \in People |-> Idle] /\ calls = 0
  /\ now = 0 /\ identities = <<>> /\ answer = [p \in People |-> None]

-----------------------------------------------------------------------------
Goes(p, step) == call' = [call EXCEPT ![p].step = step]
Ends(p) == call' = [call EXCEPT ![p] = Idle]

(* The one request of a page: check, bootstrap, the profile, its readiness  *)
(* or the gate.  It knows how many records of the identity there were.      *)
Begin(p, step) ==
  /\ call[p] = Idle /\ calls < MaxCalls
  /\ step = "exists" => p \in form
  /\ calls' = calls + 1
  /\ call' = [call EXCEPT ![p] = [step |-> step, by |-> <<p, calls + 1>>, since |-> Len(identities), read |-> None, seen |-> {}]]
  /\ form' = IF step = "check" THEN form \ {p} ELSE form
  /\ UNCHANGED <<rows, shown, registry>>

(* GET organisations/current                                                *)
Check(p) ==
  /\ call[p].step = "check" /\ Ends(p)
  /\ form' = IF organisation = None THEN form \cup {p} ELSE form
  /\ shown' = [shown EXCEPT ![p] = organisation]
  /\ UNCHANGED <<rows, calls, registry>>

(* ORGANISATION_EXISTS, or on to the transaction that creates it.           *)
Exists(p) ==
  /\ call[p].step = "exists"
  /\ IF organisation = None THEN Goes(p, "create") ELSE Ends(p)
  /\ UNCHANGED <<rows, page, calls, registry>>

(* Mutant of Create: whoever comes last owns the row.                       *)
CreateAnyway(p) ==
  /\ call[p].step = "create"
  /\ organisation' = call[p].by /\ Goes(p, "user")
  /\ UNCHANGED <<users, profile, audit, page, calls, registry>>

(* organisation.create: the id of the organisation is the primary key.      *)
Create(p) ==
  /\ call[p].step = "create"
  /\ IF organisation = None THEN organisation' = call[p].by /\ Goes(p, "user")
     ELSE UNCHANGED organisation /\ Ends(p)
  /\ UNCHANGED <<users, profile, audit, page, calls, registry>>

CreateUser(p) ==
  /\ call[p].step = "user"
  /\ users' = users \cup {call[p].by} /\ Goes(p, "audit")
  /\ UNCHANGED <<organisation, profile, audit, page, calls, registry>>

(* upsertRegistryProfile, up to its audit event.                            *)
UpsertProfile(p) ==
  /\ call[p].step = "profile"
  /\ IF organisation = None THEN Ends(p) /\ UNCHANGED profile   \* foreign key
     ELSE profile' = call[p].by /\ Goes(p, "profileAudit")
  /\ UNCHANGED <<organisation, users, audit, page, calls, registry>>

(* AuditService.log: a transaction of its own after the one it reports.     *)
Log(p) ==
  /\ call[p].step \in {"audit", "profileAudit"}
  /\ audit' = Append(audit, [action |-> call[p].step, by |-> call[p].by])
  /\ Ends(p)
  /\ IF call[p].step = "audit"
     THEN shown' = [shown EXCEPT ![p] = call[p].by] /\ form' = form \ {p}
     ELSE UNCHANGED page
  /\ UNCHANGED <<organisation, users, profile, calls, registry>>

(* A transaction fails, the process ends or the answer is lost.             *)
Fails(p) ==
  /\ call[p] # Idle /\ Ends(p)
  /\ UNCHANGED <<rows, page, calls, registry>>

-----------------------------------------------------------------------------
(* Enrolment at the Registry                                                *)

(* No handler writes it: operators record what the Registry decided.        *)
RecordIdentity(i) ==
  /\ organisation # None /\ Len(identities) < MaxRecords /\ identities' = Append(identities, i)
  /\ UNCHANGED <<rows, page, call, calls, now, answer>>

Clock == now < MaxTime /\ now' = now + 1 /\ UNCHANGED <<rows, page, call, calls, identities, answer>>

(* registryProfileReadiness: three transactions in any order.               *)
ReadFor(p, what) ==
  /\ call[p].step = "readiness" /\ what \notin call[p].seen
  /\ what = "organisation" => organisation # None
  /\ what = "profile" => profile # None
  /\ call' = [call EXCEPT ![p].seen = @ \cup {what}, ![p].read = IF what = "identity" THEN Len(identities) ELSE @]
  /\ UNCHANGED <<rows, page, calls, registry>>

(* An organisation or a profile that is missed is an error or a blocker.    *)
NotReady(p) ==
  /\ call[p].step = "readiness" /\ Ends(p)
  /\ \/ "organisation" \notin call[p].seen /\ organisation = None
     \/ "profile" \notin call[p].seen /\ profile = None
  /\ answer' = [answer EXCEPT ![p] = None]
  /\ UNCHANGED <<rows, page, calls, now, identities>>

(* The row of the economic operator says verified; warnings do not count.   *)
Ready(p) ==
  /\ call[p].step = "readiness" /\ call[p].seen = {"organisation", "profile", "identity"} /\ Ends(p)
  /\ LET k == call[p].read IN
     answer' = [answer EXCEPT ![p] =
       IF k > 0 /\ identities[k].status = "verified"
       THEN [kind |-> "ready", since |-> call[p].since, to |-> Len(identities)] ELSE None]
  /\ UNCHANGED <<rows, page, calls, now, identities>>

(* RegistryIdentityService.getIdentity                                      *)
GetIdentity(p) ==
  /\ call[p].step = "gate"
  /\ call' = [call EXCEPT ![p].step = "evaluate", ![p].read = Len(identities)]
  /\ UNCHANGED <<rows, page, calls, registry>>

(* Mutant of Expiry: the longest of the horizons.                           *)
ExpiryLast(i) ==
  LET horizons == {i.verifiedAt + Horizon} \cup ({i.validUntil, i.electronicIdExpiresAt} \ {None}) IN
  CHOOSE h \in horizons : \A other \in horizons : h >= other

(* The first of the horizons a record has.                                  *)
Expiry(i) ==
  LET horizons == {i.verifiedAt + Horizon} \cup ({i.validUntil, i.electronicIdExpiresAt} \ {None}) IN
  CHOOSE h \in horizons : \A other \in horizons : h <= other

(* identityIsCurrentlyVerified                                              *)
CurrentlyVerified(i) ==
  i.status = "verified" /\ i.verifiedAt # None /\ i.verifiedAt <= now /\ Expiry(i) > now

(* The gate for the organisation itself reads the clock after the row.      *)
Gate(p) ==
  /\ call[p].step = "evaluate" /\ Ends(p)
  /\ LET k == call[p].read IN
     answer' = [answer EXCEPT ![p] =
       IF k > 0 /\ CurrentlyVerified(identities[k])
       THEN [kind |-> "allowed", since |-> call[p].since, to |-> Len(identities), at |-> now] ELSE None]
  /\ UNCHANGED <<rows, page, calls, now, identities>>

Onboard ==
  \E p \in People :
    \/ \E step \in {"check", "exists", "profile"} : Begin(p, step)
    \/ Check(p) \/ Exists(p) \/ Create(p) \/ CreateUser(p) \/ UpsertProfile(p) \/ Log(p) \/ Fails(p)

Enrol ==
  \/ Clock \/ \E i \in Identities : RecordIdentity(i)
  \/ \E p \in People :
       \/ \E step \in {"readiness", "gate"} : Begin(p, step)
       \/ \E what \in {"organisation", "profile", "identity"} : ReadFor(p, what)
       \/ NotReady(p) \/ Ready(p) \/ GetIdentity(p) \/ Gate(p)

Next == Onboard \/ Enrol

Spec == Init /\ [][Next]_vars
-----------------------------------------------------------------------------
(* Properties                                                               *)

(* However many people start the workspace at once, and wherever one of     *)
(* their calls breaks off, the organisation, its first user, the audit      *)
(* event and what any page shows agree on one creator; a later call can     *)
(* repair nothing and spoil nothing.                                        *)
OneFounder ==
  /\ users \subseteq {organisation} \ {None}
  /\ \A n \in DOMAIN audit : audit[n].action = "audit" => audit[n].by = organisation /\ organisation \in users
  /\ \A m, n \in DOMAIN audit : audit[m] = audit[n] => m = n
  /\ \A p \in People : shown[p] \in {None, organisation}

(* An answer that the enrolment is ready or the gate open goes back to a    *)
(* profile that is there and to one record the row held while the call ran, *)
(* and an open gate was within every horizon of that record at the moment   *)
(* it answered, whatever was recorded meanwhile.  (Readiness promises less: *)
(* it counts a verification that has lapsed, and profile and record need    *)
(* not have been there at the same time.)                                   *)
EnrolmentIsRecorded ==
  \A p \in People : answer[p] # None =>
    \E k \in answer[p].since..answer[p].to :
      /\ k > 0 /\ identities[k].status = "verified"
      /\ answer[p].kind = "ready" => profile # None
      /\ answer[p].kind = "allowed" =>
           LET i == identities[k] IN
           /\ i.verifiedAt # None /\ i.verifiedAt <= answer[p].at /\ answer[p].at < i.verifiedAt + Horizon
           /\ \A h \in {i.validUntil, i.electronicIdExpiresAt} : h # None => answer[p].at < h
=============================================================================
