----------------------------- MODULE Disclosure ------------------------------
(***************************************************************************)
(* What a published passport discloses, and to whom.  Publication stores the *)
(* version, and next to it a snapshot of its public fields.  The API serves  *)
(* the snapshot to anyone and a version to who holds a grant; the public     *)
(* page of the web application asks the API.  Each of the three projects     *)
(* what it has by its own catalogue of the fields' tiers: API and web        *)
(* application are deployed apart, and a release may come back.              *)
(***************************************************************************)
EXTENDS Integers, FiniteSets

CONSTANTS
  Items, Fields,
  Status,     \* the field that the battery's lifecycleStatus repeats (67)
  Releases,   \* catalogues: the tier of each field
  Readers, None

(* A value may hold, inside its JSON, a key of the system's own, or be      *)
(* nested deeper than the page follows.                                     *)
Insides == {"plain", "keyed", "deep"}

CapabilityTiers == {"legitimate_interest_model", "legitimate_interest_item"}

VARIABLES
  api, web,   \* the catalogues the two processes run with
  version,    \* per item: the latest published version: what is inside each of its values
  snapshot,   \* per item: the active snapshot
  issued,     \* per item: the releases its active snapshot was made under
  reader      \* per reader: the request under way and what is on screen

vars == <<api, web, version, snapshot, issued, reader>>

Nobody == [item |-> None, by |-> None, answer |-> None, page |-> None]

Init ==
  /\ api \in Releases /\ web \in Releases
  /\ version = [i \in Items |-> None] /\ snapshot = [i \in Items |-> None] /\ issued = [i \in Items |-> None]
  /\ reader = [r \in Readers |-> Nobody]

(* The fields one may have who holds a grant of the tier, or none.          *)
Allowed(catalogue, tier) == {f \in Fields : catalogue[f] \in {"public", tier}}

(* Mutant of ProjectPassport: the status is taken for a part of the         *)
(* battery's identity.                                                      *)
ProjectStatus(catalogue, tier, json) ==
  [values |-> [f \in DOMAIN json.values \cap Allowed(catalogue, tier) |-> json.values[f]],
   lifecycleStatus |-> json.lifecycleStatus]

(* projectPassport: values by the catalogue, whatever tiers are stored with *)
(* them; the alias like the field it repeats.                               *)
ProjectPassport(catalogue, tier, json) ==
  [values |-> [f \in DOMAIN json.values \cap Allowed(catalogue, tier) |-> json.values[f]],
   lifecycleStatus |-> json.lifecycleStatus /\ Status \in Allowed(catalogue, tier)]

Canonical(values) == [values |-> values, lifecycleStatus |-> TRUE]

Publish(i, values) ==
  /\ version' = [version EXCEPT ![i] = Canonical(values)]
  /\ snapshot' = [snapshot EXCEPT ![i] = ProjectPassport(api, "public", Canonical(values))]
  /\ issued' = [issued EXCEPT ![i] = api]
  /\ UNCHANGED <<api, web, reader>>

DeployApi(release) ==
  /\ api' = release
  /\ UNCHANGED <<web, version, snapshot, issued, reader>>

(* The page's own process ends with the request it serves.                  *)
DeployWeb(release) ==
  /\ web' = release
  /\ UNCHANGED <<api, version, snapshot, issued, reader>>

-----------------------------------------------------------------------------
(* The public page, /b/<publicId>                                           *)

(* A process of the web application serves the request, and is the one that *)
(* renders it, whatever is deployed meanwhile.                              *)
Visit(r, i) ==
  /\ reader[r].item = None
  /\ reader' = [reader EXCEPT ![r] = [item |-> i, by |-> web, answer |-> None, page |-> None]]
  /\ UNCHANGED <<api, web, version, snapshot, issued>>

(* What the answer went through is remembered with it.                      *)
Resolve(r) ==
  LET i == reader[r].item IN
  /\ i # None /\ reader[r].answer = None /\ snapshot[i] # None
  /\ reader' = [reader EXCEPT ![r].answer =
       [json |-> ProjectPassport(api, "public", snapshot[i]), catalogues |-> {api, issued[i]}]]
  /\ UNCHANGED <<api, web, version, snapshot, issued>>

(* publicValue                                                              *)
PublicValue(inside) == IF inside = "keyed" THEN "plain" ELSE inside

(* projectPublicPassport: one value that is nested too deep, or nothing     *)
(* left, and there is no page.                                              *)
ProjectPublicPassport(catalogue, json) ==
  LET shown == DOMAIN json.values \cap Allowed(catalogue, "public") IN
  IF shown = {} \/ \E f \in shown : json.values[f] = "deep" THEN None
  ELSE [f \in shown |-> PublicValue(json.values[f])]

Render(r) ==
  LET answer == reader[r].answer IN
  /\ answer # None
  /\ reader' = [reader EXCEPT ![r] = [Nobody EXCEPT !.page =
       [shown |-> ProjectPublicPassport(reader[r].by, answer.json), status |-> FALSE, tier |-> "public",
        catalogues |-> answer.catalogues \cup {reader[r].by}]]]
  /\ UNCHANGED <<api, web, version, snapshot, issued>>

(* No snapshot, a timeout, a redirect, an error, an answer that is too long. *)
Unavailable(r) ==
  /\ reader[r].item # None
  /\ reader' = [reader EXCEPT ![r] = Nobody]
  /\ UNCHANGED <<api, web, version, snapshot, issued>>

(* The page of a grant shows what the API projects from the latest version  *)
(* in the transaction that holds the grant.                                 *)
Session(r, i, tier) ==
  LET json == ProjectPassport(api, tier, version[i]) IN
  /\ reader[r].item = None /\ version[i] # None
  /\ reader' = [reader EXCEPT ![r].page =
       [shown |-> json.values, status |-> json.lifecycleStatus, tier |-> tier, catalogues |-> {api}]]
  /\ UNCHANGED <<api, web, version, snapshot, issued>>

Next ==
  \/ \E i \in Items, fs \in SUBSET Fields : \E values \in [fs -> Insides] : Publish(i, values)
  \/ \E release \in Releases : DeployApi(release) \/ DeployWeb(release)
  \/ \E r \in Readers :
       \/ Resolve(r) \/ Render(r) \/ Unavailable(r)
       \/ \E i \in Items : Visit(r, i) \/ \E tier \in CapabilityTiers : Session(r, i, tier)

Spec == Init /\ [][Next]_vars

-----------------------------------------------------------------------------
(* Properties                                                               *)

(* decideAccess: may one see a field of this tier, who has no role and      *)
(* holds a grant of the other?                                              *)
DecideAccess(tier, granted) ==
  \/ tier = "public"
  \/ tier # "authority_only" /\ tier = granted

(* Nothing is answered or on screen that a catalogue it passed withholds     *)
(* from its reader, at publication, in the API or in the web application, as *)
(* the rules decide; the lifecycle status is field 67 under another    *)
(* name ("This alias carries field 67 data and follows the same access      *)
(* policy", passport-projection.ts:26); and no key of the system's own is   *)
(* in a public value.                                                       *)
NothingWithheldIsShown ==
  \A r \in Readers : LET page == reader[r].page  answer == reader[r].answer IN
    /\ answer # None => \A catalogue \in answer.catalogues :
         /\ answer.json.lifecycleStatus => DecideAccess(catalogue[Status], "public")
         /\ \A f \in DOMAIN answer.json.values : DecideAccess(catalogue[f], "public")
    /\ page # None => \A catalogue \in page.catalogues :
         /\ page.status => DecideAccess(catalogue[Status], page.tier)
         /\ page.shown # None => \A f \in DOMAIN page.shown :
              /\ DecideAccess(catalogue[f], page.tier)
              /\ page.tier = "public" => page.shown[f] = "plain"
=============================================================================
