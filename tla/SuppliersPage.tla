---------------------------- MODULE SuppliersPage ----------------------------
(***************************************************************************)
(* A supplier request seen from its two pages: the supplier's portal, which *)
(* may submit again as long as the request is open, and the operator's      *)
(* page, which shows the declarations, takes the operator's word that they  *)
(* were reviewed and asks the API to import them.  What the API does with   *)
(* concurrent calls is in SupplierRequest; here each is one step.           *)
(***************************************************************************)
EXTENDS Naturals

CONSTANTS
  Requests,
  MaxSubmits,  \* bound: submissions per request
  None

VARIABLES
  status, submissions, \* per request, as the API has them
  invited,     \* the requests
  linked,      \* those whose link the operator saw, and may have sent
  imported,    \* per request: how many submissions were imported, and how many reviewed
  invitation,  \* the request whose private link the page shows; it is shown once
  listed,      \* the requests in the page's list
  review,      \* the declarations on the operator's screen
  reviewed,    \* the operator's word, None or the declarations it was given for
  busy         \* the operation the page waits for

shows == <<invitation, linked, listed>>
page == <<shows, review, reviewed, busy>>
rows == <<status, submissions, invited, imported>>
vars == <<page, rows>>

Idle == [kind |-> None, request |-> None]
Reviewable == {"submitted"}   \* nothing writes partially_submitted

Init ==
  /\ status = [r \in Requests |-> "draft"] /\ submissions = [r \in Requests |-> 0]
  /\ invited = {} /\ imported = [r \in Requests |-> None]
  /\ invitation = None /\ linked = {} /\ listed = {}
  /\ review = None /\ reviewed = None /\ busy = Idle

-----------------------------------------------------------------------------
(* The portal                                                               *)

OpenLink(r) ==
  /\ r \in linked
  /\ status' = [status EXCEPT ![r] = IF @ = "draft" THEN "opened" ELSE @]
  /\ UNCHANGED <<page, submissions, invited, imported>>

(* The button is never disabled: a supplier may submit again, or twice.     *)
Submit(r) ==
  /\ r \in linked /\ status[r] # "accepted" /\ submissions[r] < MaxSubmits
  /\ submissions' = [submissions EXCEPT ![r] = @ + 1]
  /\ status' = [status EXCEPT ![r] = "submitted"]
  /\ UNCHANGED <<page, invited, imported>>

-----------------------------------------------------------------------------
(* The operator's page: every button waits for the one operation under way  *)

Begin(kind, r) == busy = Idle /\ busy' = [kind |-> kind, request |-> r, review |-> review, word |-> reviewed]

(* load: when the page opens, after a command, and at any time between.     *)
Load ==
  /\ listed' = invited
  /\ UNCHANGED <<invitation, linked, review, reviewed, busy, rows>>

CreateSupplier ==
  /\ Begin("supplier", None)
  /\ UNCHANGED <<shows, review, reviewed, rows>>

CreateRequest(r) ==
  /\ r \notin invited /\ Begin("request", r) /\ invitation' = None
  /\ UNCHANGED <<linked, listed, review, reviewed, rows>>

HideInvitation ==
  /\ invitation # None /\ invitation' = None
  /\ UNCHANGED <<linked, listed, review, reviewed, busy, rows>>

(* Mutant of OpenReview: the box stays as it was.                           *)
OpenReviewKeeps(r) ==
  /\ r \in listed /\ Begin("review", r) /\ review' = None
  /\ UNCHANGED <<shows, reviewed, rows>>

OpenReview(r) ==
  /\ r \in listed /\ Begin("review", r) /\ review' = None /\ reviewed' = None
  /\ UNCHANGED <<shows, rows>>

CloseReview ==
  /\ busy = Idle /\ review # None /\ review' = None /\ reviewed' = None
  /\ UNCHANGED <<shows, busy, rows>>

Document ==
  /\ review # None /\ review.seen > 0 /\ Begin("document", review.request) /\ reviewed' = None
  /\ UNCHANGED <<shows, review, rows>>

(* The box is not disabled while a document comes.                          *)
Tick ==
  /\ review # None /\ review.status \in Reviewable /\ review.seen > 0
  /\ reviewed' = IF reviewed = None THEN review ELSE None
  /\ UNCHANGED <<shows, review, busy, rows>>

AcceptReview ==
  /\ review # None /\ review.status \in Reviewable /\ reviewed # None /\ Begin("accept", review.request)
  /\ UNCHANGED <<shows, review, reviewed, rows>>

(* The answers: accept imports what the request holds by then.              *)
Accepted(r) ==
  /\ status[r] \in Reviewable
  /\ status' = [status EXCEPT ![r] = "accepted"]
  /\ imported' = [imported EXCEPT ![r] = [count |-> submissions[r], seen |-> busy.word.seen]]

Answered ==
  /\ busy # Idle /\ busy' = Idle
  /\ \/ busy.kind = "request" /\ invited' = invited \cup {busy.request}
        /\ invitation' = busy.request /\ linked' = linked \cup {busy.request} /\ listed' \in {listed, invited'}
        /\ UNCHANGED <<review, reviewed, status, submissions, imported>>
     \/ busy.kind = "review"
        /\ review' = [request |-> busy.request, seen |-> submissions[busy.request], status |-> status[busy.request]]
        /\ UNCHANGED <<shows, reviewed, rows>>
     \/ busy.kind \in {"supplier", "document"} /\ UNCHANGED <<shows, review, reviewed, rows>>
     \/ busy.kind = "accept" /\ Accepted(busy.request) /\ review' = None /\ reviewed' = None
        /\ UNCHANGED <<shows, submissions, invited>>

(* An operation fails, or only its answer does: what is on screen stays.    *)
(* The link of a request whose answer is lost is lost, too.                 *)
Fails ==
  /\ busy # Idle /\ busy' = Idle
  /\ \/ UNCHANGED rows
     \/ busy.kind = "accept" /\ Accepted(busy.request) /\ UNCHANGED <<submissions, invited>>
     \/ busy.kind = "request" /\ invited' = invited \cup {busy.request} /\ UNCHANGED <<status, submissions, imported>>
  /\ UNCHANGED <<shows, review, reviewed>>

Next ==
  \/ \E r \in Requests : OpenLink(r) \/ Submit(r) \/ CreateRequest(r) \/ OpenReview(r)
  \/ Load \/ CreateSupplier \/ HideInvitation \/ CloseReview \/ Document \/ Tick \/ AcceptReview \/ Answered \/ Fails

Spec == Init /\ [][Next]_vars
-----------------------------------------------------------------------------
(* Properties                                                               *)

(* The operator's word is given for what is on the screen and for nothing   *)
(* else: it does not carry over to another request, to the same one loaded  *)
(* again or to an import that begins, whatever fails or answers late; and   *)
(* the private link on the page is that of a request that exists.           *)
WordIsForTheScreen ==
  /\ reviewed \in {None, review}
  /\ busy.kind = "accept" => busy.word = busy.review /\ busy.review.request = busy.request
  /\ invitation \in {None} \cup invited /\ linked \subseteq invited

(* "Reviewed submissions import as unvalidated supplier values"             *)
(* (docs/27_CUSTOMER_PASSPORT_WORKFLOW.md:21): what is imported is what the *)
(* operator had on screen when they said "I reviewed these declarations".   *)
OnlyReviewedIsImported ==
  \A r \in Requests : imported[r] # None => imported[r].count = imported[r].seen
=============================================================================
