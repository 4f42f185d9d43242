------------------------------ MODULE ModelPage ------------------------------
(***************************************************************************)
(* The applicability review of a battery model: the page on which an        *)
(* operator decides every conditional data point, the handler that stores   *)
(* the decisions and the assessment that the publication gate asks.         *)
(***************************************************************************)
EXTENDS Integers, FiniteSets

CONSTANTS
  Models, Points,
  Profiles,     \* conditional profiles of the releases: [points, wording]
  None

VARIABLES
  context,      \* per model: its applicabilityContext, None before it is created
  profile,      \* the profile of the release that runs
  selected,     \* the model selected on the page
  fetching,     \* the model the active effect waits for
  detail,       \* the model whose name and batteries are shown
  review,       \* conditionalReview: the points the form lists
  decisions,    \* the form: per point "yes", "no" or "" (not assessed)
  approved,     \* reviewApproved: None, or what was on screen when it was ticked
  busy          \* the command under way and what it was sent with

form == <<selected, fetching, detail, review, decisions, approved>>
vars == <<context, profile, form, busy>>

Answers == {"yes", "no"}
NotAssessed == ""
Blank   == [f \in {} |-> NotAssessed]
Idle    == [kind |-> None]
Created == {m \in Models : context[m] # None}

Init ==
  /\ context = [m \in Models |-> None] /\ profile \in Profiles
  /\ selected = None /\ fetching = None /\ detail = None
  /\ review = None /\ decisions = Blank /\ approved = None /\ busy = Idle

-----------------------------------------------------------------------------
(* The API                                                                  *)

(* assessConditionalReview(...).complete                                    *)
Complete(c) ==
  /\ c # None /\ c.review = profile
  /\ DOMAIN c.decisions = profile.points
  /\ \A f \in profile.points : c.decisions[f] \in Answers
  /\ c.listed = {f \in profile.points : c.decisions[f] = "yes"}

(* reviewedApplicabilityContext; ticked is what the reviewer had approved.  *)
Reviewed(d, ticked) ==
  [listed |-> {f \in DOMAIN d : d[f] = "yes"}, decisions |-> d, review |-> profile, ticked |-> ticked]

(* createModel: a caller may bring a list, but no decisions and no review.  *)
NewModel(m) ==
  \E S \in SUBSET Points :
    context' = [context EXCEPT ![m] = [listed |-> S, decisions |-> Blank, review |-> None, ticked |-> None]]

(* Another operator's page sends what was approved on it.                   *)
OtherReviews(m) ==
  /\ m \in Created
  /\ \E d \in [profile.points -> Answers] :
       context' = [context EXCEPT ![m] = Reviewed(d, [model |-> m, decisions |-> d, profile |-> profile])]
  /\ UNCHANGED <<profile, form, busy>>

(* A release with another conditional profile starts to run.                *)
Release == profile' \in Profiles \ {profile} /\ UNCHANGED <<context, form, busy>>

-----------------------------------------------------------------------------
(* The page                                                                 *)

(* useEffect on selected                                                    *)
Effect(m) ==
  /\ selected' = m
  /\ IF m = selected THEN UNCHANGED <<fetching, detail, review, decisions, approved>>
     ELSE /\ fetching' = m /\ detail' = None /\ review' = None
          /\ decisions' = Blank /\ approved' = None

Select(m) ==
  /\ busy = Idle /\ m \in Created \cup {None}
  /\ Effect(m) /\ UNCHANGED <<context, profile, busy>>

(* The fields listed by assessConditionalReview and what the form starts with. *)
Listed(m) ==
  [f \in profile.points |-> IF f \in DOMAIN context[m].decisions THEN context[m].decisions[f] ELSE NotAssessed]

Fetched ==
  /\ fetching # None /\ fetching' = None
  /\ \/ /\ detail' = fetching /\ review' = profile /\ decisions' = Listed(fetching)
     \/ UNCHANGED <<detail, review, decisions>>   \* the requests failed
  /\ UNCHANGED <<context, profile, selected, approved, busy>>

Shown == busy = Idle /\ detail # None /\ review # None
DecisionsComplete == \A f \in review.points : decisions[f] \in Answers

(* Mutant of Edit: what was approved stays approved.                        *)
EditKeeps(f, a) ==
  /\ Shown /\ f \in review.points
  /\ decisions' = [decisions EXCEPT ![f] = a]
  /\ UNCHANGED <<context, profile, selected, fetching, detail, review, approved, busy>>

Edit(f, a) ==
  /\ Shown /\ f \in review.points
  /\ decisions' = [decisions EXCEPT ![f] = a] /\ approved' = None
  /\ UNCHANGED <<context, profile, selected, fetching, detail, review, busy>>

Approve ==
  /\ Shown /\ DecisionsComplete
  /\ approved' = IF approved = None THEN [model |-> detail, decisions |-> decisions, profile |-> review] ELSE None
  /\ UNCHANGED <<context, profile, selected, fetching, detail, review, decisions, busy>>

Begin(kind) ==
  /\ busy = Idle
  /\ busy' = [kind |-> kind, model |-> selected, decisions |-> decisions, ticked |-> approved]
  /\ UNCHANGED <<context, profile, form>>

Create == Begin("model") /\ Created # Models
CreateItem == Begin("item") /\ selected # None
Save == Begin("review") /\ Shown /\ DecisionsComplete /\ approved # None

Ends == busy' = Idle

(* createModel ends with setSelected(model.id).                             *)
ModelCreated ==
  /\ busy.kind = "model" /\ Ends
  /\ \E m \in Models \ Created : NewModel(m) /\ Effect(m)
  /\ UNCHANGED profile

(* createItem reads the model of the click again.                           *)
ItemCreated ==
  /\ busy.kind = "item" /\ Ends /\ detail' = busy.model
  /\ UNCHANGED <<context, profile, selected, fetching, review, decisions, approved>>

(* reviewApplicability: an incomplete review rolls everything back.         *)
Saved ==
  LET c == Reviewed(busy.decisions, busy.ticked)
  IN /\ busy.kind = "review" /\ Complete(c)
     /\ context' = [context EXCEPT ![busy.model] = c]
     /\ review' = profile /\ approved' = None
     /\ detail' \in {busy.model, detail} /\ Ends
     /\ UNCHANGED <<profile, selected, fetching, decisions>>

(* The command, its answer or a read after it fails.                        *)
Fails ==
  /\ busy # Idle /\ Ends
  /\ \/ UNCHANGED context
     \/ busy.kind = "model" /\ \E m \in Models \ Created : NewModel(m)
     \/ /\ busy.kind = "review" /\ Complete(Reviewed(busy.decisions, busy.ticked))
        /\ context' = [context EXCEPT ![busy.model] = Reviewed(busy.decisions, busy.ticked)]
  /\ UNCHANGED <<profile, form>>

Next ==
  \/ \E m \in Models : OtherReviews(m)
  \/ \E m \in Models \cup {None} : Select(m)
  \/ \E f \in Points, a \in Answers \cup {NotAssessed} : Edit(f, a)
  \/ Release \/ Fetched \/ Approve \/ Create \/ CreateItem \/ Save
  \/ ModelCreated \/ ItemCreated \/ Saved \/ Fails

Spec == Init /\ [][Next]_vars
-----------------------------------------------------------------------------
(* Properties                                                               *)

(* "A legacy required-ID list alone cannot prove that someone reviewed each *)
(* conditional requirement" (applicability-review.ts:26): a model passes    *)
(* the assessment only on decisions that an operator approved while that    *)
(* model, those decisions and all points that now are conditional were on   *)
(* the screen, whatever was created, released or recorded in between.       *)
CompleteIsApproved ==
  \A m \in Models : Complete(context[m]) =>
    LET t == context[m].ticked
    IN t # None /\ t.model = m /\ t.decisions = context[m].decisions /\ t.profile.points = profile.points
=============================================================================
