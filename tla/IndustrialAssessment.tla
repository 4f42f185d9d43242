------------------------ MODULE IndustrialAssessment -------------------------
(***************************************************************************)
(* The working paper on an industrial battery model, filled in bit by bit by *)
(* whoever assesses it, and what the evaluation says of it at any time.      *)
(***************************************************************************)
EXTENDS Integers, Sequences

CONSTANTS
  Models,      \* model ids
  Ids,         \* of evidence
  Energies,    \* rated energies in kWh
  MaxRecords,  \* bound: evidence records
  None         \* not known

VARIABLES
  scope,     \* category, energy, rechargeable, external: exclusively external
             \* storage; use: finished_battery and intended_application, both given
  model,     \* model_id
  review,    \* signed: decision, reason, reviewer and date are there; the evidence ids it cites
  evidence   \* the records, in their order: id, model; sound: hash, review and bytes verified

vars == <<scope, model, review, evidence>>

Categories == {"EV", "LMT", "INDUSTRIAL", "INDUSTRIAL_GT_2KWH", "OTHER"}
Values == [category |-> Categories, energy |-> Energies, rechargeable |-> BOOLEAN,
           external |-> BOOLEAN, use |-> {"given"}]

(* createIndustrialAssessment                                               *)
Init ==
  /\ scope = [f \in DOMAIN Values |-> None] /\ model = None
  /\ review = [signed |-> FALSE, refs |-> {}] /\ evidence = <<>>

-----------------------------------------------------------------------------
(* The paper is written by hand                                             *)

FillScope(f, value) ==
  /\ scope' = [scope EXCEPT ![f] = value]
  /\ UNCHANGED <<model, review, evidence>>

NameModel(id) ==
  /\ model' = id
  /\ UNCHANGED <<scope, review, evidence>>

Review(signed, refs) ==
  /\ review' = [signed |-> signed, refs |-> refs]
  /\ UNCHANGED <<scope, model, evidence>>

AddEvidence(id, of, sound) ==
  /\ Len(evidence) < MaxRecords
  /\ evidence' = Append(evidence, [id |-> id, model |-> of, sound |-> sound])
  /\ UNCHANGED <<scope, model, review>>

Next ==
  \/ \E f \in DOMAIN Values : \E value \in Values[f] : FillScope(f, value)
  \/ \E id \in Models : NameModel(id)
  \/ \E signed \in BOOLEAN, refs \in SUBSET Ids : Review(signed, refs)
  \/ \E id \in Ids, of \in Models, sound \in BOOLEAN : AddEvidence(id, of, sound)

Spec == Init /\ [][Next]_vars

-----------------------------------------------------------------------------
(* evaluateIndustrialAssessment                                             *)

Industrial == scope.category \in {"INDUSTRIAL", "INDUSTRIAL_GT_2KWH"}
Above == scope.energy # None /\ scope.energy > 2
Below == scope.energy # None /\ scope.energy <= 2

Unknown == {f \in DOMAIN scope : scope[f] = None}

(* The indicators: "candidate", "open", or the reason why not.  Article     *)
(* 10(1), documentation.                                                    *)
Documentation ==
  IF scope.category # None /\ ~Industrial THEN "not_industrial"
  ELSE IF Industrial /\ Below THEN "at_or_below_2_kwh"
  ELSE IF Industrial /\ scope.rechargeable = FALSE THEN "not_rechargeable"
  ELSE IF Industrial /\ Above /\ scope.rechargeable = TRUE THEN "candidate"
  ELSE "open"

(* Article 10, minimum performance: asks the same, and for external storage.*)
Minimum ==
  CASE Documentation = "candidate" /\ scope.external = TRUE -> "external_storage"
    [] Documentation = "candidate" /\ scope.external = None -> "open"
    [] OTHER -> Documentation

(* Mutant of Passport: the exception for external storage holds here, too.  *)
PassportExcepted ==
  CASE scope.category \in {"EV", "LMT"} \/ (Industrial /\ Above /\ scope.external # TRUE) -> "candidate"
    [] Industrial /\ (Below \/ Above) -> "at_or_below_2_kwh"
    [] scope.category = "OTHER" -> "category_review_needed"
    [] OTHER -> "open"

(* Article 77.                                                              *)
Passport ==
  CASE scope.category \in {"EV", "LMT"} \/ (Industrial /\ Above) -> "candidate"
    [] Industrial /\ Below -> "at_or_below_2_kwh"
    [] scope.category = "OTHER" -> "category_review_needed"
    [] OTHER -> "open"

(* What of a citation is amiss: not one record, or one of another model or  *)
(* not sound.                                                               *)
Amiss(id) ==
  LET found == {k \in DOMAIN evidence : evidence[k].id = id} IN
  \/ ~\E k \in found : found = {k}
  \/ \E k \in found : evidence[k].model # model \/ ~evidence[k].sound

Gaps ==
  \/ model = None \/ ~review.signed \/ review.refs = {}
  \/ \E id \in review.refs : Amiss(id)

(* review_metadata_complete_requires_verification                           *)
Complete == Unknown = {} /\ ~Gaps

-----------------------------------------------------------------------------
(* Properties                                                               *)

(* What an indicator may say once more is known: the same, unless it was    *)
(* open; a model that is not rechargeable may prove to be below the energy  *)
(* threshold, which the code asks first.                                    *)
Stands(said, says) ==
  said \in {"open", says} \/ (said = "not_rechargeable" /\ says = "at_or_below_2_kwh")

(* An indicator that is settled while inputs are missing stands when they   *)
(* become known, and never turns into a candidate or back to open; a        *)
(* candidate for the minimum values is one for the documentation, and that  *)
(* one for a passport ("An external-storage exception under Article 10      *)
(* never propagates to Article 77", customer-readiness-assessment.cjs:98);  *)
(* and a complete paper does not stay complete when it is taken over for    *)
(* another model.                                                           *)
VerdictsStand ==
  [][/\ (\A f \in DOMAIN scope : scope[f] \in {None, scope'[f]}) =>
          /\ Stands(Documentation, Documentation') /\ Stands(Minimum, Minimum')
          /\ Passport \in {"open", Passport'}
     /\ (Minimum = "candidate" => Documentation = "candidate")
     /\ (Documentation = "candidate" => Passport = "candidate")
     /\ Complete /\ Complete' => model' = model]_vars
=============================================================================
