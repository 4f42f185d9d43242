---------------------------- MODULE MCPassportTx ----------------------------
(* PassportTx on small instances.  Building a publishable passport from     *)
(* nothing takes more transactions than an instance can afford, so its      *)
(* behaviours start where the aggregate already holds one: a state that     *)
(* PassportAggregate reaches.                                               *)
EXTENDS PassportTx, TLC

CONSTANTS m1, m2, i1, e1, e2, v1, v2

MCRequirementOf == [m \in Models |-> [f \in Fields |-> "mandatory"]]

NoConflicts == {}

(* An arbitrary but fixed order of the ids.                                 *)
MCRankOf ==
  [x \in Resource |-> CASE x = m1 -> 1 [] x = m2 -> 2 [] x = e1 -> 3 [] x = e2 -> 4 [] x = i1 -> 5 [] OTHER -> 6]

(* Items home (item -> model) all in state, their data the rows rowOf       *)
(* (value -> owner) in status, each with every document as verified         *)
(* evidence.                                                                *)
Prepared(home, rowOf, status, state) ==
  /\ reviewed = Models
  /\ applicable = [m \in Models |-> {}]
  /\ modelOf = [i \in Items |-> IF i \in DOMAIN home THEN home[i] ELSE None]
  /\ pstate = [i \in Items |-> IF i \in DOMAIN home THEN state ELSE "draft"]
  /\ lifecycle = [i \in Items |-> "original"]
  /\ value = [v \in ValueIds |->
       IF v \in DOMAIN rowOf THEN Row(rowOf[v], StatusField, "original", status) ELSE NoRow]
  /\ evidence = [e \in Evidence |-> "verified"]
  /\ links = Evidence \X DOMAIN rowOf
  /\ versions = [i \in Items |-> IF i \in DOMAIN home /\ state \in {"published", "updated"}
                                 THEN <<[no |-> 1, prev |-> 0, lifecycle |-> "original", entries |-> View(i)]>>
                                 ELSE <<>>]
  /\ active = [i \in Items |-> IF versions[i] = <<>> THEN {} ELSE {1}]

(* One item on its own value or its model's: ready, just published, taken   *)
(* back by a reading, or refused because the value is not validated yet.    *)
PreparedOne ==
  \E o \in {m1, i1} :
    \/ \E state \in {"ready", "published", "updated"} : Prepared(i1 :> m1, v1 :> o, "validated", state)
    \/ Prepared(i1 :> m1, v1 :> o, "unvalidated", "validation_failed")

(* Two models whose values share the same documents, one item of the first. *)
PreparedTwo == Prepared(i1 :> m1, v1 :> m1 @@ v2 :> m2, "validated", "published")

MCInit == (PreparedOne \/ PreparedTwo) /\ TxInit

MCSpec == MCInit /\ [][TxNext]_allvars /\ TxFairness
=============================================================================
