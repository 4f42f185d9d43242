------------------------ MODULE MCPassportAggregate ------------------------
(* PassportAggregate on small instances: which fields there are and what    *)
(* the category of the only models asks of them.                            *)
EXTENDS PassportAggregate, TLC

(* Every field mandatory except those named optional or conditional.        *)
MCRequirementOf ==
  [m \in Models |-> [f \in Fields |->
     IF f = "note" THEN "optional" ELSE IF f = "warranty" THEN "conditional" ELSE "mandatory"]]

(* Any field but the status field is inconsistent when it holds "reused".   *)
MCConflicts == {{<<f, "reused">>} : f \in Fields \ {StatusField}}

NoConflicts == {}

MCSymmetry == Permutations(ValueIds) \cup Permutations(Items) \cup Permutations(Evidence)
=============================================================================
