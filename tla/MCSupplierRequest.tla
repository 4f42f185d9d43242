------------------------- MODULE MCSupplierRequest --------------------------
(* SupplierRequest with two requests about two models, and submissions that *)
(* name both documents in either order.                                     *)
EXTENDS SupplierRequest, TLC

CONSTANTS m1, m2, r1, r2

MCModelOf == r1 :> m1 @@ r2 :> m2

MCBodies == {<<1, 2>>, <<2, 1>>}

MCSymmetry == Permutations(Procs)
=============================================================================
