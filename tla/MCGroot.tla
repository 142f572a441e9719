------------------------------ MODULE MCGroot ------------------------------
(* Two processes, one handle that both use, and two images that share the  *)
(* lower layer: sizes 1 and 3.  Limits below zero, none, just the size of  *)
(* the larger image, and one more.                                         *)
EXTENDS Groot, TLC

CONSTANTS p1, p2, base, top

MCLayerSize == base :> 1 @@ top :> 2
MCImages == {<<base>>, <<base, top>>}
MCLimits == {-1, 0, 3, 4}
Symmetry == Permutations({p1, p2})
=============================================================================
