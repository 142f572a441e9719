------------------------------- MODULE MCFoot -------------------------------
(* Three calls on one file, so that two may overlap before or after a      *)
(* third, and calls of other methods that share or do not share its        *)
(* environment variable.                                                   *)
EXTENDS Foot

CONSTANTS b1, b2, b3, d1, u1

MCMethod ==
  [c \in Calls |-> CASE c = d1 -> "Delete" [] c = u1 -> "Unpack" [] OTHER -> "Bundle"]
Symmetry == Permutations({b1, b2, b3})
=============================================================================
