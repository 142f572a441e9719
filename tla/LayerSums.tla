------------------------------ MODULE LayerSums ------------------------------
(***************************************************************************)
(* Sums over the layers of an image.                                       *)
(***************************************************************************)
EXTENDS Integers, Sequences

(* The partial sums of the values that w gives to the elements of s, from  *)
(* 0 for none of them to the sum of all.                                   *)
Sums(w, s) ==
  LET sum[n \in 0 .. Len(s)] == IF n = 0 THEN 0 ELSE sum[n - 1] + w[s[n]]
  IN sum

Sum(w, s) == Sums(w, s)[Len(s)]

=============================================================================
