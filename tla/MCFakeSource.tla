---------------------------- MODULE MCFakeSource -----------------------------
(* Two methods, so that Invocations may have locked one and wait for the   *)
(* other, and two goroutines, with two calls of each method: calls overlap *)
(* with each other and with Invocations.                                   *)
EXTENDS FakeSource, TLC

CONSTANTS t1, t2

MCOrder == <<"Blob", "Close">>
Symmetry == Permutations({t1, t2})
=============================================================================
