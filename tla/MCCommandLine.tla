---------------------------- MODULE MCCommandLine ----------------------------
(* CommandLine with a level that newLogger knows, one that it does not and *)
(* the empty one, and limits on both sides of 0.                           *)
EXTENDS CommandLine

MCLimits == {-1, 0, 1}
=============================================================================
