--------------------------- MODULE MCFakeRegistry ---------------------------
(* Two sources with a call each, of up to three attempts: enough for a     *)
(* decrement to get lost, for a handler to lose its turn, and for a source *)
(* to run out of attempts.  One blob is enough for the counters, which do  *)
(* not interact.                                                           *)
EXTENDS FakeRegistry
=============================================================================
