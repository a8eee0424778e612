-------------------------- MODULE MCTimedNumUnique ---------------------------
(* Two addresses, a window shorter than the run of the clock. *)
EXTENDS TimedNumUnique
MCStrings == {"a", "b"}
=============================================================================
