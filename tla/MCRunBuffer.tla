----------------------------- MODULE MCRunBuffer ------------------------------
(* RunBuffer for TLC: the threads only start and stop.                     *)
EXTENDS RunBuffer, TLC

Symmetry == Permutations(Caller)
==============================================================================
