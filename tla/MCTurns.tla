------------------------------- MODULE MCTurns -------------------------------
(* Turns for TLC: tasks are alike, and so are connections.                 *)
EXTENDS Turns, TLC

Symmetry == Permutations(Task) \union Permutations(Conn)
==============================================================================
