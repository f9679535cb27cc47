---- MODULE MCCheckpoints ----
(* Two files, two contents, and a conversation of a few steps.             *)
EXTENDS Checkpoints, TLC

Symmetry == Permutations(Path) \union Permutations(Content)
====
