---- MODULE MCRunManager ----
(* Two client threads and the sweep on one run.                            *)
EXTENDS RunManager, TLC

Symmetry == Permutations(Client)
====
