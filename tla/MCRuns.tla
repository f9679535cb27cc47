------------------------------- MODULE MCRuns --------------------------------
EXTENDS Runs, TLC

Symmetry == Permutations(Caller) \union Permutations(Run)
==============================================================================
