------------------------------ MODULE MCSpending ------------------------------
EXTENDS Spending, TLC

Symmetry == Permutations(Grant) \union Permutations(Server)
=============================================================================
