---------------------------- MODULE MCToolBroker -----------------------------
(* ToolBroker for TLC: calls and connections are interchangeable.          *)
EXTENDS ToolBroker, TLC

Symmetry == Permutations(Call) \union Permutations(Conn)
==============================================================================
