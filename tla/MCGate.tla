---- MODULE MCGate ----
(* A task the gate holds beside one it does not, which calls twice.  What  *)
(* the first one's call costs is above the estimate, the other's below.    *)
EXTENDS Gate
MCMaxCalls == [t \in Task |-> IF t \in Gated THEN 1 ELSE 2]
MCCosts == [t \in Task |-> IF t \in Gated THEN {3} ELSE {1}]
\* For midnight: no call costs more than it booked, so that no correction is a rise.
MCLowCosts == [t \in Task |-> {1}]
====
