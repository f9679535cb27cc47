------------------------------ MODULE RunStates ------------------------------
(***************************************************************************)
(* The vocabulary of a coding run's row (backend/codeagent/runs.py): the   *)
(* states, the groups the code tests a state against, and the table of     *)
(* legal moves that every component consults.                              *)
(***************************************************************************)

SlotStates     == {"created", "running", "awaiting_approval"}
PausedStates   == {"paused_budget", "paused_disconnected", "paused_error"}
TerminalStates == {"completed", "cancelled", "failed", "expired"}
States         == SlotStates \union PausedStates \union TerminalStates
OpenStates     == States \ TerminalStates

\* The pauses that run.resume leaves; paused_budget waits for the budget.
ResumeFrom == {"paused_disconnected", "paused_error"}

Endings == {"cancelled", "failed", "expired"}

(* The edges of TRANSITIONS, by the state they leave.                      *)
Transitions ==
  [s \in States |->
     CASE s = "created"           -> {"running"} \union Endings
       [] s = "running"           -> {"awaiting_approval", "completed"}
                                       \union PausedStates \union Endings
       [] s = "awaiting_approval" -> {"running"} \union PausedStates \union Endings
       [] s \in PausedStates      -> {"running"} \union Endings
       [] OTHER                   -> {}]

CanTransition(from, to) == to \in Transitions[from]

\* A move that needs a free slot of the device.
TakesSlot(from, to) == from \notin SlotStates /\ to \in SlotStates
==============================================================================
