------------------------------ MODULE RunTable -------------------------------
(***************************************************************************)
(* What backend/codeagent/runs.py promises its callers: a table of runs in *)
(* which every create and every move happens at once.  Runs.tla shows how  *)
(* the code keeps the promise with separate transactions.                  *)
(***************************************************************************)
EXTENDS RunStates, Naturals, FiniteSets

CONSTANTS Run,          \* run ids a device may mint
          Device,       \* the devices of one account
          MaxParallel   \* welcome.limits.max_parallel_runs

ASSUME RunTableAssumption ==
  /\ IsFiniteSet(Run)
  /\ MaxParallel \in Nat \ {0}

None == "none"
ASSUME NoneAssumption == None \notin Device

VARIABLES state,        \* the row's state, None where the id has no row
          device,       \* the device the row belongs to
          unchecked     \* history: slots taken by a move that named no cap

tableVars == <<state, device, unchecked>>

SlotsOf(d) == {r \in Run : device[r] = d /\ state[r] \in SlotStates}

RowsTypeOK ==
  /\ state \in [Run -> States \union {None}]
  /\ device \in [Run -> Device \union {None}]
  /\ unchecked \in SUBSET Run

TableInit ==
  /\ state = [r \in Run |-> None]
  /\ device = [r \in Run |-> None]
  /\ unchecked = {}

(* A move that names no cap may take a slot at any time, even while another *)
(* call is between its count and its write, so the promise can only be     *)
(* about the slots that were taken with a cap.                             *)
CheckedSlots(d) == SlotsOf(d) \ unchecked
Room(d) == Cardinality(CheckedSlots(d)) < MaxParallel

Create(r, d) ==
  /\ state[r] = None
  /\ Room(d)
  /\ state' = [state EXCEPT ![r] = "created"]
  /\ device' = [device EXCEPT ![r] = d]
  /\ UNCHANGED unchecked

(* What a move does to the history variable: a slot counts as unchecked    *)
(* from an uncapped move into it until the run leaves the slot states.     *)
Recorded(r, to, capped) ==
  IF to \notin SlotStates THEN unchecked \ {r}
  ELSE IF ~capped /\ TakesSlot(state[r], to) THEN unchecked \union {r}
  ELSE unchecked

Move(r, to, capped) ==
  /\ state[r] \in States
  /\ CanTransition(state[r], to)
  /\ capped /\ TakesSlot(state[r], to) => Room(device[r])
  /\ state' = [state EXCEPT ![r] = to]
  /\ unchecked' = Recorded(r, to, capped)
  /\ UNCHANGED device

TableNext ==
  \/ \E r \in Run, d \in Device : Create(r, d)
  \/ \E r \in Run, to \in States, capped \in BOOLEAN : Move(r, to, capped)

TableSpec == TableInit /\ [][TableNext]_tableVars
==============================================================================
