-------------------------------- MODULE Runs ---------------------------------
(***************************************************************************)
(* backend/codeagent/runs.py: the run rows and the calls that create and   *)
(* move them.  A call is a sequence of statements and transactions of one  *)
(* worker thread, and the calls of several threads interleave: transition  *)
(* reads the row in one transaction and updates it in another, and a call  *)
(* that takes a slot of its device locks, counts and writes in between.    *)
(***************************************************************************)
EXTENDS RunTable

CONSTANTS Caller,       \* threads that call runs.py
          Calls,        \* the shapes of transition() that occur
          MaxAttempts   \* MAX_TRANSITION_ATTEMPTS

(* A shape of transition(), and every shape the backend issues: the target, the states  *)
(* the caller names as `expected` (all of them when it names none), and    *)
(* whether it passes max_parallel.                                         *)
Shapes == [to : States, expected : SUBSET States, capped : BOOLEAN]
Shape(to, expected, capped) == [to |-> to, expected |-> expected, capped |-> capped]

ResumeMove == Shape("running", ResumeFrom, TRUE)
GrantMove  == Shape("running", {"paused_budget"}, TRUE)
StartMove  == Shape("running", States, FALSE)
ApprovalMoves == {Shape("awaiting_approval", {"running"}, FALSE),
                  Shape("running", {"awaiting_approval"}, FALSE)}
PauseMoves == {Shape(to, States, FALSE) : to \in PausedStates}
EndMoves   == {Shape(to, States, FALSE) : to \in TerminalStates}
CodeCalls  == {ResumeMove, GrantMove, StartMove} \union ApprovalMoves \union PauseMoves \union EndMoves

ASSUME RunsAssumption ==
  /\ Calls \subseteq Shapes
  /\ MaxAttempts \in Nat \ {0}
  /\ None \notin Caller

VARIABLES lock,         \* holder of each device's transaction-scoped advisory lock
          pc,           \* where each caller stands
          req,          \* what it was asked for
          seen,         \* the row's state as transition() last read it
          tries         \* conditional updates that matched nothing so far

callVars == <<lock, pc, req, seen, tries>>
vars == <<tableVars, callVars>>

Requests == [op : {"create"}, run : Run, device : Device]
            \union [op : {"move"}, run : Run, shape : Calls]

NoRequest == [op |-> "none"]

\* The device whose lock the call takes: the row's own, for a move.
LockOf(c) == IF req[c].op = "create" THEN req[c].device ELSE device[req[c].run]

Init ==
  /\ TableInit
  /\ lock = [d \in Device |-> None]
  /\ pc = [c \in Caller |-> "idle"]
  /\ req = [c \in Caller |-> NoRequest]
  /\ seen = [c \in Caller |-> None]
  /\ tries = [c \in Caller |-> 0]

Goto(c, l) == pc' = [pc EXCEPT ![c] = l]

\* The end of a transaction drops the lock it holds.
Release(c) == lock' = [d \in Device |-> IF lock[d] = c THEN None ELSE lock[d]]

\* The call returns or raises.
Return(c) ==
  /\ Goto(c, "idle")
  /\ req' = [req EXCEPT ![c] = NoRequest]
  /\ seen' = [seen EXCEPT ![c] = None]
  /\ tries' = [tries EXCEPT ![c] = 0]

------------------------------------------------------------------------------
BeginCreate(c, r, d) ==
  /\ pc[c] = "idle"
  /\ req' = [req EXCEPT ![c] = [op |-> "create", run |-> r, device |-> d]]
  /\ Goto(c, "lock")
  /\ UNCHANGED <<tableVars, lock, seen, tries>>

(* The handlers start a run (run_handlers.py, on_run_start, _resume_locked *)
(* and _pause_after_disconnect) after they saw it `created`: the call that *)
(* begins here may reach the row much later, behind the hooks.             *)
BeginMove(c, r, shape) ==
  /\ pc[c] = "idle"
  /\ shape = StartMove => state[r] = "created"
  /\ req' = [req EXCEPT ![c] = [op |-> "move", run |-> r, shape |-> shape]]
  /\ Goto(c, "get")
  /\ UNCHANGED <<tableVars, lock, seen, tries>>

(* transition() judges the move against the row it reads.                  *)
Allowed(s, shape) == s \in shape.expected /\ CanTransition(s, shape.to)

Get(c) ==
  LET s == state[req[c].run]
      shape == req[c].shape
  IN  /\ pc[c] = "get"
      /\ \/ \* RunNotFound or IllegalTransition
            /\ s = None \/ ~Allowed(s, shape)
            /\ Return(c)
         \/ /\ s # None /\ Allowed(s, shape)
            /\ seen' = [seen EXCEPT ![c] = s]
            /\ Goto(c, IF shape.capped /\ TakesSlot(s, shape.to) THEN "lock" ELSE "update")
            /\ UNCHANGED <<req, tries>>
      /\ UNCHANGED <<tableVars, lock>>

\* Fault: one run too many passes the count.
FullOffByOne(d) == Cardinality(SlotsOf(d)) > MaxParallel

Full(d) == Cardinality(SlotsOf(d)) >= MaxParallel

\* Fault: the transaction counts without waiting for the device's lock.
AcquireUnlocked(c) ==
  /\ pc[c] = "lock"
  /\ lock' = [lock EXCEPT ![LockOf(c)] = c]
  /\ Goto(c, "count")
  /\ UNCHANGED <<tableVars, req, seen, tries>>

Acquire(c) ==
  /\ pc[c] = "lock"
  /\ lock[LockOf(c)] = None
  /\ lock' = [lock EXCEPT ![LockOf(c)] = c]
  /\ Goto(c, "count")
  /\ UNCHANGED <<tableVars, req, seen, tries>>

\* Fault: a refused call leaves its transaction open.
CountKeepingLock(c) ==
  /\ pc[c] = "count"
  /\ \/ /\ ~Full(LockOf(c))
        /\ Goto(c, IF req[c].op = "create" THEN "insert" ELSE "update")
        /\ UNCHANGED <<lock, req, seen, tries>>
     \/ /\ Full(LockOf(c))
        /\ Return(c)
        /\ UNCHANGED lock
  /\ UNCHANGED tableVars

Count(c) ==
  /\ pc[c] = "count"
  /\ \/ /\ ~Full(LockOf(c))
        /\ Goto(c, IF req[c].op = "create" THEN "insert" ELSE "update")
        /\ UNCHANGED <<lock, req, seen, tries>>
     \/ \* ParallelRunLimit: the transaction is rolled back
        /\ Full(LockOf(c))
        /\ Release(c)
        /\ Return(c)
  /\ UNCHANGED tableVars

(* INSERT ... ON CONFLICT DO NOTHING, then commit.                         *)
Insert(c) ==
  LET r == req[c].run
  IN  /\ pc[c] = "insert"
      /\ \/ /\ state[r] = None
            /\ state' = [state EXCEPT ![r] = "created"]
            /\ device' = [device EXCEPT ![r] = req[c].device]
         \/ \* RunIdCollision
            /\ state[r] # None
            /\ UNCHANGED <<state, device>>
      /\ Release(c)
      /\ Return(c)
      /\ UNCHANGED unchecked

\* Fault: UPDATE ... WHERE id = ..., without the state that was read.
UnmovedUnasked(c) == TRUE

(* UPDATE ... WHERE state = <what was read>, then commit.                  *)
Unmoved(c) == state[req[c].run] = seen[c]

Update(c) ==
  LET r == req[c].run
      shape == req[c].shape
  IN  /\ pc[c] = "update"
      /\ Unmoved(c)
      /\ state' = [state EXCEPT ![r] = shape.to]
      /\ unchecked' = Recorded(r, shape.to, shape.capped)
      /\ Release(c)
      /\ Return(c)
      /\ UNCHANGED device

\* Fault: one more attempt than MAX_TRANSITION_ATTEMPTS.
MissOnceMore(c) ==
  /\ pc[c] = "update"
  /\ ~Unmoved(c)
  /\ Release(c)
  /\ \/ /\ tries[c] < MaxAttempts
        /\ tries' = [tries EXCEPT ![c] = @ + 1]
        /\ seen' = [seen EXCEPT ![c] = None]
        /\ Goto(c, "get")
        /\ UNCHANGED req
     \/ /\ tries[c] >= MaxAttempts
        /\ Return(c)
  /\ UNCHANGED tableVars

(* Nothing matched: somebody moved the run since.  Read it again, or give  *)
(* up with TransitionConflict.                                             *)
Miss(c) ==
  /\ pc[c] = "update"
  /\ ~Unmoved(c)
  /\ Release(c)
  /\ \/ /\ tries[c] + 1 < MaxAttempts
        /\ tries' = [tries EXCEPT ![c] = @ + 1]
        /\ seen' = [seen EXCEPT ![c] = None]
        /\ Goto(c, "get")
        /\ UNCHANGED req
     \/ /\ tries[c] + 1 >= MaxAttempts
        /\ Return(c)
  /\ UNCHANGED tableVars

(* A statement fails or the worker dies: Postgres rolls back and unlocks.  *)
Fail(c) ==
  /\ pc[c] # "idle"
  /\ Release(c)
  /\ Return(c)
  /\ UNCHANGED tableVars

------------------------------------------------------------------------------
Step(c) == Get(c) \/ Acquire(c) \/ Count(c) \/ Insert(c) \/ Update(c) \/ Miss(c)

Next ==
  \E c \in Caller :
    \/ \E r \in Run, d \in Device : BeginCreate(c, r, d)
    \/ \E r \in Run, shape \in Calls : BeginMove(c, r, shape)
    \/ Step(c)
    \/ Fail(c)

Spec == Init /\ [][Next]_vars

------------------------------------------------------------------------------
(* Types of all the variables.                                             *)
TypeOK ==
  /\ RowsTypeOK
  /\ lock \in [Device -> Caller \union {None}]
  /\ pc \in [Caller -> {"idle", "get", "lock", "count", "insert", "update"}]
  /\ req \in [Caller -> Requests \union {NoRequest}]
  /\ seen \in [Caller -> States \union {None}]
  /\ tries \in [Caller -> 0 .. MaxAttempts - 1]

(* The cap that creates and resumes share (runs.py, "The per-device run    *)
(* cap"): two calls that each count the device's slots and then take one   *)
(* cannot both slip under it, whatever else moves in between.  Slots that  *)
(* were taken without naming a cap are not counted here.                   *)
CheckedCap ==
  \A d \in Device : Cardinality(CheckedSlots(d)) <= MaxParallel

(* The cap without that exception: "a paused run holds no slot, so         *)
(* resuming one needs a free slot, which is why that path checks too".     *)
CapRespected ==
  \A d \in Device : Cardinality(SlotsOf(d)) <= MaxParallel

(* Every change of a row's state is an edge of the table out of the state  *)
(* the row is really in, by a call that read that state and expected it: a *)
(* late approval never restarts a run that was paused in between, and of   *)
(* two racing moves the second is judged again.                            *)
MovesAreJudged ==
  [][\A r \in Run :
       state[r] # None /\ state'[r] # state[r] =>
         \E c \in Caller :
           /\ req[c].op = "move" /\ req[c].run = r
           /\ state'[r] = req[c].shape.to
           /\ Allowed(state[r], req[c].shape)]_vars

(* A run that is over stays as it ended, and a row keeps its device: no    *)
(* create and no late move of another thread brings it back.               *)
EndedIsFinal ==
  [][\A r \in Run :
       /\ state[r] \in TerminalStates => state'[r] = state[r]
       /\ device[r] # None => device'[r] = device[r]]_vars

(* A call that holds its device's lock: from the count to the commit.      *)
Holding(c) ==
  \/ pc[c] \in {"count", "insert"}
  \/ /\ pc[c] = "update"
     /\ req[c].shape.capped
     /\ TakesSlot(seen[c], req[c].shape.to)

(* A device's lock is in the hands of a call that is between its count and *)
(* its commit there, and of no other: no refusal, miss or failure leaves   *)
(* the lock behind (every later start on the device would wait for it), and*)
(* no call writes a slot after it lost the lock.                           *)
LocksFollowCalls ==
  \A d \in Device, c \in Caller : lock[d] = c <=> Holding(c) /\ LockOf(c) = d

Table == INSTANCE RunTable

(* The interleaved calls implement the table in which creates and moves    *)
(* are single steps.                                                       *)
ImplementsTable == Table!TableSpec
==============================================================================
