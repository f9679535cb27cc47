----------------------------- MODULE RunsProofs ------------------------------
(***************************************************************************)
(* What holds of runs.py for every number of threads, devices and runs and *)
(* every cap: the proofs of the safety properties of Runs.                 *)
(***************************************************************************)
EXTENDS Runs, FiniteSetTheorems, TLAPS

(* A call that has counted and may still write a slot.                     *)
Reserving(c) == Holding(c) /\ pc[c] # "count"

(* Rows and their history variable fit together.                           *)
RowsFit ==
  /\ \A r \in Run : state[r] = None <=> device[r] = None
  /\ \A r \in unchecked : state[r] \in SlotStates

(* What a call under way is about.                                         *)
CallFits(c) ==
  /\ pc[c] = "idle" <=> req[c] = NoRequest
  /\ pc[c] = "insert" => req[c].op = "create"
  /\ pc[c] \in {"get", "update"} => req[c].op = "move"
  /\ pc[c] \in {"lock", "count", "update"} /\ req[c].op = "move" =>
       /\ state[req[c].run] # None
       /\ seen[c] \in States
       /\ Allowed(seen[c], req[c].shape)
  /\ pc[c] \in {"lock", "count"} /\ req[c].op = "move" =>
       req[c].shape.capped /\ TakesSlot(seen[c], req[c].shape.to)

CallsFit == \A c \in Caller : CallFits(c)

LocksHeld == \A c \in Caller : Holding(c) => lock[LockOf(c)] = c

LocksOwned ==
  \A d \in Device, c \in Caller : lock[d] = c => Holding(c) /\ LockOf(c) = d

SlotsReserved == \A c \in Caller : Reserving(c) => Room(LockOf(c))

(* The inductive invariant: the cap holds because whoever is past its      *)
(* count holds the lock, and slots without an exception only shrink in     *)
(* between.                                                                *)
IInv ==
  /\ TypeOK /\ RowsFit /\ CallsFit
  /\ LocksHeld /\ LocksOwned /\ SlotsReserved /\ CheckedCap

------------------------------------------------------------------------------
(* The groups of states do not overlap, and None is none of them.          *)
LEMMA StateGroups ==
  /\ SlotStates \subseteq States /\ TerminalStates \subseteq States
  /\ SlotStates \intersect TerminalStates = {}
  /\ None \notin States
  /\ "created" \in SlotStates
  BY DEF None, States, SlotStates, PausedStates, TerminalStates

LEMMA EndedHasNoMove ==
  \A s \in TerminalStates : \A to : ~CanTransition(s, to)
  BY DEF CanTransition, Transitions, States, SlotStates, PausedStates, TerminalStates, Endings

(* Sets of slots are finite, so they have a size that grows by at most one *)
(* with an element and not at all with a subset.                           *)
LEMMA SlotSizes ==
  ASSUME NEW S \in SUBSET Run
  PROVE  /\ IsFiniteSet(S) /\ Cardinality(S) \in Nat
         /\ \A T \in SUBSET S : Cardinality(T) <= Cardinality(S)
         /\ \A r \in Run : Cardinality(S \union {r}) <= Cardinality(S) + 1
<1>1. \A T \in SUBSET Run : IsFiniteSet(T) /\ Cardinality(T) \in Nat
  BY RunTableAssumption, FS_Subset, FS_CardinalityType
<1>2. \A T \in SUBSET S : Cardinality(T) <= Cardinality(S)
  BY <1>1, FS_Subset
<1>3. ASSUME NEW r \in Run
      PROVE  Cardinality(S \union {r}) <= Cardinality(S) + 1
  <2>1. CASE r \in S
    <3>1. S \union {r} = S
      BY <2>1
    <3>2. QED
      BY <3>1, <1>1
  <2>2. CASE r \notin S
    BY <1>1, <2>2, FS_AddElement
  <2>3. QED
    BY <2>1, <2>2
<1>4. QED
  BY <1>1, <1>2, <1>3

LEMMA InitIInv == Init => IInv
<1> SUFFICES ASSUME Init
             PROVE  IInv
  OBVIOUS
<1> USE DEF Init, TableInit
<1>1. TypeOK
  BY RunsAssumption DEF TypeOK, RowsTypeOK
<1>2. RowsFit /\ CallsFit
  BY DEF RowsFit, CallsFit, CallFits, NoRequest
<1>3. LocksHeld /\ LocksOwned /\ SlotsReserved
  BY RunsAssumption DEF LocksHeld, LocksOwned, SlotsReserved, Reserving, Holding
<1>4. CheckedCap
  <2>1. \A d \in Device : CheckedSlots(d) = {}
    BY StateGroups DEF CheckedSlots, SlotsOf
  <2>2. QED
    BY <2>1, FS_EmptySet, RunTableAssumption DEF CheckedCap
<1>5. QED
  BY <1>1, <1>2, <1>3, <1>4 DEF IInv

------------------------------------------------------------------------------
(* A call's request, where its place in the code says which kind it is.    *)
LEMMA RequestTypes ==
  ASSUME IInv, NEW c \in Caller, pc[c] # "idle"
  PROVE  /\ req[c] \in Requests
         /\ req[c].run \in Run
         /\ req[c].op = "create" => req[c].device \in Device
         /\ req[c].op = "move" =>
              /\ req[c].shape \in Calls
              /\ req[c].shape.to \in States
              /\ req[c].shape.expected \in SUBSET States
              /\ req[c].shape.capped \in BOOLEAN
         /\ req[c].op \in {"create", "move"}
<1>1. req[c] \in Requests
  BY DEF IInv, TypeOK, CallsFit, CallFits
<1>2. QED
  BY <1>1, RunsAssumption DEF Requests, Shapes

LEMMA TypeStep ==
  ASSUME IInv, [Next]_vars
  PROVE  TypeOK'
<1> USE DEF TypeOK, RowsTypeOK
<1>0. TypeOK
  BY DEF IInv
<1>1. CASE UNCHANGED vars
  BY <1>0, <1>1 DEF vars, tableVars, callVars
<1>2. ASSUME NEW c \in Caller, NEW r \in Run, NEW d \in Device, BeginCreate(c, r, d)
      PROVE  TypeOK'
  BY <1>0, <1>2 DEF BeginCreate, Goto, Requests, tableVars
<1>3. ASSUME NEW c \in Caller, NEW r \in Run, NEW sh \in Calls, BeginMove(c, r, sh)
      PROVE  TypeOK'
  BY <1>0, <1>3 DEF BeginMove, Goto, Requests, tableVars
<1>4. ASSUME NEW c \in Caller, Return(c)
      PROVE  /\ pc' \in [Caller -> {"idle", "get", "lock", "count", "insert", "update"}]
             /\ req' \in [Caller -> Requests \union {NoRequest}]
             /\ seen' \in [Caller -> States \union {None}]
             /\ tries' \in [Caller -> 0 .. MaxAttempts - 1]
  BY <1>0, <1>4, RunsAssumption DEF Return, Goto
<1>5. ASSUME NEW c \in Caller, Release(c)
      PROVE  lock' \in [Device -> Caller \union {None}]
  BY <1>0, <1>5 DEF Release
<1>6. ASSUME NEW c \in Caller, Get(c)
      PROVE  TypeOK'
  <2>1. req[c].run \in Run
    BY <1>6, RequestTypes DEF Get
  <2>2. QED
    BY <1>0, <1>4, <1>6, <2>1 DEF Get, Goto, tableVars
<1>7. ASSUME NEW c \in Caller, Acquire(c)
      PROVE  TypeOK'
  BY <1>0, <1>7 DEF Acquire, Goto, tableVars
<1>8. ASSUME NEW c \in Caller, Count(c)
      PROVE  TypeOK'
  BY <1>0, <1>4, <1>5, <1>8 DEF Count, Goto, tableVars
<1>9. ASSUME NEW c \in Caller, Insert(c)
      PROVE  TypeOK'
  <2>1. req[c].run \in Run /\ req[c].device \in Device
    BY <1>9, RequestTypes DEF Insert, IInv, CallsFit, CallFits
  <2>2. RowsTypeOK'
    BY <1>0, <1>9, <2>1, StateGroups DEF Insert
  <2>3. QED
    BY <1>4, <1>5, <1>9, <2>2 DEF Insert
<1>10. ASSUME NEW c \in Caller, Update(c)
       PROVE  TypeOK'
  <2>1. req[c].run \in Run /\ req[c].shape.to \in States
    BY <1>10, RequestTypes DEF Update, IInv, CallsFit, CallFits
  <2>2. RowsTypeOK'
    BY <1>0, <1>10, <2>1 DEF Update, Recorded
  <2>3. QED
    BY <1>4, <1>5, <1>10, <2>2 DEF Update
<1>11. ASSUME NEW c \in Caller, Miss(c)
       PROVE  TypeOK'
  BY <1>0, <1>4, <1>5, <1>11, RunsAssumption DEF Miss, Goto, tableVars
<1>12. ASSUME NEW c \in Caller, Fail(c)
       PROVE  TypeOK'
  BY <1>0, <1>4, <1>5, <1>12 DEF Fail, tableVars
<1>13. QED
  BY <1>1, <1>2, <1>3, <1>6, <1>7, <1>8, <1>9, <1>10, <1>11, <1>12 DEF Next, Step

(* A row that exists keeps existing, and its device.                       *)
LEMMA RowsStay ==
  ASSUME IInv, [Next]_vars, NEW r \in Run, state[r] # None
  PROVE  state'[r] # None /\ device'[r] = device[r]
<1>1. ASSUME NEW c \in Caller, Insert(c)
      PROVE  state'[r] # None /\ device'[r] = device[r]
  <2>1. req[c].run \in Run
    BY <1>1, RequestTypes DEF Insert
  <2>2. QED
    BY <1>1, <2>1, StateGroups DEF Insert, IInv, TypeOK, RowsTypeOK
<1>2. ASSUME NEW c \in Caller, Update(c)
      PROVE  state'[r] # None /\ device'[r] = device[r]
  <2>1. req[c].run \in Run /\ req[c].shape.to \in States
    BY <1>2, RequestTypes DEF Update, IInv, CallsFit, CallFits
  <2>2. QED
    BY <1>2, <2>1, StateGroups DEF Update, IInv, TypeOK, RowsTypeOK
<1>3. QED
  BY <1>1, <1>2 DEF Next, Step, vars, tableVars, BeginCreate, BeginMove, Get, Acquire, Count,
                    Miss, Fail

LEMMA FitStep ==
  ASSUME IInv, [Next]_vars
  PROVE  RowsFit' /\ CallsFit'
<1> USE DEF IInv, TypeOK, RowsTypeOK
<1>1. RowsFit'
  <2>1. ASSUME NEW c \in Caller, Insert(c)
        PROVE  RowsFit'
    <3>1. req[c].run \in Run /\ req[c].device \in Device
      BY <2>1, RequestTypes DEF Insert, CallsFit, CallFits
    <3>2. QED
      BY <2>1, <3>1, StateGroups, NoneAssumption DEF Insert, RowsFit
  <2>2. ASSUME NEW c \in Caller, Update(c)
        PROVE  RowsFit'
    <3>1. /\ req[c].run \in Run /\ req[c].shape.to \in States
          /\ state[req[c].run] # None
      BY <2>2, RequestTypes DEF Update, CallsFit, CallFits
    <3>2. QED
      BY <2>2, <3>1, StateGroups DEF Update, RowsFit, Recorded
  <2>3. QED
    BY <2>1, <2>2 DEF Next, Step, vars, tableVars, BeginCreate, BeginMove, Get, Acquire, Count,
                      Miss, Fail, RowsFit
<1>2. CallsFit'
  <2> SUFFICES ASSUME NEW c \in Caller
               PROVE  CallFits(c)'
    BY DEF CallsFit
  <2>1. CASE pc'[c] = pc[c] /\ req'[c] = req[c] /\ seen'[c] = seen[c]
    <3>1. pc[c] # "idle" => req[c].run \in Run
      BY RequestTypes
    <3>2. pc[c] # "idle" /\ state[req[c].run] # None => state'[req[c].run] # None
      BY <3>1, RowsStay
    <3>3. QED
      BY <2>1, <3>2 DEF CallsFit, CallFits
  <2>2. CASE pc'[c] = "idle" /\ req'[c] = NoRequest
    BY <2>2 DEF CallFits
  <2>3. ASSUME NEW r \in Run, NEW d \in Device, BeginCreate(c, r, d)
        PROVE  CallFits(c)'
    BY <2>3 DEF BeginCreate, CallFits, Goto, NoRequest
  <2>4. ASSUME NEW r \in Run, NEW sh \in Calls, BeginMove(c, r, sh)
        PROVE  CallFits(c)'
    BY <2>4 DEF BeginMove, CallFits, Goto, NoRequest
  <2>5. CASE Get(c)
    BY <2>5, <2>2, StateGroups, RequestTypes DEF Get, Return, Goto, CallsFit, CallFits, tableVars
  <2>6. CASE Acquire(c) \/ Count(c)
    BY <2>6, <2>2, RequestTypes DEF Acquire, Count, Return, Goto, CallsFit, CallFits, tableVars
  <2>7. CASE Insert(c) \/ Update(c) \/ Fail(c)
    BY <2>7, <2>2 DEF Insert, Update, Fail, Return, Goto
  <2>8. CASE Miss(c)
    BY <2>8, <2>2 DEF Miss, Return, Goto, CallsFit, CallFits, tableVars
  <2>9. ASSUME NEW b \in Caller, b # c,
               \/ \E r \in Run, d \in Device : BeginCreate(b, r, d)
               \/ \E r \in Run, sh \in Calls : BeginMove(b, r, sh)
               \/ Step(b)
               \/ Fail(b)
        PROVE  CallFits(c)'
    <3>1. pc'[c] = pc[c] /\ req'[c] = req[c] /\ seen'[c] = seen[c]
      BY <2>9 DEF BeginCreate, BeginMove, Step, Get, Acquire, Count, Insert, Update, Miss, Fail,
                  Return, Goto
    <3>2. QED
      BY <2>1, <3>1
  <2>10. CASE UNCHANGED vars
    BY <2>1, <2>10 DEF vars, callVars
  <2>11. QED
    BY <2>3, <2>4, <2>5, <2>6, <2>7, <2>8, <2>9, <2>10 DEF Next, Step
<1>3. QED
  BY <1>1, <1>2

(* The lock is not taken from a call that holds it, and the row it locks   *)
(* by keeps its device.                                                    *)
LEMMA LockStep ==
  ASSUME IInv, [Next]_vars
  PROVE  LocksHeld'
<1> USE DEF IInv, TypeOK
<1> SUFFICES ASSUME NEW c \in Caller, Holding(c)'
             PROVE  lock'[LockOf(c)'] = c
  BY DEF LocksHeld
<1>1. CASE pc'[c] = pc[c] /\ req'[c] = req[c] /\ seen'[c] = seen[c] /\ lock' = lock
  <2>1. Holding(c)
    BY <1>1 DEF Holding
  <2>2. LockOf(c)' = LockOf(c)
    BY <1>1, <2>1, RequestTypes, RowsStay DEF Holding, LockOf, CallsFit, CallFits
  <2>3. QED
    BY <1>1, <2>1, <2>2 DEF LocksHeld
<1>2. CASE Acquire(c)
  <2>1. req[c].op = "move" => req[c].run \in Run /\ state[req[c].run] # None
    BY <1>2, RequestTypes DEF Acquire, CallsFit, CallFits
  <2>2. LockOf(c) \in Device
    BY <1>2, <2>1, RequestTypes DEF Acquire, LockOf, RowsFit, RowsTypeOK
  <2>3. LockOf(c)' = LockOf(c)
    BY <1>2, <2>1, RowsStay DEF Acquire, LockOf, tableVars
  <2>4. QED
    BY <1>2, <2>2, <2>3 DEF Acquire
<1>3. CASE Count(c)
  <2>1. lock' = lock /\ LockOf(c)' = LockOf(c)
    BY <1>3 DEF Count, Return, Goto, Holding, LockOf, tableVars
  <2>2. Holding(c)
    BY <1>3 DEF Count, Holding
  <2>3. QED
    BY <2>1, <2>2 DEF LocksHeld
<1>4. CASE Get(c)
  BY <1>4 DEF Get, Return, Goto, Holding
<1>5. CASE Insert(c) \/ Update(c) \/ Miss(c) \/ Fail(c)
  BY <1>5 DEF Insert, Update, Miss, Fail, Return, Goto, Holding
<1>6. ASSUME \/ \E r \in Run, d \in Device : BeginCreate(c, r, d)
             \/ \E r \in Run, sh \in Calls : BeginMove(c, r, sh)
      PROVE  lock'[LockOf(c)'] = c
  BY <1>6 DEF BeginCreate, BeginMove, Goto, Holding
<1>7. ASSUME NEW b \in Caller, b # c,
             \/ \E r \in Run, d \in Device : BeginCreate(b, r, d)
             \/ \E r \in Run, sh \in Calls : BeginMove(b, r, sh)
             \/ Step(b)
             \/ Fail(b)
      PROVE  lock'[LockOf(c)'] = c
  <2>1. pc'[c] = pc[c] /\ req'[c] = req[c] /\ seen'[c] = seen[c]
    BY <1>7 DEF BeginCreate, BeginMove, Step, Get, Acquire, Count, Insert, Update, Miss, Fail,
                Return, Goto
  <2>2. Holding(c)
    BY <2>1 DEF Holding
  <2>3. LockOf(c)' = LockOf(c)
    BY <2>1, <2>2, RequestTypes, RowsStay DEF Holding, LockOf, CallsFit, CallFits
  <2>4. LockOf(c) \in Device /\ lock[LockOf(c)] = c
    <3>1. req[c].op = "move" => req[c].run \in Run /\ state[req[c].run] # None
      BY <2>2, RequestTypes DEF Holding, CallsFit, CallFits
    <3>2. QED
      BY <2>2, <3>1, RequestTypes DEF LockOf, RowsFit, RowsTypeOK, LocksHeld, Holding
  <2>5. \A d \in Device : lock[d] = c => lock'[d] = c
    BY <1>7, RunsAssumption
       DEF BeginCreate, BeginMove, Step, Get, Acquire, Count, Insert, Update, Miss, Fail, Release
  <2>6. QED
    BY <2>3, <2>4, <2>5
<1>8. CASE UNCHANGED vars
  BY <1>1, <1>8 DEF vars, callVars
<1>9. QED
  BY <1>2, <1>3, <1>4, <1>5, <1>6, <1>7, <1>8 DEF Next, Step

(* Nobody else takes the lock for a call, and a call lets it go when it    *)
(* leaves the stretch from its count to its commit.                        *)
LEMMA OwnerStep ==
  ASSUME IInv, [Next]_vars
  PROVE  LocksOwned'
<1> USE DEF IInv, TypeOK
<1> SUFFICES ASSUME NEW d \in Device, NEW c \in Caller, lock'[d] = c
             PROVE  Holding(c)' /\ LockOf(c)' = d
  BY DEF LocksOwned
<1>1. lock[d] = c => Holding(c) /\ LockOf(c) = d
  BY DEF LocksOwned
<1>2. CASE pc'[c] = pc[c] /\ req'[c] = req[c] /\ seen'[c] = seen[c] /\ lock[d] = c
  <2>1. LockOf(c)' = LockOf(c)
    BY <1>1, <1>2, RequestTypes, RowsStay DEF Holding, LockOf, CallsFit, CallFits
  <2>2. QED
    BY <1>1, <1>2, <2>1 DEF Holding
<1>3. CASE Acquire(c)
  <2>1. d = LockOf(c)
    BY <1>1, <1>3 DEF Acquire, Holding
  <2>2. req[c].op = "move" => req[c].run \in Run /\ state[req[c].run] # None
    BY <1>3, RequestTypes DEF Acquire, CallsFit, CallFits
  <2>3. LockOf(c)' = LockOf(c)
    BY <1>3, <2>2, RowsStay DEF Acquire, LockOf, tableVars
  <2>4. QED
    BY <1>3, <2>1, <2>3 DEF Acquire, Goto, Holding
<1>4. CASE Count(c)
  <2>1. lock' = lock /\ req' = req /\ seen' = seen /\ LockOf(c)' = LockOf(c)
    BY <1>4, RunsAssumption DEF Count, Release, LockOf, tableVars
  <2>2. pc'[c] = IF req[c].op = "create" THEN "insert" ELSE "update"
    BY <1>4, RunsAssumption DEF Count, Release, Goto
  <2>3. Holding(c)'
    BY <1>4, <2>1, <2>2, RequestTypes DEF Count, Holding, CallsFit, CallFits
  <2>4. QED
    BY <1>1, <2>1, <2>3
<1>5. CASE Get(c)
  BY <1>1, <1>5 DEF Get, Holding
<1>6. CASE Insert(c) \/ Update(c) \/ Miss(c) \/ Fail(c)
  BY <1>6, RunsAssumption DEF Insert, Update, Miss, Fail, Release
<1>7. ASSUME \/ \E r \in Run, e \in Device : BeginCreate(c, r, e)
             \/ \E r \in Run, sh \in Calls : BeginMove(c, r, sh)
      PROVE  FALSE
  BY <1>1, <1>7 DEF BeginCreate, BeginMove, Holding
<1>8. ASSUME NEW b \in Caller, b # c,
             \/ \E r \in Run, e \in Device : BeginCreate(b, r, e)
             \/ \E r \in Run, sh \in Calls : BeginMove(b, r, sh)
             \/ Step(b)
             \/ Fail(b)
      PROVE  Holding(c)' /\ LockOf(c)' = d
  <2>1. pc'[c] = pc[c] /\ req'[c] = req[c] /\ seen'[c] = seen[c]
    BY <1>8 DEF BeginCreate, BeginMove, Step, Get, Acquire, Count, Insert, Update, Miss, Fail,
                Return, Goto
  <2>2. lock[d] = c
    BY <1>8, RunsAssumption
       DEF BeginCreate, BeginMove, Step, Get, Acquire, Count, Insert, Update, Miss, Fail, Release
  <2>3. QED
    BY <1>2, <2>1, <2>2
<1>9. CASE UNCHANGED vars
  BY <1>2, <1>9 DEF vars, callVars
<1>10. QED
  BY <1>3, <1>4, <1>5, <1>6, <1>7, <1>8, <1>9 DEF Next, Step

(* A step adds to the checked slots of one device only, one run, and only  *)
(* through a call that had counted under the lock.                         *)
TakesCheckedSlot(c, r) ==
  /\ Reserving(c) /\ r = req[c].run
  /\ pc'[c] = "idle"
  /\ \A b \in Caller \ {c} : pc'[b] = pc[b] /\ req'[b] = req[b] /\ seen'[b] = seen[b]
  /\ \A d \in Device :
       CheckedSlots(d)' \subseteq
         IF d = LockOf(c) THEN CheckedSlots(d) \union {r} ELSE CheckedSlots(d)

LEMMA SlotsStep ==
  ASSUME IInv, [Next]_vars
  PROVE  \/ \A d \in Device : CheckedSlots(d)' \subseteq CheckedSlots(d)
         \/ \E c \in Caller, r \in Run : TakesCheckedSlot(c, r)
<1> USE DEF IInv, TypeOK, RowsTypeOK
<1> DEFINE NoMore == \A d \in Device : CheckedSlots(d)' \subseteq CheckedSlots(d)
<1>1. CASE UNCHANGED tableVars
  BY <1>1 DEF tableVars, CheckedSlots, SlotsOf
<1>2. ASSUME NEW c \in Caller, Insert(c)
      PROVE  NoMore \/ \E r \in Run : TakesCheckedSlot(c, r)
  <2> DEFINE r == req[c].run
  <2>1. r \in Run /\ req[c].op = "create" /\ Reserving(c)
    BY <1>2, RequestTypes DEF Insert, CallsFit, CallFits, Reserving, Holding
  <2>2. /\ pc'[c] = "idle"
        /\ \A b \in Caller \ {c} : pc'[b] = pc[b] /\ req'[b] = req[b] /\ seen'[b] = seen[b]
    BY <1>2 DEF Insert, Return, Goto
  <2>3. ASSUME NEW d \in Device
        PROVE  CheckedSlots(d)' \subseteq
                 IF d = LockOf(c) THEN CheckedSlots(d) \union {r} ELSE CheckedSlots(d)
    BY <1>2, <2>1 DEF Insert, CheckedSlots, SlotsOf, LockOf
  <2>4. QED
    BY <2>1, <2>2, <2>3 DEF TakesCheckedSlot
<1>3. ASSUME NEW c \in Caller, Update(c)
      PROVE  NoMore \/ \E r \in Run : TakesCheckedSlot(c, r)
  <2> DEFINE r == req[c].run
             to == req[c].shape.to
  <2>1. /\ r \in Run /\ req[c].op = "move" /\ to \in States
        /\ req[c].shape.capped \in BOOLEAN
        /\ state[r] = seen[c]
    BY <1>3, RequestTypes DEF Update, CallsFit, CallFits, Unmoved
  <2>2. /\ state' = [state EXCEPT ![r] = to]
        /\ unchecked' = Recorded(r, to, req[c].shape.capped)
        /\ device' = device
    BY <1>3 DEF Update
  <2>3. CASE to \notin SlotStates \/ state[r] \in SlotStates
    BY <2>1, <2>2, <2>3 DEF Recorded, TakesSlot, CheckedSlots, SlotsOf
  <2>4. CASE TakesSlot(state[r], to) /\ ~req[c].shape.capped
    BY <2>1, <2>2, <2>4 DEF Recorded, TakesSlot, CheckedSlots, SlotsOf
  <2>5. CASE TakesSlot(state[r], to) /\ req[c].shape.capped
    <3>1. Reserving(c)
      BY <1>3, <2>1, <2>5 DEF Update, Reserving, Holding
    <3>2. /\ pc'[c] = "idle"
          /\ \A b \in Caller \ {c} : pc'[b] = pc[b] /\ req'[b] = req[b] /\ seen'[b] = seen[b]
      BY <1>3 DEF Update, Return, Goto
    <3>3. ASSUME NEW d \in Device
          PROVE  CheckedSlots(d)' \subseteq
                   IF d = LockOf(c) THEN CheckedSlots(d) \union {r} ELSE CheckedSlots(d)
      BY <2>1, <2>2, <2>5 DEF Recorded, TakesSlot, CheckedSlots, SlotsOf, LockOf
    <3>4. QED
      BY <2>1, <3>1, <3>2, <3>3 DEF TakesCheckedSlot
  <2>6. QED
    BY <2>3, <2>4, <2>5 DEF TakesSlot
<1>4. QED
  BY <1>1, <1>2, <1>3
     DEF Next, Step, vars, BeginCreate, BeginMove, Get, Acquire, Count, Miss, Fail

LEMMA RoomIsRoom ==
  ASSUME NEW d, RunTableAssumption
  PROVE  /\ CheckedSlots(d) \in SUBSET Run
         /\ ~Full(d) => Room(d)
<1>1. SlotsOf(d) \in SUBSET Run /\ CheckedSlots(d) \in SUBSET SlotsOf(d)
  BY DEF CheckedSlots, SlotsOf
<1>2. QED
  BY <1>1, SlotSizes, RunTableAssumption DEF Full, Room

LEMMA CapStep ==
  ASSUME IInv, [Next]_vars
  PROVE  SlotsReserved' /\ CheckedCap'
<1> USE DEF IInv, TypeOK
<1>0. /\ MaxParallel \in Nat \ {0} /\ MaxParallel' = MaxParallel
      /\ \A d \in Device : CheckedSlots(d) \in SUBSET Run
  BY RunTableAssumption, RoomIsRoom
<1>1. \A c \in Caller : Holding(c) => lock[LockOf(c)] = c /\ LockOf(c) \in Device
  <2> SUFFICES ASSUME NEW c \in Caller, Holding(c)
               PROVE  lock[LockOf(c)] = c /\ LockOf(c) \in Device
    OBVIOUS
  <2>1. req[c].op = "move" => req[c].run \in Run /\ state[req[c].run] # None
    BY RequestTypes DEF Holding, CallsFit, CallFits
  <2>2. QED
    BY <2>1, RequestTypes DEF LockOf, RowsFit, RowsTypeOK, LocksHeld, Holding
<1>2. \A c \in Caller :
        Reserving(c)' => \/ /\ Reserving(c) /\ LockOf(c)' = LockOf(c)
                            /\ pc'[c] # "idle"
                         \/ /\ Room(LockOf(c)) /\ LockOf(c)' = LockOf(c)
                            /\ pc[c] = "count" /\ UNCHANGED tableVars
  <2> SUFFICES ASSUME NEW c \in Caller, Reserving(c)'
               PROVE  \/ /\ Reserving(c) /\ LockOf(c)' = LockOf(c)
                         /\ pc'[c] # "idle"
                      \/ /\ Room(LockOf(c)) /\ LockOf(c)' = LockOf(c)
                         /\ pc[c] = "count" /\ UNCHANGED tableVars
    OBVIOUS
  <2>1. CASE pc'[c] = pc[c] /\ req'[c] = req[c] /\ seen'[c] = seen[c]
    <3>1. Reserving(c) /\ pc'[c] # "idle"
      BY <2>1 DEF Reserving, Holding
    <3>2. QED
      BY <2>1, <3>1, RequestTypes, RowsStay DEF Reserving, Holding, LockOf, CallsFit, CallFits
  <2>2. CASE Count(c)
    BY <2>2, RoomIsRoom, RunTableAssumption
       DEF Count, Return, Goto, Reserving, Holding, LockOf, tableVars
  <2>3. CASE Get(c) \/ Acquire(c) \/ Insert(c) \/ Update(c) \/ Miss(c) \/ Fail(c)
    BY <2>3 DEF Get, Acquire, Insert, Update, Miss, Fail, Return, Goto, Reserving, Holding
  <2>4. ASSUME \/ \E r \in Run, d \in Device : BeginCreate(c, r, d)
               \/ \E r \in Run, sh \in Calls : BeginMove(c, r, sh)
        PROVE  FALSE
    BY <2>4 DEF BeginCreate, BeginMove, Goto, Reserving, Holding
  <2>5. ASSUME NEW b \in Caller, b # c,
               \/ \E r \in Run, d \in Device : BeginCreate(b, r, d)
               \/ \E r \in Run, sh \in Calls : BeginMove(b, r, sh)
               \/ Step(b)
               \/ Fail(b)
        PROVE  pc'[c] = pc[c] /\ req'[c] = req[c] /\ seen'[c] = seen[c]
    BY <2>5 DEF BeginCreate, BeginMove, Step, Get, Acquire, Count, Insert, Update, Miss, Fail,
                Return, Goto
  <2>6. CASE UNCHANGED vars
    BY <2>1, <2>6 DEF vars, callVars
  <2>7. QED
    BY <2>1, <2>2, <2>3, <2>4, <2>5, <2>6 DEF Next, Step
<1>3. CASE \A d \in Device : CheckedSlots(d)' \subseteq CheckedSlots(d)
  <2>1. \A d \in Device : Cardinality(CheckedSlots(d)') <= Cardinality(CheckedSlots(d))
    BY <1>0, <1>3, SlotSizes
  <2>2. CheckedCap'
    <3>1. \A d \in Device : Cardinality(CheckedSlots(d)') \in Nat /\ Cardinality(CheckedSlots(d)) \in Nat
      BY <1>0, <1>3, SlotSizes
    <3>2. QED
      BY <1>0, <2>1, <3>1 DEF CheckedCap
  <2>3. SlotsReserved'
    <3> SUFFICES ASSUME NEW c \in Caller, Reserving(c)'
                 PROVE  Room(LockOf(c))'
      BY DEF SlotsReserved
    <3>1. PICK d \in Device : d = LockOf(c)' /\ Room(d)
      BY <1>1, <1>2 DEF SlotsReserved, Reserving, Holding
    <3>2. Room(d)'
      BY <1>0, <1>3, <2>1, <3>1, SlotSizes DEF Room
    <3>3. QED
      BY <3>1, <3>2 DEF Room, CheckedSlots, SlotsOf
  <2>4. QED
    BY <2>2, <2>3
<1>4. ASSUME NEW c \in Caller, NEW r \in Run, TakesCheckedSlot(c, r)
      PROVE  SlotsReserved' /\ CheckedCap'
  <2>1. LockOf(c) \in Device /\ lock[LockOf(c)] = c /\ Room(LockOf(c))
    BY <1>1, <1>4 DEF TakesCheckedSlot, SlotsReserved, Reserving
  <2>2. CheckedCap'
    <3> SUFFICES ASSUME NEW d \in Device
                 PROVE  Cardinality(CheckedSlots(d)') <= MaxParallel
      BY <1>0 DEF CheckedCap
    <3>1. CASE d = LockOf(c)
      <4>1. CheckedSlots(d)' \subseteq CheckedSlots(d) \union {r}
        BY <1>4, <3>1 DEF TakesCheckedSlot
      <4>2. Cardinality(CheckedSlots(d)) < MaxParallel
        BY <2>1, <3>1 DEF Room
      <4>3. CheckedSlots(d) \union {r} \in SUBSET Run
        BY <1>0
      <4>4. /\ Cardinality(CheckedSlots(d)') <= Cardinality(CheckedSlots(d) \union {r})
            /\ Cardinality(CheckedSlots(d)') \in Nat
            /\ Cardinality(CheckedSlots(d) \union {r}) \in Nat
        BY <4>1, <4>3, SlotSizes
      <4>5. /\ Cardinality(CheckedSlots(d) \union {r}) <= Cardinality(CheckedSlots(d)) + 1
            /\ Cardinality(CheckedSlots(d)) \in Nat
        BY <1>0, SlotSizes
      <4>6. QED
        BY <1>0, <4>2, <4>4, <4>5
    <3>2. CASE d # LockOf(c)
      <4>1. CheckedSlots(d)' \in SUBSET CheckedSlots(d)
        BY <1>4, <3>2 DEF TakesCheckedSlot
      <4>2. /\ Cardinality(CheckedSlots(d)') <= Cardinality(CheckedSlots(d))
            /\ Cardinality(CheckedSlots(d)') \in Nat
            /\ Cardinality(CheckedSlots(d)) \in Nat
        BY <1>0, <4>1, SlotSizes
      <4>3. QED
        BY <1>0, <4>2 DEF CheckedCap
    <3>3. QED
      BY <3>1, <3>2
  <2>3. SlotsReserved'
    <3> SUFFICES ASSUME NEW b \in Caller, Reserving(b)'
                 PROVE  Room(LockOf(b))'
      BY DEF SlotsReserved
    <3>1. b # c
      BY <1>4 DEF TakesCheckedSlot, Reserving, Holding
    <3>2. Reserving(b)
      BY <1>4, <3>1 DEF TakesCheckedSlot, Reserving, Holding
    <3>3. LockOf(b)' = LockOf(b)
      <4>1. req'[b] = req[b]
        BY <1>4, <3>1 DEF TakesCheckedSlot
      <4>2. QED
        BY <3>2, <4>1, RequestTypes, RowsStay DEF Reserving, Holding, LockOf, CallsFit, CallFits
    <3>4. PICK d \in Device : d = LockOf(b)' /\ Room(d) /\ d # LockOf(c)
      BY <1>1, <2>1, <3>1, <3>2, <3>3 DEF SlotsReserved, Reserving
    <3>5. CheckedSlots(d)' \in SUBSET CheckedSlots(d)
      BY <1>4, <3>4 DEF TakesCheckedSlot
    <3>6. Room(d)'
      BY <1>0, <3>4, <3>5, SlotSizes DEF Room
    <3>7. QED
      BY <3>4, <3>6 DEF Room, CheckedSlots, SlotsOf
  <2>4. QED
    BY <2>2, <2>3
<1>5. QED
  BY <1>3, <1>4, SlotsStep

------------------------------------------------------------------------------
(* The inductive invariant holds of every behaviour of the calls.          *)
THEOREM Safety == Spec => []IInv
<1>1. IInv /\ [Next]_vars => IInv'
  BY TypeStep, FitStep, LockStep, OwnerStep, CapStep DEF IInv
<1>2. QED
  BY InitIInv, <1>1, PTL DEF Spec

(* Every variable keeps its type through every interleaving of the calls   *)
(* of runs.py.                                                             *)
THEOREM TypeCorrect == Spec => []TypeOK
<1>1. IInv => TypeOK
  BY DEF IInv
<1>2. QED
  BY Safety, <1>1, PTL

(* No interleaving of create_run and transition lets two calls that name   *)
(* the cap both take a device's last slot.                                 *)
THEOREM CapIsKept == Spec => []CheckedCap
<1>1. IInv => CheckedCap
  BY DEF IInv
<1>2. QED
  BY Safety, <1>1, PTL

(* A device's lock is held exactly by the call that stands between its     *)
(* count and its commit on that device, so no way out of a call leaves it  *)
(* taken.                                                                  *)
THEOREM LocksComeBack == Spec => []LocksFollowCalls
<1>1. IInv => LocksFollowCalls
  BY DEF IInv, LocksHeld, LocksOwned, LocksFollowCalls
<1>2. QED
  BY Safety, <1>1, PTL

(* What the update of a move does, once the row is as it was read.         *)
LEMMA UpdateIsJudged ==
  ASSUME IInv, NEW c \in Caller, Update(c)
  PROVE  /\ req[c].op = "move" /\ req[c].run \in Run /\ req[c].shape \in Calls
         /\ state[req[c].run] \in States
         /\ Allowed(state[req[c].run], req[c].shape)
         /\ req[c].shape.to \in States /\ req[c].shape.capped \in BOOLEAN
         /\ state' = [state EXCEPT ![req[c].run] = req[c].shape.to]
  BY RequestTypes DEF Update, Unmoved, IInv, CallsFit, CallFits

\* Only an insert and an update change the rows.
LEMMA RowsChange ==
  ASSUME IInv, [Next]_vars
  PROVE  UNCHANGED tableVars \/ \E c \in Caller : Insert(c) \/ Update(c)
  BY DEF Next, Step, vars, BeginCreate, BeginMove, Get, Acquire, Count, Miss, Fail

(* Each change of state is a legal move by a call that read and expected   *)
(* the state it left: transition() never acts on a row it did not judge.   *)
THEOREM MovesAreLegal == Spec => MovesAreJudged
<1> DEFINE Judged ==
      \A r \in Run :
        state[r] # None /\ state'[r] # state[r] =>
          \E c \in Caller :
            /\ req[c].op = "move" /\ req[c].run = r
            /\ state'[r] = req[c].shape.to
            /\ Allowed(state[r], req[c].shape)
<1>1. IInv /\ [Next]_vars => [Judged]_vars
  <2> SUFFICES ASSUME IInv, [Next]_vars, NEW r \in Run, state[r] # None, state'[r] # state[r]
               PROVE  \E c \in Caller :
                        /\ req[c].op = "move" /\ req[c].run = r
                        /\ state'[r] = req[c].shape.to
                        /\ Allowed(state[r], req[c].shape)
    OBVIOUS
  <2>1. ASSUME NEW c \in Caller, Insert(c)
        PROVE  FALSE
    BY <2>1, RequestTypes DEF Insert, IInv, TypeOK, RowsTypeOK
  <2>2. PICK c \in Caller : Update(c)
    BY <2>1, RowsChange DEF tableVars
  <2>3. req[c].run = r /\ state'[r] = req[c].shape.to
    BY <2>2, UpdateIsJudged DEF IInv, TypeOK, RowsTypeOK
  <2>4. QED
    BY <2>2, <2>3, UpdateIsJudged
<1>2. QED
  BY Safety, <1>1, PTL DEF MovesAreJudged, Spec

(* A run that ended keeps its ending and every row keeps its device, by    *)
(* the conditional update and the insert alone.                            *)
THEOREM EndedStaysEnded == Spec => EndedIsFinal
<1> DEFINE Final ==
      \A r \in Run :
        /\ state[r] \in TerminalStates => state'[r] = state[r]
        /\ device[r] # None => device'[r] = device[r]
<1>1. IInv /\ [Next]_vars => [Final]_vars
  <2> SUFFICES ASSUME IInv, [Next]_vars, NEW r \in Run
               PROVE  /\ state[r] \in TerminalStates => state'[r] = state[r]
                      /\ device[r] # None => device'[r] = device[r]
    OBVIOUS
  <2>1. device[r] # None => device'[r] = device[r]
    BY RowsStay DEF IInv, RowsFit
  <2>2. ASSUME NEW c \in Caller, Update(c), state[r] \in TerminalStates
        PROVE  state'[r] = state[r]
    BY <2>2, UpdateIsJudged, EndedHasNoMove DEF Allowed, IInv, TypeOK, RowsTypeOK
  <2>3. ASSUME NEW c \in Caller, Insert(c), state[r] \in TerminalStates
        PROVE  state'[r] = state[r]
    BY <2>3, StateGroups, RequestTypes DEF Insert, IInv, TypeOK, RowsTypeOK
  <2>4. QED
    BY <2>1, <2>2, <2>3, RowsChange DEF tableVars
<1>2. QED
  BY Safety, <1>1, PTL DEF EndedIsFinal, Spec

(* Each step of the calls is one create or one move of the table, or       *)
(* leaves it alone: the read, lock, count and write of a call look atomic. *)
THEOREM RunsImplementTable == Spec => ImplementsTable
<1>1. Init => Table!TableInit
  BY DEF Init, TableInit, Table!TableInit, None, Table!None
<1>2. TableNext => Table!TableNext
  <2>1. /\ States = Table!States /\ SlotStates = Table!SlotStates /\ None = Table!None
        /\ Transitions = Table!Transitions
    BY DEF States, Table!States, SlotStates, Table!SlotStates, PausedStates, Table!PausedStates,
           TerminalStates, Table!TerminalStates, Endings, Table!Endings, None, Table!None,
           Transitions, Table!Transitions
  <2>2. \A d : Room(d) <=> Table!Room(d)
    <3>1. \A S : Cardinality(S) = Table!Cardinality(S)
      BY DEF Cardinality, Table!Cardinality
    <3>2. \A d : CheckedSlots(d) = Table!CheckedSlots(d)
      BY <2>1 DEF CheckedSlots, Table!CheckedSlots, SlotsOf, Table!SlotsOf
    <3>3. QED
      BY <3>1, <3>2 DEF Room, Table!Room
  <2>3. \A r, to, capped : Move(r, to, capped) <=> Table!Move(r, to, capped)
    BY <2>1, <2>2 DEF Move, Table!Move, Recorded, Table!Recorded, TakesSlot, Table!TakesSlot,
                      CanTransition, Table!CanTransition
  <2>4. \A r, d : Create(r, d) <=> Table!Create(r, d)
    BY <2>1, <2>2 DEF Create, Table!Create
  <2>5. QED
    BY <2>1, <2>3, <2>4 DEF TableNext, Table!TableNext
<1>3. IInv /\ [Next]_vars => [Table!TableNext]_(Table!tableVars)
  <2> SUFFICES ASSUME IInv, [Next]_vars
               PROVE  UNCHANGED tableVars \/ TableNext
    BY <1>2 DEF tableVars, Table!tableVars
  <2>1. ASSUME NEW c \in Caller, Insert(c)
        PROVE  UNCHANGED tableVars \/ TableNext
    <3>1. req[c].run \in Run /\ req[c].device \in Device /\ Reserving(c)
          /\ LockOf(c) = req[c].device
      BY <2>1, RequestTypes DEF Insert, IInv, CallsFit, CallFits, Reserving, Holding, LockOf
    <3>2. Room(req[c].device)
      BY <3>1 DEF IInv, SlotsReserved
    <3>3. UNCHANGED tableVars \/ Create(req[c].run, req[c].device)
      BY <2>1, <3>2 DEF Insert, Create, tableVars
    <3>4. QED
      BY <3>1, <3>3 DEF TableNext
  <2>2. ASSUME NEW c \in Caller, Update(c)
        PROVE  TableNext
    <3> DEFINE r == req[c].run
               sh == req[c].shape
    <3>1. /\ r \in Run /\ sh.to \in States /\ sh.capped \in BOOLEAN
          /\ state[r] \in States /\ CanTransition(state[r], sh.to)
      BY <2>2, UpdateIsJudged DEF Allowed
    <3>2. sh.capped /\ TakesSlot(state[r], sh.to) => Room(device[r])
      <4>1. req[c].op = "move" /\ seen[c] = state[r]
        BY <2>2, UpdateIsJudged DEF Update, Unmoved
      <4>2. sh.capped /\ TakesSlot(state[r], sh.to) => Reserving(c) /\ LockOf(c) = device[r]
        BY <2>2, <4>1 DEF Update, Reserving, Holding, LockOf
      <4>3. QED
        BY <4>2 DEF IInv, SlotsReserved
    <3>3. Move(r, sh.to, sh.capped)
      BY <2>2, <3>1, <3>2 DEF Move, Update
    <3>4. QED
      BY <3>1, <3>3 DEF TableNext
  <2>3. QED
    BY <2>1, <2>2, RowsChange
<1>4. QED
  BY Safety, <1>1, <1>3, PTL DEF ImplementsTable, Table!TableSpec, Spec

(* The documented cap has no exception if every call that can take a run   *)
(* out of a pause names the cap: of the calls of the code, only the bare   *)
(* start of a run is against that.                                         *)
THEOREM CapOfCheckedResumes ==
  ASSUME \A sh \in Calls : sh.capped \/ \A s \in sh.expected : ~TakesSlot(s, sh.to)
  PROVE  Spec => []CapRespected
<1> DEFINE NoException == unchecked = {}
<1>1. Init => NoException
  BY DEF Init, TableInit
<1>2. IInv /\ NoException /\ [Next]_vars => NoException'
  <2> SUFFICES ASSUME IInv, unchecked = {}, [Next]_vars
               PROVE  unchecked' = {}
    OBVIOUS
  <2>1. ASSUME NEW c \in Caller, Update(c)
        PROVE  unchecked' = {}
    <3> DEFINE s == state[req[c].run]
               sh == req[c].shape
    <3>1. sh \in Calls /\ s \in sh.expected
      BY <2>1, UpdateIsJudged DEF Allowed
    <3>2. sh.capped \/ ~TakesSlot(s, sh.to)
      BY <3>1
    <3>3. QED
      BY <2>1, <3>2 DEF Update, Recorded
  <2>2. QED
    BY <2>1, RowsChange DEF Insert, tableVars
<1>3. CheckedCap /\ NoException => CapRespected
  <2>1. ASSUME unchecked = {}, NEW d \in Device
        PROVE  CheckedSlots(d) = SlotsOf(d)
    BY <2>1 DEF CheckedSlots
  <2>2. QED
    BY <2>1 DEF CheckedCap, CapRespected
<1> HIDE DEF NoException
<1>4. QED
  BY Safety, CapIsKept, <1>1, <1>2, <1>3, PTL DEF Spec
==============================================================================
