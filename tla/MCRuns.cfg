\* Every call of the backend, from two threads, on two runs of one device with one slot.
CONSTANTS
  Run = {r1, r2}
  Device = {d1}
  MaxParallel = 1
  Caller = {c1, c2}
  Calls <- CodeCalls
  MaxAttempts = 2
SPECIFICATION Spec
SYMMETRY Symmetry
INVARIANTS TypeOK CheckedCap LocksFollowCalls
PROPERTIES MovesAreJudged ImplementsTable
