CONSTANTS
  Call = {c1, c2}
  Conn = {k1, k2}
  Parallel = 2
  MaxInFlight = 1
  Cancels = TRUE
  Refusals = TRUE
SPECIFICATION Spec
INVARIANTS CallsEndWithConnection NoCallIsStranded PauseFinishesCalls
PROPERTIES ImplementsToolCalls
CHECK_DEADLOCK FALSE
SYMMETRY Symmetry
