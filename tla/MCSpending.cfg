CONSTANTS
  Server = {s1, s2}
  Grant = {g1, g2}
  Base = 2
  Chunk = 1
  Charge = {0, 2}
  MaxTotal = 3
  MaxCeiling = 5
  MaxMishaps = 1
SPECIFICATION Spec
INVARIANTS TypeOK NoCallOverCeiling WarnedOnce
PROPERTIES GrantBuysACall
SYMMETRY Symmetry
CHECK_DEADLOCK FALSE
