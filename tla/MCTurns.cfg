CONSTANTS
  Task = {t1, t2, t3}
  Conn = {k1, k2}
  MaxMsg = 3
  MaxQueued = 1
  MaxSteps = 1
SPECIFICATION Spec
INVARIANTS TypeOK NoMessageVanishes GivenInOrder
PROPERTIES NobodyWorksOn
CHECK_DEADLOCK FALSE
SYMMETRY Symmetry
