CONSTANTS
  Path = {p1, p2}
  Content = {a}
  MaxStep = 2
SPECIFICATION StoreSpec
PROPERTIES NothingLandsUndone
SYMMETRY Symmetry
CHECK_DEADLOCK FALSE
