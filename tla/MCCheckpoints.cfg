CONSTANTS
  Path = {p1, p2}
  Content = {a}
  MaxStep = 2
SPECIFICATION StoreSpec
INVARIANTS StoreTypeOK RowsNameBlobs EditsAreSaved
PROPERTIES RewindUndoes
SYMMETRY Symmetry
CHECK_DEADLOCK FALSE
