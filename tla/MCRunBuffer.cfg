CONSTANTS
  Caller = {c1, c2}
  MaxStream = 3
  PageSize = 2
  Mishaps = {"lost", "unheard", "twice"}
  Used = {"conv"}
  MaxCalls = 4
  MaxMishaps = 1
SPECIFICATION Spec
INVARIANTS ListsLiveTogether SizesAreExact ReadsAreFaithful
PROPERTIES NumbersRise
CHECK_DEADLOCK FALSE
SYMMETRY Symmetry
