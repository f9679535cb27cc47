CONSTANTS
  Client = {c1, c2}
  Sweeper = sweeper
SPECIFICATION Spec
INVARIANTS TypeOK EndedRunIsClean LiveContentKept
SYMMETRY Symmetry
