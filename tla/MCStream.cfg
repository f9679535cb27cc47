\* Two emitting tasks, two events, a rebuild and two lost connections, with every mishap.
CONSTANTS
  Emitter = {e1, e2}
  MaxSeq = 2
  MaxEpoch = 1
  MaxDrops = 2
  Mishaps = {"stop", "abort", "refuse"}
SPECIFICATION FairSpec
INVARIANTS SeenIsStored
PROPERTIES ImplementsEventStream FinalIsFresh CatchesUp
CHECK_DEADLOCK FALSE
