CONSTANTS
  Gated = {g1}
  Free = {f}
  Limit = 4
  Ceiling = 2
  Estimate = 2
  Costs <- MCCosts
  MaxCalls <- MCMaxCalls
  Loop = loop
  Nothing = nothing
SPECIFICATION GateSpec
INVARIANTS RecordIsExact NeverUndercounts
PROPERTIES EveryTaskEnds
CHECK_DEADLOCK FALSE
