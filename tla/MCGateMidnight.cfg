CONSTANTS
  Gated = {g1}
  Free = {f}
  Limit = 4
  Ceiling = 2
  Estimate = 2
  Costs <- MCLowCosts
  MaxCalls <- MCMaxCalls
  Loop = loop
  Nothing = nothing
SPECIFICATION GateSpec
INVARIANTS NeverUndercountsAtMidnight
CHECK_DEADLOCK FALSE
