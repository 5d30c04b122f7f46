SPECIFICATION Spec
CONSTANTS
  Held = {0}
  Targets <- MCTargets
  MaxOrders = 2
  MaxBars = 2
  Faults = {}
  ReduceOnly = TRUE
  GivesUp = TRUE
CHECK_DEADLOCK FALSE
INVARIANT
  NoDoublePosition
