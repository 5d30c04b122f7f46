SPECIFICATION Spec
CONSTANTS
  Held <- MCHeld
  Targets <- MCLongOnly
  MaxOrders = 2
  MaxBars = 2
  Faults = {}
  ReduceOnly = TRUE
  GivesUp = TRUE
INVARIANTS
  CleanHaltLeavesNothing
PROPERTIES
  NothingAfterUnknown
CHECK_DEADLOCK FALSE
