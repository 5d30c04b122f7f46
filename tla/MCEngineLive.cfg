SPECIFICATION Spec
CONSTANTS
  Held = {0}
  Targets <- MCAlwaysLong
  MaxOrders = 1
  MaxBars = 2
  Faults = {"flatten"}
  ReduceOnly = TRUE
  GivesUp = FALSE
PROPERTIES
  HaltStopsDriver
  DeadFeedHalts
  NewestBarDecided
CHECK_DEADLOCK FALSE
