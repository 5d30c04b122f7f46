SPECIFICATION MCSpec
CONSTANTS
  MaxPerMinute = 2
  Minute = 2
  Window = 0
  BandPct = 10
  MaxSpread = 3
  RequiredEdge = 3
  Step = 1
  MinNotional = 1
  Books <- MCBooks
  Targets <- MCTargets
  Edges <- MCEdges
  Fee = 1
  Slip = 1
  Start = 100
  Wired = TRUE
  MaxTime = 2
  MaxOrders = 4
  Positions <- MCPositions
  Orders <- MCOrders
  Troubles = {"transport", "refused"}
  HasBook = TRUE
INVARIANTS
  EquityIsMarkToMarket
  HaltEndsFlat
PROPERTY
  AnswerIsHonest
CHECK_DEADLOCK FALSE
