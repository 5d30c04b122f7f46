SPECIFICATION MCSpec
CONSTANTS
  Start = 100
  Equities <- MCEquities
  Weights <- MCWeights
  MaxGross = 20
  MaxChange = 10
  MaxLosses = 3
  DailyLossPct = 4
  DrawdownPct = 20
  DeriskPct = 40
  MaxDay = 2
  Length = 6
  RefitEvery = 3
  Window = 1
  BarsPerDay = 4
  Entry = 200
  Exit = 50
  Stop = 400
  MinHalfLife = 2
  MaxLife = 100
  Scores <- MCScores
  HalfLives <- MCHalfLives
  Convictions <- MCConvictions
  VolScalars = {200}
  Returns <- MCReturns
  Buffer = 3
  CostPct = 1
  OffFloor = 15
  IndeterminateScale = 35
  ConfidenceFloor = 20
  Statistics <- MCStatistics
  Prices <- MCPrices
  Atrs <- MCAtrs
  InitialAtr = 40
  TrailAtr = 50
  BreakevenTrigger = 30
  BreakevenOffset = 3
  TrailActivate = 40
  TakeProfitAtr = 60
  MaxBars = 3
  NoStop = NoStop
  Account <- MCAccount
  Closes <- MCCloses
  Ranges <- MCRanges
  Wants <- MCWants
  Resting <- MCResting
  RiskPer10k = 1000
  RiskFloorPct = 35
INVARIANTS
  BreakevenLocksIn
  Protected
  ExitsGoThrough
PROPERTIES
  ChangeBounded
  BreachHaltsAtOnce
  OnlyDailyLossIsCleared
  StopRatchets
CHECK_DEADLOCK FALSE
