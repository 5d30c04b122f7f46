SPECIFICATION MCSpec
CONSTANTS
  Equities = {"aapl", "msft"}
  Crypto = {"btc"}
  Scale = 1000
  MaxPosition = 300
  MaxSector = 350
  MaxGross = 500
  MaxNet = 450
  MinPosition = 50
  BandPct = 20
  BandAbs = 10
  Ladder <- MCLadder
  NewPct = 25
  FullDays = 60
  VolUnit = 4
  VolMaps <- MCVolMaps
  Directions <- MCDirections
  Scalars = {40, 100}
  Days = {0, 60}
  Holdings <- MCHoldings
  Marks = {100, 95, 88, 80}
  Accounts <- MCAccounts
  Stocks = {"aapl", "msft"}
  PdtWindow = 4
  Reserve = 1
  MaxSessions = 3
  MaxUsed = 6
  Universe <- MCUniverse
  Reads <- MCReads
  Alikes <- MCAlikes
  MaxCandidates = 3
  MaxConcurrent = 2
  MaxRounds = 1
  Limit = 5
  Page = 3
  MaxRetries = 2
  MaxBars = 6
  Venues = {"ccxt", "alpaca"}
  FirstBar = 7
  MaxNow = 10
  MaxTicks = 4
  Listed = 0
  Delays = {0, 1}
  Sizes <- MCSizes
  Prices = {1, 3}
  Fees = {1}
  Unit = 12
  MaxClosed = 1
  MaxFills = 4
  MaxHeld = 3
INVARIANTS
  BookWithinLimits
  DrawdownDelivers
  PlanIsFunded
  ReserveIsEnough
  OneBetEach
  TicksCountOnce
  ShownIsMade
CHECK_DEADLOCK FALSE
