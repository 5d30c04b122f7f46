SPECIFICATION MCSpec
CONSTANTS
  MaxDay = 3
  MaxTrades = 4
  MaxKills = 2
  Keys = {"main", "sandbox"}
  Testnet = {"sandbox"}
  Writers = {1, 2}
  MaxRequests = 3
  MaxTrouble = 1
  Sharpes = {20, 21, 22}
  Floor = 5
  ImprovementPct = 10
  Interval = 1
  Day = 3
  MaxRounds = 2
  MaxHours = 3
  MaxRestarts = 1
  Bars = 100
  TrainSize = 20
  TestSize = 24
  Purge = 8
  Embargo = 4
  Anchored = TRUE
  MinTrain = 10
  Candidates = {1, 2, 3}
  Warmup <- MCWarmup
  Readings = {0, 1, 2}
  Instruments = {"aapl", "btc"}
  Results = {0, 1, 2}
  NotLooked = 99
  Holdouts = {0, 1, 2, 99}
  HoldSharpe = 1
  MinOutOfSample = 1
  LuckFactor <- MCLuckFactor
  MaxTrials = 4
INVARIANTS
  KillLosesOne
  SummaryIsWhole
  FileIsWhole
  RevocationSurvives
  FoldsAreApart
PROPERTY
  LiveImproves
CHECK_DEADLOCK FALSE
