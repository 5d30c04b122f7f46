SPECIFICATION MCSpec
CONSTANTS
  Parts = {"session"}
  Requests = {r1}
  Symbols = {s1}
  FlattenFails = FALSE
  MaxRequests = 2
  MaxGrants = 1
  Venues = {"alpaca", "binance"}
  Keyed = {"alpaca"}
  Universe = {"BTC", "ETH"}
  Quotes <- MCQuotes
  Partial = {"alpaca", "binance"}
  Default = "alpaca"
  Switches = {h1, h2}
  MaxSwitches = 3
  MaxOutages = 2
  Windows = {"w1", "w2"}
  Services = {"s"}
  Ports = {1, 2, 3}
  ServicePort = 1
  Foreign = {1, 2}
  MaxRaces = 2
  MaxCrashes = 2
INVARIANT
  SwitchLeavesNothing
CHECK_DEADLOCK FALSE
