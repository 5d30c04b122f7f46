SPECIFICATION MCSpec
CONSTANTS
  Parts = {"session", "panel", "launch"}
  Requests = {r1, r2}
  Symbols = {s1}
  FlattenFails = TRUE
  MaxRequests = 3
  MaxGrants = 1
  Venues = {"alpaca", "binance"}
  Keyed = {"alpaca"}
  Universe = {"BTC", "ETH"}
  Quotes <- MCQuotes
  Partial = {"alpaca", "binance"}
  Default = "alpaca"
  Switches = {h1, h2}
  MaxSwitches = 3
  MaxOutages = 2
  Windows = {"w1", "w2", "w3"}
  Services = {"s"}
  Ports = {1, 2, 3}
  ServicePort = 1
  Foreign = {1, 2}
  MaxRaces = 2
  MaxCrashes = 1
INVARIANTS
  SessionAgrees
  EnginesTradeOneBroker
  OneVenueOnScreen
  BotsAreRaced
PROPERTIES
  RequestsAreAnswered
  FeedRecovers
CHECK_DEADLOCK FALSE
