SPECIFICATION FairSpec
CONSTANTS
  Servers = {s1}
  Alerters = {s1}
  Protectors = {s1}
  Readers = {}
  Calls = {c1, c2}
  Buys = {c1}
  Sells = {c2}
  Sets = {}
  Cancels = {}
  BuyParams <- StopLossOnly
  InformAgent = TRUE
  AlertLimit = 10
  Attempts = 2
  FaultKinds = {"crash", "database", "deadline"}
  MaxFaults = 1
  MaxMoves = 1
  MaxAlerts = 2
CHECK_DEADLOCK FALSE
PROPERTIES
  StopLossHolds
  PositionsGetProtected
