SPECIFICATION Spec
CONSTANTS
  Servers = {s1}
  Alerters = {s1}
  Protectors = {}
  Readers = {r}
  Calls = {c1, c2}
  Buys = {c1}
  Sells = {c2}
  Sets = {c2}
  Cancels = {c2}
  BuyParams <- BothOrNone
  InformAgent = FALSE
  AlertLimit = 2
  Attempts = 2
  FaultKinds = {"database", "exchange", "refusal", "deadline", "crash"}
  MaxFaults = 2
  MaxMoves = 1
  MaxAlerts = 0
CHECK_DEADLOCK FALSE
PROPERTY FailedIsFinal
