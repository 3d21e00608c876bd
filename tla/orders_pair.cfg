SPECIFICATION Spec
CONSTANTS
  Servers = {s1, s2}
  Alerters = {s1, s2}
  Protectors = {}
  Readers = {}
  Calls = {c1, c2}
  Buys = {c1}
  Sells = {c2}
  Sets = {}
  Cancels = {}
  BuyParams <- BothOrNone
  InformAgent = FALSE
  AlertLimit = 10
  Attempts = 2
  FaultKinds = {"refusal", "exchange"}
  MaxFaults = 2
  MaxMoves = 3
  MaxAlerts = 0
SYMMETRY Symmetry
CHECK_DEADLOCK FALSE
INVARIANTS
  OneSalePerAlert
  SiblingsStandDown
  FiredAlertsConclude
