SPECIFICATION FairSpec
CONSTANTS
  Requests = {r1, r2}
  Reconcilers = {k1}
  Operators = {}
  Nobody = Nobody
  Pairs = {p1}
  Sides = {"buy"}
  Values = {2}
  Slippages <- NoSlippage
  Gates = {}
  Configured = TRUE
  InitialCash = 4
  ExchangeCash = 4
  MatchWindow = 0
  StaleAge = 1
  MaxNow = 3
  LastArrival = 1
  MaxFaults = 1
  MaxLockLosses = 0

PROPERTIES
  FillsEventuallyBooked
  PendingResolvedUnlessShadowed
