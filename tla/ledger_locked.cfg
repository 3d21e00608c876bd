SPECIFICATION Spec
CONSTANTS
  Requests = {r1, r2}
  Reconcilers = {k1}
  Operators = {o1}
  Nobody = Nobody
  Pairs = {p1}
  Sides = {"buy"}
  Values = {1, 2}
  Slippages <- MCSlippages
  Gates = {"swiftward", "risk_router"}
  Configured = TRUE
  InitialCash = 2
  ExchangeCash = 5
  MatchWindow = 0
  StaleAge = 1
  MaxNow = 2
  LastArrival = 0
  MaxFaults = 2
  MaxLockLosses = 0
SYMMETRY Symmetry
INVARIANTS
  TypeOK
  InFlightRowsStayPending
  OwnFillWhileCallsLive
PROPERTIES
  HaltStopsOrders
  OrdersUseFreshCash
