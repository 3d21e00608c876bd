SPECIFICATION Spec
CONSTANTS
  Requests = {r1, r2}
  Reconcilers = {k1}
  Operators = {}
  Nobody = Nobody
  Pairs = {p1}
  Sides = {"buy", "sell"}
  Values = {2}
  Slippages <- MCSlippages
  Gates = {"swiftward"}
  Configured = TRUE
  InitialCash = 2
  ExchangeCash = 5
  MatchWindow = 0
  StaleAge = 1
  MaxNow = 2
  LastArrival = 1
  MaxFaults = 1
  MaxLockLosses = 1
SYMMETRY Symmetry
INVARIANTS
  CashNeverNegative
  FillBookedOnce
  StateMatchesRows
  OrdersVettedAndOnRecord
PROPERTIES
  ResolvedRowsAreFinal
  ImplementsLedger
