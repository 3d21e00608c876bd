SPECIFICATION Spec
CONSTANTS
  Parts = {"sync", "prices", "profits", "candles", "indicators", "alerts", "sandbox", "telegram", "pool",
           "transactions", "analytic", "drawdown", "prism"}
  Callers = {c1, c2}
  Servers = {s1, s2}
  PoolCalls = {c1, c2, c3}
  MaxFaults <- Faults
  ChainEvents <- SomeEvents
  ChainAgents = {1, 2}
  BlockChunk = 3
  MaxResults = 1
  MaxDepth = 2
  StampAttempts = 2
  StampFaults = {}
  MaxBlock = 4
  Sources = {"kraken", "kraken-futures"}
  PageSize = 2
  TornLines = FALSE
  MaxPrints = 4
  MaxMinute = 4
  Intents <- SomeIntents
  PairCandles <- TwoPairs
  FeePct = 1
  DustThreshold = 1
  MaxIntents = 4
  CandleLimits = {1, 3}
  CandleEnds = {4}
  MaxTime = 6
  Periods = {1, 2, 3}
  FetchCap = 8
  MaxCandles = 9
  ServiceOf <- FourAlerts
  Complex = {"m2"}
  AlertLimit = 1
  Asked = {1}
  MaxSets = 3
  MaxTurns = 2
  MaxRuns = 3
  ExecLimits = {1}
  TornMetadata = FALSE
  MaxSessions = 1
  MaxStructs = 2
  MaxContainers = 3
  MaxExecs = 2
  MessageSize = 2
  MaxPieces = 4
  MaxMessages = 4
  MaxFlushes = 2
  AgentOf <- TwoAgents
  PoolSize = 4
  MaxLeaks = 2
  ServerOf <- TwoServers
  Posts = {"p1"}
  EarlyCalls = TRUE
  BumpMaxRetries = 2
  MaxGateAttempts = 2
  MaxFee = 1
  Quotes = {1, 2}
  AgentCash = 4
  DrawdownPct = 25
  MaxQty = 2
  MaxTrades = 3
  MaxBeats = 2
  FailureThreshold = 2
  Cooldown = 2
  MaxClock = 6
  MaxAsks = 6
SYMMETRY Symmetry
INVARIANTS
  
  WealthIsMeasured
  
  AlertsAreTold
  
  OutputIsKept
  
  TradesAreApprovedOnce
CHECK_DEADLOCK FALSE
