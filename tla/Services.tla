------------------------------ MODULE Services ------------------------------
(***************************************************************************)
(* The services around the trading server.  They share no state, so a      *)
(* behaviour is one of one of them: `part` says of which, and the          *)
(* variables of the others stay at Unused.                                 *)
(***************************************************************************)
EXTENDS Integers, Sequences, FiniteSets

CONSTANTS
  Parts,                 \* the services that are looked at
  Callers, Servers,      \* processes and calls
  PoolCalls,             \* calls that share the sandbox and the connection pool
  MaxFaults,             \* [Parts -> Nat]: errors and crashes of each service
  \* ChainSync
  ChainEvents, ChainAgents, BlockChunk, MaxResults, MaxDepth, StampAttempts, StampFaults, MaxBlock,
  \* PriceSync
  Sources, PageSize, TornLines, MaxPrints, MaxMinute,
  \* Profits
  Intents, PairCandles, FeePct, DustThreshold, MaxIntents,
  \* CandleCache and Indicators
  CandleLimits, CandleEnds, MaxTime, Periods, FetchCap, MaxCandles,
  \* AgentAlerts
  ServiceOf, Complex, AlertLimit, Asked, MaxSets, MaxTurns,
  \* Sandbox and AnalyticSandbox
  MaxRuns, ExecLimits, TornMetadata, MaxSessions, MaxStructs, MaxContainers, MaxExecs,
  \* TelegramOutput
  MessageSize, MaxPieces, MaxMessages, MaxFlushes,
  \* ConnPool
  AgentOf, PoolSize, MaxLeaks,
  \* ChainClient
  ServerOf, Posts, EarlyCalls, BumpMaxRetries, MaxGateAttempts, MaxFee,
  \* Drawdown
  Quotes, AgentCash, DrawdownPct, MaxQty, MaxTrades, MaxBeats,
  \* Prism
  FailureThreshold, Cooldown, MaxClock, MaxAsks

VARIABLES
  part,
  chain, disk, sync,                       \* ChainSync
  market, store, job,                      \* PriceSync
  calc,                                    \* Profits
  now, cache, calls,                       \* CandleCache
  request, answer,                         \* Indicators
  rows, holds, tools, polls, tally,        \* AgentAlerts
  docker, reg, creating, call,             \* Sandbox
  out, chat, hand, record,                 \* TelegramOutput
  pc, leaked,                              \* ConnPool
  eth, txMu, agentLock, trades,            \* ChainClient
  engine, sessions, aliases, structs, volume, serving, book,  \* AnalyticSandbox
  acct, price, lock, trade, beat, seen,    \* Drawdown
  clock, breaker, asks, past               \* Prism

-----------------------------------------------------------------------------
Sync == INSTANCE ChainSync WITH
  Events <- ChainEvents, Agents <- ChainAgents, ChunkSize <- BlockChunk, MaxAttempts <- StampAttempts,
  MaxFaults <- MaxFaults["sync"]

Prices == INSTANCE PriceSync WITH
  TornWrites <- TornLines, MaxTrades <- MaxPrints, MaxFaults <- MaxFaults["prices"]

Profit == INSTANCE Profits WITH Candles <- PairCandles

Cached == INSTANCE CandleCache WITH Calls <- Callers, Limits <- CandleLimits, Ends <- CandleEnds

Columns == INSTANCE Indicators WITH Limits <- CandleLimits

Alerts == INSTANCE AgentAlerts WITH Calls <- Callers, Limit <- AlertLimit

Boxes == INSTANCE Sandbox WITH Calls <- PoolCalls, MaxFaults <- MaxFaults["sandbox"]

Telegram == INSTANCE TelegramOutput WITH
  Flushers <- Callers, ChunkSize <- MessageSize, MaxFaults <- MaxFaults["telegram"]

Pool == INSTANCE ConnPool WITH Calls <- PoolCalls

Txs == INSTANCE ChainClient WITH
  chain <- eth, call <- trades, MaxFaults <- MaxFaults["transactions"]

Analytic == INSTANCE AnalyticSandbox WITH
  docker <- engine, disk <- volume, request <- serving,
  Requests <- Callers, Limits <- ExecLimits, TornWrites <- TornMetadata, MaxFaults <- MaxFaults["analytic"]

Peak == INSTANCE Drawdown WITH InitialCash <- AgentCash, MaxFaults <- MaxFaults["drawdown"]

Breaker == INSTANCE Prism WITH Asks <- Callers

ASSUME ServicesAssumption ==
  /\ Sync!ChainSyncAssumption /\ Prices!PriceSyncAssumption /\ Profit!ProfitsAssumption
  /\ Cached!CandleCacheAssumption /\ Columns!IndicatorsAssumption /\ Alerts!AgentAlertsAssumption
  /\ Boxes!SandboxAssumption /\ Telegram!TelegramOutputAssumption /\ Pool!ConnPoolAssumption
  /\ Txs!ChainClientAssumption /\ Analytic!AnalyticSandboxAssumption /\ Peak!DrawdownAssumption /\ Breaker!PrismAssumption

-----------------------------------------------------------------------------
Unused == "unused"
NotSync == chain = Unused /\ disk = Unused /\ sync = Unused
NotPrices == market = Unused /\ store = Unused /\ job = Unused
NotProfit == calc = Unused
NotCached == now = Unused /\ cache = Unused /\ calls = Unused
NotColumns == request = Unused /\ answer = Unused
NotAlerts == rows = Unused /\ holds = Unused /\ tools = Unused /\ polls = Unused /\ tally = Unused
NotBoxes == docker = Unused /\ reg = Unused /\ creating = Unused /\ call = Unused
NotTelegram == out = Unused /\ chat = Unused /\ hand = Unused /\ record = Unused
NotPool == pc = Unused /\ leaked = Unused
NotTxs == eth = Unused /\ txMu = Unused /\ agentLock = Unused /\ trades = Unused
NotAnalytic ==
  /\ engine = Unused /\ sessions = Unused /\ aliases = Unused /\ structs = Unused
  /\ volume = Unused /\ serving = Unused /\ book = Unused
NotPeak == acct = Unused /\ price = Unused /\ lock = Unused /\ trade = Unused /\ beat = Unused /\ seen = Unused
NotBreaker == clock = Unused /\ breaker = Unused /\ asks = Unused /\ past = Unused

Init ==
  /\ part \in Parts
  /\ IF part = "sync" THEN Sync!Init ELSE NotSync
  /\ IF part = "prices" THEN Prices!Init ELSE NotPrices
  /\ IF part = "profits" THEN Profit!Init ELSE NotProfit
  /\ IF part = "candles" THEN Cached!Init ELSE NotCached
  /\ IF part = "indicators" THEN Columns!Init ELSE NotColumns
  /\ IF part = "alerts" THEN Alerts!Init ELSE NotAlerts
  /\ IF part = "sandbox" THEN Boxes!Init ELSE NotBoxes
  /\ IF part = "telegram" THEN Telegram!Init ELSE NotTelegram
  /\ IF part = "pool" THEN Pool!Init ELSE NotPool
  /\ IF part = "transactions" THEN Txs!Init ELSE NotTxs
  /\ IF part = "analytic" THEN Analytic!Init ELSE NotAnalytic
  /\ IF part = "drawdown" THEN Peak!Init ELSE NotPeak
  /\ IF part = "prism" THEN Breaker!Init ELSE NotBreaker

SyncVars == <<chain, disk, sync>>
PricesVars == <<market, store, job>>
CachedVars == <<now, cache, calls>>
ColumnsVars == <<request, answer>>
AlertsVars == <<rows, holds, tools, polls, tally>>
BoxesVars == <<docker, reg, creating, call>>
TelegramVars == <<out, chat, hand, record>>
PoolVars == <<pc, leaked>>
TxsVars == <<eth, txMu, agentLock, trades>>
AnalyticVars == <<engine, sessions, aliases, structs, volume, serving, book>>
PeakVars == <<acct, price, lock, trade, beat, seen>>
BreakerVars == <<clock, breaker, asks, past>>

\* One step of the service that `part` names.
Next ==
  \/ part = "sync" /\ Sync!Next
     /\ UNCHANGED <<part, PricesVars, calc, CachedVars, ColumnsVars, AlertsVars, BoxesVars, TelegramVars, PoolVars, TxsVars, AnalyticVars, PeakVars, BreakerVars>>
  \/ part = "prices" /\ Prices!Next
     /\ UNCHANGED <<part, SyncVars, calc, CachedVars, ColumnsVars, AlertsVars, BoxesVars, TelegramVars, PoolVars, TxsVars, AnalyticVars, PeakVars, BreakerVars>>
  \/ part = "profits" /\ Profit!Next
     /\ UNCHANGED <<part, SyncVars, PricesVars, CachedVars, ColumnsVars, AlertsVars, BoxesVars, TelegramVars, PoolVars, TxsVars, AnalyticVars, PeakVars, BreakerVars>>
  \/ part = "candles" /\ Cached!Next
     /\ UNCHANGED <<part, SyncVars, PricesVars, calc, ColumnsVars, AlertsVars, BoxesVars, TelegramVars, PoolVars, TxsVars, AnalyticVars, PeakVars, BreakerVars>>
  \/ part = "indicators" /\ Columns!Next
     /\ UNCHANGED <<part, SyncVars, PricesVars, calc, CachedVars, AlertsVars, BoxesVars, TelegramVars, PoolVars, TxsVars, AnalyticVars, PeakVars, BreakerVars>>
  \/ part = "alerts" /\ Alerts!Next
     /\ UNCHANGED <<part, SyncVars, PricesVars, calc, CachedVars, ColumnsVars, BoxesVars, TelegramVars, PoolVars, TxsVars, AnalyticVars, PeakVars, BreakerVars>>
  \/ part = "sandbox" /\ Boxes!Next
     /\ UNCHANGED <<part, SyncVars, PricesVars, calc, CachedVars, ColumnsVars, AlertsVars, TelegramVars, PoolVars, TxsVars, AnalyticVars, PeakVars, BreakerVars>>
  \/ part = "telegram" /\ Telegram!Next
     /\ UNCHANGED <<part, SyncVars, PricesVars, calc, CachedVars, ColumnsVars, AlertsVars, BoxesVars, PoolVars, TxsVars, AnalyticVars, PeakVars, BreakerVars>>
  \/ part = "pool" /\ Pool!Next
     /\ UNCHANGED <<part, SyncVars, PricesVars, calc, CachedVars, ColumnsVars, AlertsVars, BoxesVars, TelegramVars, TxsVars, AnalyticVars, PeakVars, BreakerVars>>
  \/ part = "transactions" /\ Txs!Next
     /\ UNCHANGED <<part, SyncVars, PricesVars, calc, CachedVars, ColumnsVars, AlertsVars, BoxesVars, TelegramVars, PoolVars, AnalyticVars, PeakVars, BreakerVars>>
  \/ part = "analytic" /\ Analytic!Next
     /\ UNCHANGED <<part, SyncVars, PricesVars, calc, CachedVars, ColumnsVars, AlertsVars, BoxesVars, TelegramVars, PoolVars, TxsVars, PeakVars, BreakerVars>>
  \/ part = "drawdown" /\ Peak!Next
     /\ UNCHANGED <<part, SyncVars, PricesVars, calc, CachedVars, ColumnsVars, AlertsVars, BoxesVars, TelegramVars, PoolVars, TxsVars, AnalyticVars, BreakerVars>>
  \/ part = "prism" /\ Breaker!Next
     /\ UNCHANGED <<part, SyncVars, PricesVars, calc, CachedVars, ColumnsVars, AlertsVars, BoxesVars, TelegramVars, PoolVars, TxsVars, AnalyticVars, PeakVars>>

vars == <<part, SyncVars, PricesVars, calc, CachedVars, ColumnsVars, AlertsVars, BoxesVars, TelegramVars, PoolVars, TxsVars, AnalyticVars, PeakVars, BreakerVars>>

Spec == Init /\ [][Next]_vars

-----------------------------------------------------------------------------
(* Properties. *)

\* The files of the chain's events hold what meta.json says they cover, once and in order, and
\* every covered block has its timestamp or is still asked for, whatever crashes and failures
\* (agentintel/sync.go, store.go); every minute of a trade before the saved cursor has a candle
\* (agentintel/market.go).
DownloadsAreComplete ==
  /\ part = "sync" => Sync!FilesMatchChain /\ Sync!EventBlocksAreStamped
  /\ part = "prices" => Prices!MinutesArePriced

\* What calculateAgent reports as profit is the change of wealth, and a pair's lots agree in
\* sign (agentintel/pnl.go, fifo.go); the peak an agent's drawdown is measured from never falls
\* behind what an order or a heartbeat found (trade/heartbeat, FinalizeTrade).
WealthIsMeasured ==
  /\ part = "profits" => Profit!ProfitIsChangeOfWealth /\ Profit!LotsAgree
  /\ part = "drawdown" => Peak!HighestIsKept

\* get_candles answers with fresh candles, each once and in order, whatever is cached meanwhile
\* (mcps/marketdata/cache.go), in every returned row each indicator has a value that is computed
\* from candles it has (indicators.go), and the breaker before PRISM refuses a call only after a
\* row of failures and then for its cooldown (marketdata/prism/client.go).
MarketAnswersAreRight ==
  /\ part = "candles" => Cached!LiveAnswersAreFresh
  /\ part = "indicators" => Columns!RowsAreWarm
  /\ part = "prism" => Breaker!BreakerJudgesByOutcomes

\* No firing of an alert is lost between pollers and readers, a one-shot alert fires once
\* (mcps/marketdata, mcps/news, reminders).
AlertsAreTold == part = "alerts" => Alerts!FiringsAreTold

\* No code/execute call waits for a container that nobody starts (mcps/codesandbox), and a
\* session of the analytic sandbox keeps its limits, container and history through stops,
\* overlapping resumptions and restarts (analytic-sandbox/internal/session).
SandboxesServeCalls ==
  /\ part = "sandbox" => Boxes!NobodyWaitsInVain
  /\ part = "analytic" => /\ Analytic!LimitsSurvive /\ Analytic!ActiveSessionsHaveContainers
                          /\ Analytic!HistoryIsComplete

\* No piece of an agent's output is dropped or reordered on its way to the chat (telegram.go).
OutputIsKept == part = "telegram" => Telegram!NothingIsDropped

\* Calls that hold a per-agent lock never wait in a circle for connections (LockAgent).
PoolKeepsMoving == part = "pool" => Pool!SomebodyCanMove

\* However often an intent is submitted again and its transaction bumped, with other transactions
\* of the same key between them, the RiskRouter approves a trade once and a trade goes on only when
\* it is approved (chain/client.go, risk_router.go, withTechnicalRetry).
TradesAreApprovedOnce ==
  part = "transactions" => Txs!ApprovedOnce /\ Txs!OneMinedPerSend
=============================================================================
