------------------------ MODULE RepositoriesProofs ------------------------
(***************************************************************************)
(* The tests' repository answers as the servers' does: for callers that    *)
(* keep to what the service does, any sequence of calls, and any agents,   *)
(* pairs, fills, hashes, alerts and groups, both store the same tables and *)
(* answer alike.                                                           *)
(***************************************************************************)
EXTENDS Repositories, WellFoundedInduction, TLAPS

-----------------------------------------------------------------------------
(* What the two store. *)

AgentRow == [known : BOOLEAN, cash : Int, initial : Int, peak : Int, fills : Nat, rejects : Nat, halted : BOOLEAN]
EvidenceOf == [att : {None, "pending", "success"}, chained : BOOLEAN]
TradeRow == [agent : Agents, pair : Pairs, time : Nat, side : {"buy", "sell"}, qty : Nat, pnl : Int, after : Int,
             status : {"pending", "reject", "fill"}, fill : Fills \cup {None}, hash : Hashes \cup {None},
             evidence : EvidenceOf]
AlertRow == [agent : Agents, service : {"trading", "time"}, status : {"active", "exhausted", "cancelled", "failed"},
             pair : Pairs, max : Nat, count : Nat, group : Groups, due : BOOLEAN, expired : BOOLEAN, told : BOOLEAN,
             price : BOOLEAN]
Trace == [hash : Hashes, agent : Agents]
DealType == [side : {"buy", "sell"}, qty : Nat, delta : Int, pnl : Int, after : Int]

AgentTable == [Agents -> AgentRow]
TradeTable == Seq(TradeRow)
AlertTable == [Alerts -> AlertRow \cup {NoAlert}]

PgxType == [agents : AgentTable, trades : TradeTable, alerts : AlertTable, traces : Seq(Trace)]
MemType == [agents : AgentTable, trades : TradeTable, alerts : AlertTable,
            traces : [Hashes -> Agents \cup {None}], latest : [Agents -> Hashes \cup {None}]]

(* Rows are in the order of their time, and a fill is in one of them. *)
InTimeOrder(trades) == \A i, j \in 1..Len(trades) : i < j => trades[i].time <= trades[j].time
FillsOnce(trades) == \A i, j \in 1..Len(trades) : trades[i].fill # None /\ trades[i].fill = trades[j].fill => i = j

(* The map and the pointers of one are the table of the other. *)
SameTraces(traces, owner, latest) ==
  /\ \A k \in 1..Len(traces) : owner[traces[k].hash] = traces[k].agent
  /\ \A h \in Hashes : owner[h] # None => \E k \in 1..Len(traces) : traces[k].hash = h
  /\ \A a \in Agents :
       IF latest[a] = None THEN \A k \in 1..Len(traces) : traces[k].agent # a
       ELSE \E k \in 1..Len(traces) : /\ traces[k].agent = a /\ traces[k].hash = latest[a]
                                      /\ \A j \in 1..Len(traces) : traces[j].agent = a => j <= k

(* No alert expires, and one that never fired has no notice unless it failed. *)
Calm(alerts) ==
  \A x \in Alerts : alerts[x] # NoAlert =>
    ~ alerts[x].expired /\ (alerts[x].told /\ alerts[x].count = 0 => alerts[x].status = "failed")

Agree(p, m) ==
  /\ p \in PgxType /\ m \in MemType
  /\ p.agents = m.agents /\ p.trades = m.trades /\ p.alerts = m.alerts
  /\ InTimeOrder(m.trades) /\ FillsOnce(m.trades) /\ Calm(m.alerts)
  /\ SameTraces(p.traces, m.traces, m.latest)

-----------------------------------------------------------------------------
(* One table changes, in the same way. *)

LEMMA AgentsChange ==
  ASSUME NEW p, NEW m, Agree(p, m), NEW t \in AgentTable
  PROVE  Agree([p EXCEPT !.agents = t], [m EXCEPT !.agents = t])
BY DEF Agree, PgxType, MemType

LEMMA TradesChange ==
  ASSUME NEW p, NEW m, Agree(p, m), NEW t \in TradeTable, InTimeOrder(t), FillsOnce(t)
  PROVE  Agree([p EXCEPT !.trades = t], [m EXCEPT !.trades = t])
BY DEF Agree, PgxType, MemType

LEMMA AlertsChange ==
  ASSUME NEW p, NEW m, Agree(p, m), NEW t \in AlertTable, Calm(t)
  PROVE  Agree([p EXCEPT !.alerts = t], [m EXCEPT !.alerts = t])
BY DEF Agree, PgxType, MemType

LEMMA TracesChange ==
  ASSUME NEW p, NEW m, Agree(p, m), NEW t \in Seq(Trace), NEW owner \in [Hashes -> Agents \cup {None}],
         NEW latest \in [Agents -> Hashes \cup {None}], SameTraces(t, owner, latest)
  PROVE  Agree([p EXCEPT !.traces = t], [m EXCEPT !.traces = owner, !.latest = latest])
BY DEF Agree, PgxType, MemType

LEMMA SameTables ==
  ASSUME NEW p, NEW m, Agree(p, m)
  PROVE  /\ p.agents = m.agents /\ p.trades = m.trades /\ p.alerts = m.alerts
         /\ m.agents \in AgentTable /\ m.trades \in TradeTable /\ m.alerts \in AlertTable
         /\ InTimeOrder(m.trades) /\ FillsOnce(m.trades) /\ Calm(m.alerts)
         /\ p.traces \in Seq(Trace) /\ m.traces \in [Hashes -> Agents \cup {None}]
         /\ m.latest \in [Agents -> Hashes \cup {None}] /\ SameTraces(p.traces, m.traces, m.latest)
BY DEF Agree, PgxType, MemType

\* What the operations on the two say: they agree on the answer, and a refusal changes nothing.
Refusals == {"error", "not active", "lost"}
Alike(p, m, pdid, mdid) ==
  /\ Agree(pdid.st, mdid.st) /\ pdid.ans = mdid.ans
  /\ pdid.ans \in Refusals => pdid.st = p /\ mdid.st = m

LEMMA DidFields == \A st, ans : Did(st, ans).st = st /\ Did(st, ans).ans = ans
BY DEF Did

-----------------------------------------------------------------------------
(* Agent state. *)

LEMMA AgentTyped == Agent \in AgentRow /\ NoAgent \in AgentRow
<1>1. Agent \in AgentRow
  BY DEF Agent, InitialCash, AgentRow
<1>2. [Agent EXCEPT !.known = FALSE] \in AgentRow
  BY <1>1 DEF AgentRow
<1> QED BY <1>1, <1>2 DEF NoAgent

LEMMA GetOrCreateAlike ==
  ASSUME NEW p, NEW m, Agree(p, m), NEW a \in Agents
  PROVE  Alike(p, m, PgxGetOrCreateAgent(p, a), MemGetOrCreateAgent(m, a))
<1> DEFINE t == [m.agents EXCEPT ![a] = Agent]
<1>1. t \in AgentTable
  BY SameTables, AgentTyped DEF AgentTable
<1>2. p.agents = m.agents
  BY SameTables
<1>3. CASE m.agents[a].known
  BY <1>2, <1>3 DEF PgxGetOrCreateAgent, MemGetOrCreateAgent, Did, Alike, Refusals
<1>4. CASE ~ m.agents[a].known
  <2>1. /\ PgxGetOrCreateAgent(p, a) = Did([p EXCEPT !.agents = t], "ok")
        /\ MemGetOrCreateAgent(m, a) = Did([m EXCEPT !.agents = t], "ok")
    BY <1>2, <1>4 DEF PgxGetOrCreateAgent, MemGetOrCreateAgent
  <2> HIDE DEF t
  <2> QED BY <1>1, <2>1, AgentsChange DEF Did, Alike, Refusals
<1> QED BY <1>3, <1>4

LEMMA SetHaltedAlike ==
  ASSUME NEW p, NEW m, Agree(p, m), NEW a \in Agents, NEW h \in BOOLEAN
  PROVE  Alike(p, m, PgxSetAgentHalted(p, a, h), MemSetAgentHalted(m, a, h))
<1> DEFINE t == [m.agents EXCEPT ![a].halted = h]
<1>2. p.agents = m.agents /\ m.agents \in AgentTable
  BY SameTables
<1>1. t \in AgentTable
  BY <1>2 DEF AgentTable, AgentRow
<1>3. CASE m.agents[a].known
  <2>1. /\ PgxSetAgentHalted(p, a, h) = Did([p EXCEPT !.agents = t], "ok")
        /\ MemSetAgentHalted(m, a, h) = Did([m EXCEPT !.agents = t], "ok")
    BY <1>2, <1>3 DEF PgxSetAgentHalted, MemSetAgentHalted
  <2> HIDE DEF t
  <2> QED BY <1>1, <2>1, AgentsChange DEF Did, Alike, Refusals
<1>4. CASE ~ m.agents[a].known
  BY <1>2, <1>4 DEF PgxSetAgentHalted, MemSetAgentHalted, Did, Alike, Refusals
<1> QED BY <1>3, <1>4

\* UpdatePeakValue, for an agent that is known.
LEMMA UpdatePeakAlike ==
  ASSUME NEW p, NEW m, Agree(p, m), NEW a \in Agents, NEW v \in Int, m.agents[a].known
  PROVE  Alike(p, m, PgxUpdatePeakValue(p, a, v), MemUpdatePeakValue(m, a, v))
<1> DEFINE peak == m.agents[a].peak
           t == [m.agents EXCEPT ![a].peak = Upper(peak, v)]
<1>1. p.agents = m.agents /\ m.agents \in AgentTable /\ peak \in Int
  BY SameTables DEF AgentTable, AgentRow
<1>2. t \in AgentTable
  BY <1>1 DEF AgentTable, AgentRow, Upper
<1>3. MemUpdatePeakValue(m, a, v) = Did([m EXCEPT !.agents = t], "ok")
  BY DEF MemUpdatePeakValue
<1>4. PgxUpdatePeakValue(p, a, v) = Did([p EXCEPT !.agents = t], "ok")
  <2>1. CASE peak < v
    <3>1. Upper(peak, v) = v
      BY <1>1, <2>1 DEF Upper
    <3> QED BY <1>1, <2>1, <3>1 DEF PgxUpdatePeakValue
  <2>2. CASE ~ peak < v
    <3>1. Upper(peak, v) = peak
      BY <1>1, <2>2 DEF Upper
    <3>2. t = m.agents
      BY <1>1, <3>1 DEF AgentTable, AgentRow
    <3>3. [p EXCEPT !.agents = t] = p
      BY <1>1, <3>2 DEF Agree, PgxType
    <3> QED BY <1>1, <2>2, <3>3 DEF PgxUpdatePeakValue
  <2> QED BY <2>1, <2>2
<1> HIDE DEF t
<1> QED BY <1>2, <1>3, <1>4, AgentsChange DEF Did, Alike, Refusals

LEMMA MovedTyped ==
  ASSUME NEW g \in AgentRow, NEW d \in DealType, NEW fills \in Nat, NEW rejects \in Nat
  PROVE  Moved(g, d, fills, rejects) \in AgentRow
<1>1. /\ g.cash + d.delta \in Int /\ Upper(g.peak, d.after) \in Int
      /\ g.fills + fills \in Nat /\ g.rejects + rejects \in Nat
  BY DEF AgentRow, DealType, Upper
<1> QED BY <1>1 DEF Moved, AgentRow

-----------------------------------------------------------------------------
(* Trades. *)

GoodTrades(trades) == trades \in TradeTable /\ InTimeOrder(trades) /\ FillsOnce(trades)

LEMMA RowAppended ==
  ASSUME NEW trades, GoodTrades(trades), NEW row \in TradeRow,
         \A i \in 1..Len(trades) : trades[i].time <= row.time,
         row.fill = None \/ \A i \in 1..Len(trades) : trades[i].fill # row.fill
  PROVE  GoodTrades(Append(trades, row))
<1> DEFINE n == Len(trades)
           t == Append(trades, row)
<1>1. /\ trades \in Seq(TradeRow) /\ n \in Nat /\ t \in Seq(TradeRow) /\ Len(t) = n + 1 /\ t[n + 1] = row
      /\ \A i \in 1..n : t[i] = trades[i]
  BY DEF GoodTrades, TradeTable
<1> HIDE DEF t
<1>2. ASSUME NEW i \in 1..(n + 1), NEW j \in 1..(n + 1), i < j PROVE t[i].time <= t[j].time
  <2>1. CASE j = n + 1
    BY <1>1, <1>2, <2>1
  <2>2. CASE j # n + 1
    <3>1. i \in 1..n /\ j \in 1..n
      BY <1>1, <1>2, <2>2
    <3> QED BY <1>1, <1>2, <3>1 DEF GoodTrades, InTimeOrder
  <2> QED BY <2>1, <2>2
<1>3. ASSUME NEW i \in 1..(n + 1), NEW j \in 1..(n + 1), t[i].fill # None, t[i].fill = t[j].fill PROVE i = j
  <2>1. (i = n + 1 \/ i \in 1..n) /\ (j = n + 1 \/ j \in 1..n)
    BY <1>1
  <2> QED BY <1>1, <1>3, <2>1 DEF GoodTrades, FillsOnce
<1> QED BY <1>1, <1>2, <1>3 DEF t, GoodTrades, TradeTable, InTimeOrder, FillsOnce

\* Rows change, but not in their time, nor in their fill but for one that takes a fresh one.
LEMMA RowsChanged ==
  ASSUME NEW trades, GoodTrades(trades), NEW t, t = [j \in DOMAIN trades |-> t[j]], NEW i \in 1..Len(trades),
         \A j \in 1..Len(trades) : t[j] \in TradeRow /\ t[j].time = trades[j].time,
         \A j \in 1..Len(trades) : t[j].fill = trades[j].fill \/ (j = i /\ \A k \in 1..Len(trades) : trades[k].fill # t[i].fill)
  PROVE  GoodTrades(t)
<1> DEFINE n == Len(trades)
<1>1. trades \in Seq(TradeRow) /\ n \in Nat /\ DOMAIN trades = 1..n
  BY DEF GoodTrades, TradeTable
<1>2. t \in Seq(TradeRow) /\ Len(t) = n
  BY <1>1
<1>3. \A j, k \in 1..n : j < k => t[j].time <= t[k].time
  BY DEF GoodTrades, InTimeOrder
<1>4. ASSUME NEW j \in 1..n, NEW k \in 1..n, t[j].fill # None, t[j].fill = t[k].fill PROVE j = k
  BY <1>4 DEF GoodTrades, FillsOnce
<1> QED BY <1>2, <1>3, <1>4 DEF GoodTrades, TradeTable, InTimeOrder, FillsOnce

LEMMA RowReplaced ==
  ASSUME NEW trades, GoodTrades(trades), NEW i \in 1..Len(trades), NEW row \in TradeRow, row.time = trades[i].time,
         row.fill = trades[i].fill \/ \A j \in 1..Len(trades) : trades[j].fill # row.fill
  PROVE  GoodTrades([trades EXCEPT ![i] = row])
<1> DEFINE t == [trades EXCEPT ![i] = row]
<1>1. trades \in Seq(TradeRow) /\ DOMAIN trades = 1..Len(trades)
  BY DEF GoodTrades, TradeTable
<1>2. t = [j \in DOMAIN trades |-> t[j]] /\ t[i] = row /\ \A j \in 1..Len(trades) : j # i => t[j] = trades[j]
  BY <1>1
<1> HIDE DEF t
<1>3. \A j \in 1..Len(trades) :
        /\ t[j] \in TradeRow /\ t[j].time = trades[j].time
        /\ t[j].fill = trades[j].fill \/ (j = i /\ \A k \in 1..Len(trades) : trades[k].fill # t[i].fill)
  BY <1>1, <1>2
<1>4. GoodTrades(t)
  BY <1>2, <1>3, RowsChanged, ZenonT(60)
<1> QED BY <1>4 DEF t

LEMMA InsertTradeAlike ==
  ASSUME NEW p, NEW m, Agree(p, m), NEW row \in TradeRow, row.fill = None,
         \A i \in DOMAIN m.trades : m.trades[i].time <= row.time
  PROVE  Alike(p, m, PgxInsertTrade(p, row), MemInsertTrade(m, row))
<1> DEFINE t == Append(m.trades, row)
<1>1. p.trades = m.trades /\ GoodTrades(m.trades) /\ DOMAIN m.trades = 1..Len(m.trades)
  BY SameTables DEF GoodTrades, TradeTable
<1>2. GoodTrades(t)
  BY <1>1, RowAppended
<1>3. /\ PgxInsertTrade(p, row) = Did([p EXCEPT !.trades = t], "ok")
      /\ MemInsertTrade(m, row) = Did([m EXCEPT !.trades = t], "ok")
  BY <1>1 DEF PgxInsertTrade, MemInsertTrade, FillTaken
<1> HIDE DEF t
<1> QED BY <1>2, <1>3, TradesChange DEF GoodTrades, Did, Alike, Refusals

\* Two tables change at once.
LEMMA AgentsAndTradesChange ==
  ASSUME NEW p, NEW m, Agree(p, m), NEW g \in AgentTable, NEW t, GoodTrades(t)
  PROVE  Agree([p EXCEPT !.agents = g, !.trades = t], [m EXCEPT !.agents = g, !.trades = t])
BY DEF Agree, PgxType, MemType, GoodTrades

LEMMA RecordTradeAlike ==
  ASSUME NEW p, NEW m, Agree(p, m), NEW row \in TradeRow, NEW d \in DealType, NEW fills \in Nat, NEW rejects \in Nat,
         \A i \in DOMAIN m.trades : m.trades[i].time <= row.time,
         \A i \in DOMAIN m.trades : row.fill = None \/ m.trades[i].fill # row.fill
  PROVE  Alike(p, m, PgxRecordTrade(p, row, d, fills, rejects), MemRecordTrade(m, row, d, fills, rejects))
<1> DEFINE g == m.agents[row.agent]
           t == Append(m.trades, row)
           agents == [m.agents EXCEPT ![row.agent] = Moved(g, d, fills, rejects)]
<1>1. /\ p.trades = m.trades /\ p.agents = m.agents /\ GoodTrades(m.trades) /\ DOMAIN m.trades = 1..Len(m.trades)
      /\ m.agents \in AgentTable /\ row.agent \in Agents
  <2>1. row.agent \in Agents
    BY DEF TradeRow
  <2> QED BY <2>1, SameTables DEF GoodTrades, TradeTable
<1>2. GoodTrades(t)
  BY <1>1, RowAppended
<1>3. agents \in AgentTable
  BY <1>1, MovedTyped DEF AgentTable
<1>4. ~ FillTaken(p, row.agent, row.fill, 0)
  BY <1>1 DEF FillTaken
<1>5. CASE ~ g.known \/ g.cash + d.delta < 0
  BY <1>1, <1>4, <1>5 DEF PgxRecordTrade, MemRecordTrade, Did, Alike, Refusals
<1>6. CASE g.known /\ ~ g.cash + d.delta < 0
  <2>1. /\ PgxRecordTrade(p, row, d, fills, rejects) = Did([p EXCEPT !.agents = agents, !.trades = t], "ok")
        /\ MemRecordTrade(m, row, d, fills, rejects) = Did([m EXCEPT !.agents = agents, !.trades = t], "ok")
    BY <1>1, <1>4, <1>6 DEF PgxRecordTrade, MemRecordTrade
  <2> HIDE DEF t, agents
  <2>2. Agree([p EXCEPT !.agents = agents, !.trades = t], [m EXCEPT !.agents = agents, !.trades = t])
    BY <1>2, <1>3, AgentsAndTradesChange
  <2> QED BY <2>1, <2>2 DEF Did, Alike, Refusals
<1> QED BY <1>5, <1>6

LEMMA RejectPendingAlike ==
  ASSUME NEW p, NEW m, Agree(p, m), NEW a \in Agents, NEW i \in DOMAIN m.trades
  PROVE  Alike(p, m, PgxRejectPendingTrade(p, a, i), MemRejectPendingTrade(m, a, i))
<1> DEFINE row == [m.trades[i] EXCEPT !.status = "reject"]
           t == [m.trades EXCEPT ![i] = row]
           g == [m.agents[a] EXCEPT !.rejects = IF m.agents[a].known THEN @ + 1 ELSE @]
           agents == [m.agents EXCEPT ![a] = g]
<1>1. /\ p.trades = m.trades /\ p.agents = m.agents /\ GoodTrades(m.trades) /\ DOMAIN m.trades = 1..Len(m.trades)
      /\ m.agents \in AgentTable /\ m.agents[a] \in AgentRow /\ m.trades[i] \in TradeRow
  BY SameTables DEF GoodTrades, TradeTable, AgentTable
<1>2. row \in TradeRow /\ row.time = m.trades[i].time /\ row.fill = m.trades[i].fill
  BY <1>1 DEF TradeRow
<1>3. g \in AgentRow
  <2>1. m.agents[a].rejects \in Nat /\ m.agents[a].rejects + 1 \in Nat
    BY <1>1 DEF AgentRow
  <2>2. CASE m.agents[a].known
    BY <1>1, <2>1, <2>2 DEF AgentRow
  <2>3. CASE ~ m.agents[a].known
    BY <1>1, <2>1, <2>3 DEF AgentRow
  <2> QED BY <2>2, <2>3
<1>4. CASE m.trades[i].status # "pending"
  BY <1>1, <1>4 DEF PgxRejectPendingTrade, MemRejectPendingTrade, Did, Alike, Refusals
<1>5. CASE m.trades[i].status = "pending"
  <2>1. /\ PgxRejectPendingTrade(p, a, i) = Did([p EXCEPT !.trades = t, !.agents = agents], "ok")
        /\ MemRejectPendingTrade(m, a, i) = Did([m EXCEPT !.trades = t, !.agents = agents], "ok")
    BY <1>1, <1>5 DEF PgxRejectPendingTrade, MemRejectPendingTrade
  <2> HIDE DEF row, g
  <2>2. GoodTrades(t) /\ agents \in AgentTable
    BY <1>1, <1>2, <1>3, RowReplaced DEF AgentTable
  <2> HIDE DEF t, agents
  <2>3. Agree([p EXCEPT !.trades = t, !.agents = agents], [m EXCEPT !.trades = t, !.agents = agents])
    BY <2>2 DEF Agree, PgxType, MemType, GoodTrades
  <2> QED BY <2>1, <2>3 DEF Did, Alike, Refusals
<1> QED BY <1>4, <1>5

LEMMA UpdateEvidenceAlike ==
  ASSUME NEW p, NEW m, Agree(p, m), NEW i \in DOMAIN m.trades, NEW att \in {"pending", "success"}
  PROVE  Alike(p, m, PgxUpdateEvidence(p, i, att), MemUpdateEvidence(m, i, att))
<1> DEFINE e == [m.trades[i].evidence EXCEPT !.att = att]
           row == [m.trades[i] EXCEPT !.evidence = e]
           t == [m.trades EXCEPT ![i] = row]
<1>1. /\ p.trades = m.trades /\ GoodTrades(m.trades) /\ DOMAIN m.trades = 1..Len(m.trades)
      /\ m.trades[i] \in TradeRow
  BY SameTables DEF GoodTrades, TradeTable
<1>2. m.trades[i].evidence \in EvidenceOf /\ e \in EvidenceOf
  BY <1>1 DEF TradeRow, EvidenceOf
<1>3. /\ PgxUpdateEvidence(p, i, att) = Did([p EXCEPT !.trades = t], "ok")
      /\ MemUpdateEvidence(m, i, att) = Did([m EXCEPT !.trades = t], "ok")
  BY <1>1 DEF PgxUpdateEvidence, MemUpdateEvidence
<1> HIDE DEF e
<1>4. row \in TradeRow /\ row.time = m.trades[i].time /\ row.fill = m.trades[i].fill
  BY <1>1, <1>2 DEF TradeRow
<1> HIDE DEF row
<1>5. GoodTrades(t)
  BY <1>1, <1>4, RowReplaced
<1> HIDE DEF t
<1> QED BY <1>3, <1>5, TradesChange DEF GoodTrades, Did, Alike, Refusals

-----------------------------------------------------------------------------
(* Traces, and the hashes of rows. *)

LEMMA TraceAppended ==
  ASSUME NEW traces \in Seq(Trace), NEW owner \in [Hashes -> Agents \cup {None}], NEW latest \in [Agents -> Hashes \cup {None}],
         SameTraces(traces, owner, latest), None \notin Hashes \cup Agents,
         NEW h \in Hashes, NEW a \in Agents, owner[h] = None
  PROVE  LET t == Append(traces, [hash |-> h, agent |-> a]) IN
         t \in Seq(Trace) /\ SameTraces(t, [owner EXCEPT ![h] = a], [latest EXCEPT ![a] = h])
<1> DEFINE n == Len(traces)
           new == [hash |-> h, agent |-> a]
           t == Append(traces, new)
           owners == [owner EXCEPT ![h] = a]
           newest == [latest EXCEPT ![a] = h]
<1>1. new \in Trace /\ new.hash = h /\ new.agent = a
  BY DEF Trace
<1> HIDE DEF new
<1>2. /\ n \in Nat /\ t \in Seq(Trace) /\ Len(t) = n + 1 /\ t[n + 1] = new
      /\ \A k \in 1..n : t[k] = traces[k] /\ traces[k].hash \in Hashes /\ traces[k].agent \in Agents
  <2>1. \A k \in 1..n : traces[k] \in Trace
    OBVIOUS
  <2>2. \A e \in Trace : e.hash \in Hashes /\ e.agent \in Agents
    BY DEF Trace
  <2> QED BY <1>1, <2>1, <2>2
<1>3. /\ owners[h] = a /\ \A g \in Hashes \ {h} : owners[g] = owner[g]
      /\ newest[a] = h /\ \A b \in Agents \ {a} : newest[b] = latest[b]
  OBVIOUS
<1> HIDE DEF t, owners, newest
<1>4. \A k \in 1..n : owner[traces[k].hash] = traces[k].agent /\ traces[k].hash # h
  BY <1>2 DEF SameTraces
<1>5. ASSUME NEW k \in 1..(n + 1) PROVE owners[t[k].hash] = t[k].agent
  <2>1. CASE k = n + 1
    BY <1>1, <1>2, <1>3, <2>1
  <2>2. CASE k # n + 1
    BY <1>2, <1>3, <1>4, <2>2
  <2> QED BY <2>1, <2>2
<1>6. ASSUME NEW g \in Hashes, owners[g] # None PROVE \E k \in 1..(n + 1) : t[k].hash = g
  <2>1. CASE g = h
    BY <1>1, <1>2, <2>1
  <2>2. CASE g # h
    <3>1. PICK k \in 1..n : traces[k].hash = g
      BY <1>3, <1>6, <2>2 DEF SameTraces
    <3> QED BY <1>2, <3>1
  <2> QED BY <2>1, <2>2
<1>7. ASSUME NEW b \in Agents
      PROVE  IF newest[b] = None THEN \A k \in 1..(n + 1) : t[k].agent # b
             ELSE \E k \in 1..(n + 1) : /\ t[k].agent = b /\ t[k].hash = newest[b]
                                        /\ \A j \in 1..(n + 1) : t[j].agent = b => j <= k
  <2>1. CASE b = a
    BY <1>1, <1>2, <1>3, <2>1
  <2>2. CASE b # a
    <3>1. newest[b] = latest[b] /\ t[n + 1].agent # b
      BY <1>1, <1>2, <1>3, <2>2
    <3>2. CASE latest[b] = None
      BY <1>2, <3>1, <3>2 DEF SameTraces
    <3>3. CASE latest[b] # None
      <4>1. PICK k \in 1..n : /\ traces[k].agent = b /\ traces[k].hash = latest[b]
                              /\ \A j \in 1..n : traces[j].agent = b => j <= k
        BY <3>3 DEF SameTraces
      <4>2. ASSUME NEW j \in 1..(n + 1), t[j].agent = b PROVE j <= k
        <5>1. j \in 1..n
          BY <1>2, <3>1, <4>2, SMTT(60)
        <5>2. traces[j].agent = b
          BY <1>2, <4>2, <5>1
        <5> QED BY <4>1, <5>1, <5>2
      <4> QED BY <1>2, <3>1, <3>3, <4>1, <4>2
    <3> QED BY <3>2, <3>3
  <2> QED BY <2>1, <2>2
<1> QED BY <1>2, <1>5, <1>6, <1>7, SMTT(60) DEF SameTraces, t, owners, newest, new

LEMMA TraceKnown ==
  ASSUME NEW traces \in Seq(Trace), NEW owner, NEW latest, SameTraces(traces, owner, latest), None \notin Agents, NEW h \in Hashes
  PROVE  (\E k \in DOMAIN traces : traces[k].hash = h) <=> owner[h] # None
<1>1. DOMAIN traces = 1..Len(traces) /\ \A k \in 1..Len(traces) : traces[k].agent \in Agents
  <2>1. DOMAIN traces = 1..Len(traces) /\ \A k \in 1..Len(traces) : traces[k] \in Trace
    OBVIOUS
  <2> QED BY <2>1 DEF Trace
<1> QED BY <1>1 DEF SameTraces

LEMMA InsertTraceAlike ==
  ASSUME NEW p, NEW m, Agree(p, m), RepositoriesAssumption, NEW a \in Agents, NEW h \in Hashes
  PROVE  Alike(p, m, PgxInsertTrace(p, a, h), MemInsertTrace(m, a, h))
<1> DEFINE t == Append(p.traces, [hash |-> h, agent |-> a])
           owners == [m.traces EXCEPT ![h] = a]
           newest == [m.latest EXCEPT ![a] = h]
<1>1. /\ p.traces \in Seq(Trace) /\ m.traces \in [Hashes -> Agents \cup {None}]
      /\ m.latest \in [Agents -> Hashes \cup {None}] /\ SameTraces(p.traces, m.traces, m.latest)
      /\ None \notin Hashes \cup Agents
  BY SameTables DEF RepositoriesAssumption
<1>2. (\E k \in DOMAIN p.traces : p.traces[k].hash = h) <=> m.traces[h] # None
  BY <1>1, TraceKnown
<1>3. CASE m.traces[h] # None
  BY <1>2, <1>3 DEF PgxInsertTrace, MemInsertTrace, Did, Alike, Refusals
<1>4. CASE m.traces[h] = None
  <2>1. /\ PgxInsertTrace(p, a, h) = Did([p EXCEPT !.traces = t], "ok")
        /\ MemInsertTrace(m, a, h) = Did([m EXCEPT !.traces = owners, !.latest = newest], "ok")
    BY <1>2, <1>4 DEF PgxInsertTrace, MemInsertTrace
  <2>2. t \in Seq(Trace) /\ SameTraces(t, owners, newest)
    BY <1>1, <1>4, TraceAppended
  <2>3. owners \in [Hashes -> Agents \cup {None}] /\ newest \in [Agents -> Hashes \cup {None}]
    BY <1>1
  <2> HIDE DEF t, owners, newest
  <2>4. Agree([p EXCEPT !.traces = t], [m EXCEPT !.traces = owners, !.latest = newest])
    BY <2>2, <2>3, TracesChange
  <2> QED BY <2>1, <2>4 DEF Did, Alike, Refusals
<1> QED BY <1>3, <1>4

\* UpdateTradeHash: a fill is in one row at most, so every row of it is the first.
LEMMA UpdateTradeHashAlike ==
  ASSUME NEW p, NEW m, Agree(p, m), RepositoriesAssumption, NEW f \in Fills, NEW h \in Hashes
  PROVE  Alike(p, m, PgxUpdateTradeHash(p, f, h), MemUpdateTradeHash(m, f, h))
<1> DEFINE hit == Unhashed(m, f)
           first == CHOOSE i \in hit : \A j \in hit : i <= j
           t == [i \in DOMAIN m.trades |-> IF i \in hit THEN [m.trades[i] EXCEPT !.hash = h] ELSE m.trades[i]]
<1>1. /\ p.trades = m.trades /\ GoodTrades(m.trades) /\ DOMAIN m.trades = 1..Len(m.trades)
      /\ \A i \in 1..Len(m.trades) : m.trades[i] \in TradeRow
  BY SameTables DEF GoodTrades, TradeTable
<1>2. Unhashed(p, f) = hit /\ hit \subseteq 1..Len(m.trades)
  BY <1>1 DEF Unhashed
<1>3. \A i \in hit : hit = {i}
  BY <1>1 DEF Unhashed, GoodTrades, FillsOnce, RepositoriesAssumption
<1> HIDE DEF hit
<1>4. PgxUpdateTradeHash(p, f, h) = Did([p EXCEPT !.trades = t], "ok")
  BY <1>1, <1>2 DEF PgxUpdateTradeHash
<1>5. MemUpdateTradeHash(m, f, h) = Did([m EXCEPT !.trades = t], "ok")
  <2>1. CASE hit = {}
    <3>1. t = m.trades
      BY <1>1, <2>1, SMTT(60) DEF GoodTrades, TradeTable
    <3>2. [m EXCEPT !.trades = t] = m
      BY <3>1 DEF Agree, MemType
    <3> QED BY <2>1, <3>2 DEF MemUpdateTradeHash, hit
  <2>2. CASE hit # {}
    <3>1. PICK i \in 1..Len(m.trades) : hit = {i}
      BY <1>2, <1>3, <2>2
    <3>2. first = i
      BY <3>1
    <3>3. t = [m.trades EXCEPT ![i] = [m.trades[i] EXCEPT !.hash = h]]
      BY <1>1, <3>1
    <3>4. MemUpdateTradeHash(m, f, h) = Did([m EXCEPT !.trades[first].hash = h], "ok")
      BY <2>2 DEF MemUpdateTradeHash, hit
    <3> QED BY <3>2, <3>3, <3>4
  <2> QED BY <2>1, <2>2
<1>6. GoodTrades(t)
  <2>1. ASSUME NEW i \in 1..Len(m.trades)
        PROVE  t[i] \in TradeRow /\ t[i].time = m.trades[i].time /\ t[i].fill = m.trades[i].fill
    <3>1. m.trades[i] \in TradeRow
      BY <1>1
    <3>2. [m.trades[i] EXCEPT !.hash = h] \in TradeRow
      BY <3>1 DEF TradeRow
    <3>3. t[i] \in TradeRow
      BY <1>1, <3>1, <3>2
    <3> QED BY <1>1, <3>1, <3>3 DEF TradeRow
  <2>2. t = [i \in DOMAIN m.trades |-> t[i]]
    OBVIOUS
  <2> HIDE DEF t
  <2>3. CASE Len(m.trades) = 0
    <3>1. t \in TradeTable /\ Len(t) = 0
      BY <1>1, <2>2, <2>3 DEF TradeTable
    <3> QED BY <3>1 DEF GoodTrades, InTimeOrder, FillsOnce
  <2>4. CASE Len(m.trades) # 0
    <3>1. 1 \in 1..Len(m.trades)
      BY <1>1, <2>4 DEF GoodTrades, TradeTable
    <3>2. /\ \A j \in 1..Len(m.trades) : t[j] \in TradeRow /\ t[j].time = m.trades[j].time
          /\ \A j \in 1..Len(m.trades) :
               t[j].fill = m.trades[j].fill \/ (j = 1 /\ \A k \in 1..Len(m.trades) : m.trades[k].fill # t[1].fill)
      BY <2>1
    <3> QED BY <1>1, <2>2, <3>1, <3>2, RowsChanged
  <2> QED BY <2>3, <2>4
<1> HIDE DEF t
<1> QED BY <1>4, <1>5, <1>6, TradesChange DEF GoodTrades, Did, Alike, Refusals

LEMMA FilledTyped ==
  ASSUME NEW row \in TradeRow, NEW d \in DealType, NEW f \in Fills, NEW h \in Hashes \cup {None}
  PROVE  LET new == Filled(row, d, f, h) IN new \in TradeRow /\ new.time = row.time /\ new.fill = f
<1> DEFINE e == [row.evidence EXCEPT !.chained = @ \/ h # None]
           hash == IF h = None THEN row.hash ELSE h
           new == [row EXCEPT !.status = "fill", !.qty = d.qty, !.pnl = d.pnl, !.after = d.after, !.fill = f,
                              !.hash = hash, !.evidence = e]
<1>1. Filled(row, d, f, h) = new
  BY DEF Filled
<1>2. row.evidence \in EvidenceOf /\ hash \in Hashes \cup {None}
  BY DEF TradeRow
<1>3. e \in EvidenceOf
  BY <1>2 DEF EvidenceOf
<1> HIDE DEF e, hash
<1>4. d.qty \in Nat /\ d.pnl \in Int /\ d.after \in Int
  BY DEF DealType
<1>5. new \in TradeRow /\ new.time = row.time /\ new.fill = f
  BY <1>2, <1>3, <1>4 DEF TradeRow
<1> QED BY <1>1, <1>5

\* FinalizeTrade of a pending row, with a fill and a hash that nothing else has.
LEMMA FinalizeTradeAlike ==
  ASSUME NEW p, NEW m, Agree(p, m), RepositoriesAssumption, NEW i \in DOMAIN m.trades, NEW d \in DealType, NEW f \in Fills,
         NEW h \in Hashes \cup {None}, m.trades[i].status = "pending",
         \A j \in DOMAIN m.trades : m.trades[j].fill # f, h # None => m.traces[h] = None
  PROVE  Alike(p, m, PgxFinalizeTrade(p, m.trades[i].agent, i, d, f, h), MemFinalizeTrade(m, m.trades[i].agent, i, d, f, h))
<1> DEFINE a == m.trades[i].agent
           g == m.agents[a]
           agents == [m.agents EXCEPT ![a] = Moved(g, d, 1, 0)]
           t == [m.trades EXCEPT ![i] = Filled(m.trades[i], d, f, h)]
           traces == Append(p.traces, [hash |-> h, agent |-> a])
           owners == [m.traces EXCEPT ![h] = a]
           newest == [m.latest EXCEPT ![a] = h]
<1>1. /\ p.trades = m.trades /\ p.agents = m.agents /\ GoodTrades(m.trades) /\ DOMAIN m.trades = 1..Len(m.trades)
      /\ m.agents \in AgentTable /\ m.trades[i] \in TradeRow
  BY SameTables DEF GoodTrades, TradeTable
<1>2. a \in Agents /\ g \in AgentRow
  <2>1. a \in Agents
    BY <1>1 DEF TradeRow
  <2> QED BY <1>1, <2>1 DEF AgentTable
<1>3. agents \in AgentTable
  BY <1>1, <1>2, MovedTyped DEF AgentTable
<1>4. GoodTrades(t)
  <2>1. LET new == Filled(m.trades[i], d, f, h) IN new \in TradeRow /\ new.time = m.trades[i].time /\ new.fill = f
    BY <1>1, FilledTyped
  <2> QED BY <1>1, <2>1, RowReplaced
<1>5. /\ p.traces \in Seq(Trace) /\ m.traces \in [Hashes -> Agents \cup {None}]
      /\ m.latest \in [Agents -> Hashes \cup {None}] /\ SameTraces(p.traces, m.traces, m.latest)
      /\ None \notin Hashes \cup Agents \cup Fills
  BY SameTables DEF RepositoriesAssumption
<1>6. ~ FillTaken(p, a, f, i)
  BY <1>1 DEF FillTaken
<1>7. CASE ~ g.known \/ g.cash + d.delta < 0
  BY <1>1, <1>7 DEF PgxFinalizeTrade, MemFinalizeTrade, Did, Alike, Refusals
<1>8. CASE g.known /\ ~ g.cash + d.delta < 0 /\ h = None
  <2>1. PgxFinalizeTrade(p, a, i, d, f, h) = Did([p EXCEPT !.agents = agents, !.trades = t, !.traces = p.traces], "ok")
    BY <1>1, <1>6, <1>8, ZenonT(60) DEF PgxFinalizeTrade
  <2>2. MemFinalizeTrade(m, a, i, d, f, h)
          = Did([m EXCEPT !.agents = agents, !.trades = t, !.traces = m.traces, !.latest = m.latest], "ok")
    BY <1>1, <1>8 DEF MemFinalizeTrade
  <2> HIDE DEF agents, t
  <2>3. Agree([p EXCEPT !.agents = agents, !.trades = t, !.traces = p.traces],
              [m EXCEPT !.agents = agents, !.trades = t, !.traces = m.traces, !.latest = m.latest])
    BY <1>3, <1>4 DEF Agree, PgxType, MemType, GoodTrades
  <2> QED BY <2>1, <2>2, <2>3 DEF Did, Alike, Refusals
<1>9. CASE g.known /\ ~ g.cash + d.delta < 0 /\ h # None
  <2>1. ~ \E k \in DOMAIN p.traces : p.traces[k].hash = h
    BY <1>5, <1>9, TraceKnown
  <2>2. PgxFinalizeTrade(p, a, i, d, f, h) = Did([p EXCEPT !.agents = agents, !.trades = t, !.traces = traces], "ok")
    BY <1>1, <1>6, <1>9, <2>1 DEF PgxFinalizeTrade
  <2>3. MemFinalizeTrade(m, a, i, d, f, h)
          = Did([m EXCEPT !.agents = agents, !.trades = t, !.traces = owners, !.latest = newest], "ok")
    BY <1>1, <1>9 DEF MemFinalizeTrade
  <2>4. traces \in Seq(Trace) /\ SameTraces(traces, owners, newest)
    BY <1>2, <1>5, <1>9, TraceAppended
  <2>5. owners \in [Hashes -> Agents \cup {None}] /\ newest \in [Agents -> Hashes \cup {None}]
    BY <1>2, <1>5, <1>9
  <2> HIDE DEF agents, t, traces, owners, newest
  <2>6. Agree([p EXCEPT !.agents = agents, !.trades = t, !.traces = traces],
              [m EXCEPT !.agents = agents, !.trades = t, !.traces = owners, !.latest = newest])
    BY <1>3, <1>4, <2>4, <2>5 DEF Agree, PgxType, MemType, GoodTrades
  <2> QED BY <2>2, <2>3, <2>6 DEF Did, Alike, Refusals
<1> QED BY <1>7, <1>8, <1>9

-----------------------------------------------------------------------------
(* Alerts. *)

LEMMA AlertKinds ==
  ASSUME NEW alerts \in AlertTable, NEW x \in Alerts
  PROVE  \/ alerts[x] = NoAlert /\ alerts[x].status = None
         \/ alerts[x] \in AlertRow /\ alerts[x] # NoAlert /\ alerts[x].status # None
BY DEF AlertTable, AlertRow, NoAlert, None

\* One alert is replaced.
LEMMA AlertReplaced ==
  ASSUME NEW p, NEW m, Agree(p, m), NEW x \in Alerts, NEW al \in AlertRow, ~ al.expired,
         al.told /\ al.count = 0 => al.status = "failed"
  PROVE  LET t == [m.alerts EXCEPT ![x] = al] IN Agree([p EXCEPT !.alerts = t], [m EXCEPT !.alerts = t])
<1> DEFINE t == [m.alerts EXCEPT ![x] = al]
<1>1. m.alerts \in AlertTable /\ Calm(m.alerts)
  BY SameTables
<1>2. t \in AlertTable /\ Calm(t)
  BY <1>1 DEF AlertTable, Calm
<1> HIDE DEF t
<1>3. Agree([p EXCEPT !.alerts = t], [m EXCEPT !.alerts = t])
  BY <1>2, AlertsChange
<1> QED BY <1>3 DEF t

LEMMA UpsertAlertAlike ==
  ASSUME NEW p, NEW m, Agree(p, m), NEW x \in Alerts, NEW new \in AlertRow,
         new.status = "active" /\ new.count = 0 /\ ~ new.told /\ ~ new.expired,
         m.alerts[x].status # None =>
           m.alerts[x].agent = new.agent /\ m.alerts[x].service = new.service /\ m.alerts[x].count = 0
  PROVE  Alike(p, m, PgxUpsertAlert(p, x, new), MemUpsertAlert(m, x, new))
<1> DEFINE old == m.alerts[x]
           t == [m.alerts EXCEPT ![x] = new]
<1>1. p.alerts = m.alerts /\ m.alerts \in AlertTable /\ Calm(m.alerts)
  BY SameTables
<1>2. Agree([p EXCEPT !.alerts = t], [m EXCEPT !.alerts = t])
  BY AlertReplaced
<1>3. CASE old.status = None
  <2>1. PgxUpsertAlert(p, x, new) = Did([p EXCEPT !.alerts = t], "ok") /\ MemUpsertAlert(m, x, new) = Did([m EXCEPT !.alerts = t], "ok")
    BY <1>1, <1>3 DEF PgxUpsertAlert, MemUpsertAlert
  <2> HIDE DEF t
  <2> QED BY <1>2, <2>1 DEF Did, Alike, Refusals
<1>4. CASE old.status # None /\ old.status # "active"
  BY <1>1, <1>4 DEF PgxUpsertAlert, MemUpsertAlert, Did, Alike, Refusals
<1>5. CASE old.status # None /\ old.status = "active"
  <2>1. old \in AlertRow /\ old # NoAlert
    BY <1>1, <1>5, AlertKinds
  <2>2. ~ old.told
    BY <1>5, <2>1, <1>1 DEF Calm
  <2>3. old.told = new.told
    BY <2>1, <2>2 DEF AlertRow
  <2>4. [new EXCEPT !.agent = old.agent, !.service = old.service, !.count = old.count, !.told = old.told] = new
    BY <1>5, <2>3 DEF AlertRow
  <2>5. PgxUpsertAlert(p, x, new) = Did([p EXCEPT !.alerts = t], "ok") /\ MemUpsertAlert(m, x, new) = Did([m EXCEPT !.alerts = t], "ok")
    BY <1>1, <1>5, <2>4 DEF PgxUpsertAlert, MemUpsertAlert
  <2> HIDE DEF t
  <2> QED BY <1>2, <2>5 DEF Did, Alike, Refusals
<1> QED BY <1>3, <1>4, <1>5

LEMMA MarkTriggeredAlike ==
  ASSUME NEW p, NEW m, Agree(p, m), NEW x \in Alerts, NEW priced \in BOOLEAN
  PROVE  Alike(p, m, PgxMarkAlertTriggered(p, x, priced), MemMarkAlertTriggered(m, x, priced))
<1> DEFINE al == m.alerts[x]
           new == Triggered(al, priced)
           t == [m.alerts EXCEPT ![x] = new]
<1>1. p.alerts = m.alerts /\ m.alerts \in AlertTable /\ Calm(m.alerts)
  BY SameTables
<1>2. CASE al.status # "active"
  BY <1>1, <1>2 DEF PgxMarkAlertTriggered, MemMarkAlertTriggered, Is, Did, Alike, Refusals
<1>3. CASE al.status = "active"
  <2>1. al \in AlertRow /\ ~ al.expired
    BY <1>1, <1>3, AlertKinds DEF None, Calm
  <2>2. new \in AlertRow /\ ~ new.expired /\ new.count # 0
    <3>1. al.count + 1 \in Nat /\ al.count + 1 # 0
      BY <2>1 DEF AlertRow
    <3>2. /\ (IF al.max > 0 /\ al.count + 1 >= al.max THEN "exhausted" ELSE al.status)
                \in {"active", "exhausted", "cancelled", "failed"}
          /\ (al.price \/ priced) \in BOOLEAN
      BY <2>1 DEF AlertRow
    <3> QED BY <2>1, <3>1, <3>2 DEF Triggered, AlertRow
  <2>3. /\ PgxMarkAlertTriggered(p, x, priced) = Did([p EXCEPT !.alerts = t], "claimed")
        /\ MemMarkAlertTriggered(m, x, priced) = Did([m EXCEPT !.alerts = t], "claimed")
    BY <1>1, <1>3 DEF PgxMarkAlertTriggered, MemMarkAlertTriggered, Is
  <2> HIDE DEF new
  <2>4. Agree([p EXCEPT !.alerts = t], [m EXCEPT !.alerts = t])
    BY <2>2, AlertReplaced
  <2> HIDE DEF t
  <2> QED BY <2>3, <2>4 DEF Did, Alike, Refusals
<1> QED BY <1>2, <1>3

LEMMA CancelAlertAlike ==
  ASSUME NEW p, NEW m, Agree(p, m), NEW x \in Alerts, NEW a \in Agents
  PROVE  Alike(p, m, PgxCancelAlert(p, a, x), MemCancelAlert(m, a, x))
<1> DEFINE al == m.alerts[x]
           new == [al EXCEPT !.status = "cancelled"]
           t == [m.alerts EXCEPT ![x] = new]
<1>1. p.alerts = m.alerts /\ m.alerts \in AlertTable /\ Calm(m.alerts)
  BY SameTables
<1>2. CASE al.status \notin {"active", "exhausted"} \/ al.agent # a
  BY <1>1, <1>2 DEF PgxCancelAlert, MemCancelAlert, Is, Did, Alike, Refusals
<1>3. CASE al.status \in {"active", "exhausted"} /\ al.agent = a
  <2>1. al \in AlertRow /\ ~ al.expired /\ ~ (al.told /\ al.count = 0)
    BY <1>1, <1>3, AlertKinds DEF None, Calm
  <2>2. new \in AlertRow /\ ~ new.expired /\ ~ (new.told /\ new.count = 0)
    BY <2>1 DEF AlertRow
  <2>3. /\ PgxCancelAlert(p, a, x) = Did([p EXCEPT !.alerts = t], "ok")
        /\ MemCancelAlert(m, a, x) = Did([m EXCEPT !.alerts = t], "ok")
    BY <1>1, <1>3 DEF PgxCancelAlert, MemCancelAlert, Is, None
  <2> HIDE DEF new
  <2>4. Agree([p EXCEPT !.alerts = t], [m EXCEPT !.alerts = t])
    BY <2>2, AlertReplaced
  <2> HIDE DEF t
  <2> QED BY <2>3, <2>4 DEF Did, Alike, Refusals
<1> QED BY <1>2, <1>3

\* FailAlert of an alert that is there.
LEMMA FailAlertAlike ==
  ASSUME NEW p, NEW m, Agree(p, m), NEW x \in Alerts, m.alerts[x].status # None
  PROVE  Alike(p, m, PgxFailAlert(p, x), MemFailAlert(m, x))
<1> DEFINE al == m.alerts[x]
           new == [al EXCEPT !.status = "failed", !.told = TRUE]
           t == [m.alerts EXCEPT ![x] = new]
<1>1. p.alerts = m.alerts /\ m.alerts \in AlertTable /\ Calm(m.alerts)
  BY SameTables
<1>2. al \in AlertRow /\ ~ al.expired
  BY <1>1, AlertKinds DEF Calm
<1>3. new \in AlertRow /\ ~ new.expired /\ new.status = "failed"
  BY <1>2 DEF AlertRow
<1>4. t = [m.alerts EXCEPT ![x].status = "failed", ![x].told = TRUE]
  BY <1>1 DEF AlertTable
<1>5. PgxFailAlert(p, x) = Did([p EXCEPT !.alerts = t], "ok") /\ MemFailAlert(m, x) = Did([m EXCEPT !.alerts = t], "ok")
  BY <1>1, <1>4 DEF PgxFailAlert, MemFailAlert
<1> HIDE DEF new
<1>6. Agree([p EXCEPT !.alerts = t], [m EXCEPT !.alerts = t])
  BY <1>3, AlertReplaced
<1> HIDE DEF t
<1> QED BY <1>5, <1>6 DEF Did, Alike, Refusals

LEMMA AckAlike ==
  ASSUME NEW p, NEW m, Agree(p, m), NEW xs
  PROVE  Alike(p, m, PgxAckTriggeredAlerts(p, xs), MemAckTriggeredAlerts(m, xs))
<1> DEFINE t == [x \in Alerts |-> IF x \in xs /\ m.alerts[x] # NoAlert THEN [m.alerts[x] EXCEPT !.told = FALSE] ELSE m.alerts[x]]
<1>1. p.alerts = m.alerts /\ m.alerts \in AlertTable /\ Calm(m.alerts)
  BY SameTables
<1>2. ASSUME NEW x \in Alerts
      PROVE  /\ t[x] \in AlertRow \cup {NoAlert}
             /\ t[x] # NoAlert => ~ t[x].expired /\ (t[x].told /\ t[x].count = 0 => t[x].status = "failed")
  <2>1. CASE x \in xs /\ m.alerts[x] # NoAlert
    <3>1. m.alerts[x] \in AlertRow /\ ~ m.alerts[x].expired
      BY <1>1, <2>1, AlertKinds DEF Calm
    <3>2. t[x] = [m.alerts[x] EXCEPT !.told = FALSE]
      BY <2>1
    <3> QED BY <3>1, <3>2 DEF AlertRow
  <2>2. CASE ~ (x \in xs /\ m.alerts[x] # NoAlert)
    BY <1>1, <2>2 DEF AlertTable, Calm
  <2> QED BY <2>1, <2>2
<1>3. t \in AlertTable /\ Calm(t)
  BY <1>2 DEF AlertTable, Calm
<1>4. /\ PgxAckTriggeredAlerts(p, xs) = Did([p EXCEPT !.alerts = t], "ok")
      /\ MemAckTriggeredAlerts(m, xs) = Did([m EXCEPT !.alerts = t], "ok")
  BY <1>1 DEF PgxAckTriggeredAlerts, MemAckTriggeredAlerts
<1> HIDE DEF t
<1> QED BY <1>3, <1>4, AlertsChange DEF Did, Alike, Refusals

\* A sweep turns the alerts of a set, none of them failed.
Swept(alerts, xs, st) ==
  [x \in Alerts |-> IF x \notin xs THEN alerts[x]
                    ELSE [alerts[x] EXCEPT !.status = st, !.told = alerts[x].told /\ st # "active"]]

LEMMA SweepAlike ==
  ASSUME NEW p, NEW m, Agree(p, m), NEW st \in {"active", "cancelled"}, NEW xs,
         \A x \in xs : x \in Alerts => m.alerts[x] \in AlertRow /\ m.alerts[x].status # "failed"
  PROVE  LET t == Swept(m.alerts, xs, st) IN
         Alike(p, m, Did([p EXCEPT !.alerts = t], "ok"), Did([m EXCEPT !.alerts = t], "ok"))
<1> DEFINE t == Swept(m.alerts, xs, st)
<1>1. m.alerts \in AlertTable /\ Calm(m.alerts)
  BY SameTables
<1>2. ASSUME NEW x \in Alerts
      PROVE  /\ t[x] \in AlertRow \cup {NoAlert}
             /\ t[x] # NoAlert => ~ t[x].expired /\ (t[x].told /\ t[x].count = 0 => t[x].status = "failed")
  <2>1. CASE x \in xs
    <3>1. m.alerts[x] \in AlertRow /\ m.alerts[x] # NoAlert /\ m.alerts[x].status # "failed"
      BY <1>1, <2>1, AlertKinds DEF None, AlertRow
    <3>2. ~ m.alerts[x].expired /\ ~ (m.alerts[x].told /\ m.alerts[x].count = 0)
      BY <1>1, <3>1 DEF Calm
    <3>3. t[x] = [m.alerts[x] EXCEPT !.status = st, !.told = m.alerts[x].told /\ st # "active"]
      BY <2>1 DEF Swept
    <3>4. CASE st = "active"
      BY <3>1, <3>2, <3>3, <3>4 DEF AlertRow
    <3>5. CASE st = "cancelled"
      BY <3>1, <3>2, <3>3, <3>5 DEF AlertRow
    <3> QED BY <3>4, <3>5
  <2>2. CASE x \notin xs
    BY <1>1, <2>2 DEF AlertTable, Calm, Swept
  <2> QED BY <2>1, <2>2
<1>3. t \in AlertTable /\ Calm(t)
  BY <1>2 DEF AlertTable, Calm, Swept
<1> HIDE DEF t
<1>4. Agree([p EXCEPT !.alerts = t], [m EXCEPT !.alerts = t])
  BY <1>3, AlertsChange
<1>5. Alike(p, m, Did([p EXCEPT !.alerts = t], "ok"), Did([m EXCEPT !.alerts = t], "ok"))
  BY <1>4 DEF Did, Alike, Refusals
<1> QED BY <1>5 DEF t

LEMMA CancelForPairAlike ==
  ASSUME NEW p, NEW m, Agree(p, m), NEW a \in Agents, NEW pair \in Pairs,
         \A x \in Alerts : m.alerts[x].status = "active" /\ m.alerts[x].agent = a /\ m.alerts[x].pair = pair
                             => m.alerts[x].service = "trading"
  PROVE  Alike(p, m, PgxCancelActiveAlertsForPair(p, a, pair), MemCancelActiveAlertsForPair(m, a, pair))
<1> DEFINE xs == {x \in Alerts : m.alerts[x].agent = a /\ m.alerts[x].status = "active" /\ m.alerts[x].pair = pair}
           t == Swept(m.alerts, xs, "cancelled")
<1>1. p.alerts = m.alerts /\ m.alerts \in AlertTable
  BY SameTables
<1>2. \A x \in xs : x \in Alerts => m.alerts[x] \in AlertRow /\ m.alerts[x].status # "failed"
  BY <1>1, AlertKinds DEF None
<1>3. [x \in Alerts |->
         IF m.alerts[x].status = None \/ ~ (m.alerts[x].agent = a /\ m.alerts[x].status = "active" /\ m.alerts[x].pair = pair) THEN m.alerts[x]
         ELSE [m.alerts[x] EXCEPT !.status = "cancelled", !.told = m.alerts[x].told /\ "cancelled" # "active"]] = t
  <2>1. \A x \in Alerts : x \notin xs <=> m.alerts[x].status = None \/ ~ (m.alerts[x].agent = a /\ m.alerts[x].status = "active" /\ m.alerts[x].pair = pair)
    BY <1>1 DEF None
  <2> HIDE DEF xs
  <2> QED BY <2>1 DEF Swept
<1>4. [x \in Alerts |->
         IF m.alerts[x].status = None \/ ~ (m.alerts[x].agent = a /\ m.alerts[x].service = "trading"
                 /\ m.alerts[x].status = "active" /\ m.alerts[x].pair = pair) THEN m.alerts[x]
         ELSE [m.alerts[x] EXCEPT !.status = "cancelled", !.told = m.alerts[x].told /\ "cancelled" # "active"]] = t
  <2>1. \A x \in Alerts : x \notin xs <=> m.alerts[x].status = None \/ ~ (m.alerts[x].agent = a /\ m.alerts[x].service = "trading"
                 /\ m.alerts[x].status = "active" /\ m.alerts[x].pair = pair)
    BY <1>1 DEF None
  <2> HIDE DEF xs
  <2> QED BY <2>1 DEF Swept
<1> HIDE DEF xs
<1>5. Alike(p, m, Did([p EXCEPT !.alerts = t], "ok"), Did([m EXCEPT !.alerts = t], "ok"))
  BY <1>2, SweepAlike
<1> HIDE DEF t
<1>6. PgxCancelActiveAlertsForPair(p, a, pair) = Did([p EXCEPT !.alerts = t], "ok")
  BY <1>1, <1>4, ZenonT(60) DEF PgxCancelActiveAlertsForPair, Turned
<1>7. MemCancelActiveAlertsForPair(m, a, pair) = Did([m EXCEPT !.alerts = t], "ok")
  BY <1>3 DEF MemCancelActiveAlertsForPair, Turned
<1> QED BY <1>5, <1>6, <1>7

LEMMA CancelGroupAlike ==
  ASSUME NEW p, NEW m, Agree(p, m), NEW a \in Agents, NEW g, NEW x0,
         g # ""
  PROVE  Alike(p, m, PgxCancelAlertsByGroup(p, a, g, x0), MemCancelAlertsByGroup(m, a, g, x0))
<1> DEFINE xs == {x \in Alerts : m.alerts[x].agent = a /\ m.alerts[x].status = "active" /\ m.alerts[x].group = g /\ x # x0}
           t == Swept(m.alerts, xs, "cancelled")
<1>1. p.alerts = m.alerts /\ m.alerts \in AlertTable
  BY SameTables
<1>2. \A x \in xs : x \in Alerts => m.alerts[x] \in AlertRow /\ m.alerts[x].status # "failed"
  BY <1>1, AlertKinds DEF None
<1>3. [x \in Alerts |->
         IF m.alerts[x].status = None \/ ~ (m.alerts[x].agent = a /\ m.alerts[x].status = "active" /\ m.alerts[x].group = g /\ x # x0) THEN m.alerts[x]
         ELSE [m.alerts[x] EXCEPT !.status = "cancelled", !.told = m.alerts[x].told /\ "cancelled" # "active"]] = t
  <2>1. \A x \in Alerts : x \notin xs <=> m.alerts[x].status = None \/ ~ (m.alerts[x].agent = a /\ m.alerts[x].status = "active" /\ m.alerts[x].group = g /\ x # x0)
    BY <1>1 DEF None
  <2> HIDE DEF xs
  <2> QED BY <2>1 DEF Swept
<1>4. [x \in Alerts |->
         IF m.alerts[x].status = None \/ ~ (m.alerts[x].agent = a /\ m.alerts[x].status = "active" /\ m.alerts[x].group = g /\ g # "" /\ x # x0) THEN m.alerts[x]
         ELSE [m.alerts[x] EXCEPT !.status = "cancelled", !.told = m.alerts[x].told /\ "cancelled" # "active"]] = t
  <2>1. \A x \in Alerts : x \notin xs <=> m.alerts[x].status = None \/ ~ (m.alerts[x].agent = a /\ m.alerts[x].status = "active" /\ m.alerts[x].group = g /\ g # "" /\ x # x0)
    BY <1>1 DEF None
  <2> HIDE DEF xs
  <2> QED BY <2>1 DEF Swept
<1> HIDE DEF xs
<1>5. Alike(p, m, Did([p EXCEPT !.alerts = t], "ok"), Did([m EXCEPT !.alerts = t], "ok"))
  BY <1>2, SweepAlike
<1> HIDE DEF t
<1>6. PgxCancelAlertsByGroup(p, a, g, x0) = Did([p EXCEPT !.alerts = t], "ok")
  BY <1>1, <1>4 DEF PgxCancelAlertsByGroup, Turned
<1>7. MemCancelAlertsByGroup(m, a, g, x0) = Did([m EXCEPT !.alerts = t], "ok")
  BY <1>3 DEF MemCancelAlertsByGroup, Turned
<1> QED BY <1>5, <1>6, <1>7

LEMMA RestoreAlike ==
  ASSUME NEW p, NEW m, Agree(p, m), NEW a \in Agents, NEW g, NEW x0,
         g # ""
  PROVE  Alike(p, m, PgxRestoreCancelledSiblings(p, a, g, x0), MemRestoreCancelledSiblings(m, a, g, x0))
<1> DEFINE xs == {x \in Alerts : m.alerts[x].agent = a /\ m.alerts[x].status = "cancelled" /\ m.alerts[x].group = g /\ x # x0}
           t == Swept(m.alerts, xs, "active")
<1>1. p.alerts = m.alerts /\ m.alerts \in AlertTable
  BY SameTables
<1>2. \A x \in xs : x \in Alerts => m.alerts[x] \in AlertRow /\ m.alerts[x].status # "failed"
  BY <1>1, AlertKinds DEF None
<1>3. [x \in Alerts |->
         IF m.alerts[x].status = None \/ ~ (m.alerts[x].agent = a /\ m.alerts[x].status = "cancelled" /\ m.alerts[x].group = g /\ x # x0) THEN m.alerts[x]
         ELSE [m.alerts[x] EXCEPT !.status = "active", !.told = m.alerts[x].told /\ "active" # "active"]] = t
  <2>1. \A x \in Alerts : x \notin xs <=> m.alerts[x].status = None \/ ~ (m.alerts[x].agent = a /\ m.alerts[x].status = "cancelled" /\ m.alerts[x].group = g /\ x # x0)
    BY <1>1 DEF None
  <2> HIDE DEF xs
  <2> QED BY <2>1 DEF Swept
<1>4. [x \in Alerts |->
         IF m.alerts[x].status = None \/ ~ (m.alerts[x].agent = a /\ m.alerts[x].status = "cancelled" /\ m.alerts[x].group = g /\ g # "" /\ x # x0) THEN m.alerts[x]
         ELSE [m.alerts[x] EXCEPT !.status = "active", !.told = m.alerts[x].told /\ "active" # "active"]] = t
  <2>1. \A x \in Alerts : x \notin xs <=> m.alerts[x].status = None \/ ~ (m.alerts[x].agent = a /\ m.alerts[x].status = "cancelled" /\ m.alerts[x].group = g /\ g # "" /\ x # x0)
    BY <1>1 DEF None
  <2> HIDE DEF xs
  <2> QED BY <2>1 DEF Swept
<1> HIDE DEF xs
<1>5. Alike(p, m, Did([p EXCEPT !.alerts = t], "ok"), Did([m EXCEPT !.alerts = t], "ok"))
  BY <1>2, SweepAlike
<1> HIDE DEF t
<1>6. PgxRestoreCancelledSiblings(p, a, g, x0) = Did([p EXCEPT !.alerts = t], "ok")
  BY <1>1, <1>4 DEF PgxRestoreCancelledSiblings, Turned
<1>7. MemRestoreCancelledSiblings(m, a, g, x0) = Did([m EXCEPT !.alerts = t], "ok")
  BY <1>3 DEF MemRestoreCancelledSiblings, Turned
<1> QED BY <1>5, <1>6, <1>7

-----------------------------------------------------------------------------
(* A call of a caller that keeps to what the service does. *)

StepOK == /\ Agree(pg', mem') /\ answer'.pg = answer'.mem
          /\ answer'.pg \in Refusals => pg' = pg /\ mem' = mem

LEMMA CallAlike ==
  ASSUME NEW kind, NEW p, NEW m, Alike(pg, mem, p, m), Call(kind, p, m)
  PROVE  StepOK
BY DEF Call, Alike, StepOK

LEMMA DealTyped ==
  ASSUME RepositoriesAssumption, NEW d \in Deals
  PROVE  d \in DealType
BY DEF RepositoriesAssumption, DealType

LEMMA RowTyped ==
  ASSUME NEW a \in Agents, NEW p \in Pairs, NEW t \in Nat, NEW d \in DealType,
         NEW st \in {"pending", "reject", "fill"}, NEW f \in Fills \cup {None}
  PROVE  LET row == Row(a, p, t, d, st, f)
             none == Rejected(row, d) IN
         /\ row \in TradeRow /\ row.fill = f /\ row.time = t /\ row.agent = a
         /\ none \in TradeRow /\ none.fill = f /\ none.time = t /\ none.agent = a
<1> DEFINE row == Row(a, p, t, d, st, f)
           none == Rejected(row, d)
<1>1. row \in TradeRow /\ row.fill = f /\ row.time = t /\ row.agent = a
  BY DEF Row, TradeRow, NoEvidence, EvidenceOf, DealType
<1> HIDE DEF row
<1>2. none = [row EXCEPT !.after = 0, !.pnl = 0]
  BY DEF Rejected
<1> HIDE DEF none
<1>3. none \in TradeRow
  <2> DEFINE worthless == [row EXCEPT !.after = 0]
  <2>1. worthless \in TradeRow
    BY <1>1 DEF TradeRow
  <2>2. none = [worthless EXCEPT !.pnl = 0]
    BY <1>2
  <2> HIDE DEF worthless
  <2> QED BY <2>1, <2>2 DEF TradeRow
<1>4. none.fill = row.fill /\ none.time = row.time /\ none.agent = row.agent
  BY <1>2
<1> QED BY <1>1, <1>3, <1>4 DEF row, none

LEMMA StateStep ==
  ASSUME RepositoriesAssumption, Disciplined = TRUE, Agree(pg, mem), NEW a \in Agents, StateCall(a)
  PROVE  StepOK
<1>1. CASE Call("trades", PgxGetOrCreateAgent(pg, a), MemGetOrCreateAgent(mem, a))
  BY <1>1, GetOrCreateAlike, CallAlike
<1>2. ASSUME NEW h \in BOOLEAN, Call("trades", PgxSetAgentHalted(pg, a, h), MemSetAgentHalted(mem, a, h))
      PROVE  StepOK
  BY <1>2, SetHaltedAlike, CallAlike
<1>3. ASSUME NEW d \in Deals, Allowed(mem.agents[a].known),
             Call("trades", PgxUpdatePeakValue(pg, a, d.after), MemUpdatePeakValue(mem, a, d.after))
      PROVE  StepOK
  <2>1. d.after \in Int
    BY DealTyped DEF DealType
  <2>2. mem.agents[a].known
    BY <1>3 DEF Allowed
  <2> QED BY <1>3, <2>1, <2>2, UpdatePeakAlike, CallAlike
<1> QED BY <1>1, <1>2, <1>3 DEF StateCall

LEMMA InsertStep ==
  ASSUME RepositoriesAssumption, Disciplined = TRUE, Agree(pg, mem), NEW a \in Agents, NEW p \in Pairs, NEW d \in Deals,
         NEW t \in Times, InsertTrade(a, p, d, t)
  PROVE  StepOK
<1>1. PICK st \in {"pending", "reject"} :
        LET row == Rejected(Row(a, p, t, d, st, None), d) IN
        Call("trades", PgxInsertTrade(pg, row), MemInsertTrade(mem, row))
  BY DEF InsertTrade
<1> DEFINE row == Rejected(Row(a, p, t, d, st, None), d)
<1>2. d \in DealType /\ t \in Nat
  BY DealTyped DEF Times, RepositoriesAssumption
<1>3. row \in TradeRow /\ row.fill = None /\ row.time = t
  BY <1>2, RowTyped
<1>4. Call("trades", PgxInsertTrade(pg, row), MemInsertTrade(mem, row))
  BY <1>1
<1> HIDE DEF row
<1>5. \A i \in DOMAIN mem.trades : mem.trades[i].time <= row.time
  BY <1>3 DEF InsertTrade, Allowed, Latest
<1> QED BY <1>3, <1>4, <1>5, InsertTradeAlike, CallAlike

LEMMA RecordStep ==
  ASSUME RepositoriesAssumption, Disciplined = TRUE, Agree(pg, mem), NEW a \in Agents, NEW p \in Pairs, NEW d \in Deals,
         NEW t \in Times, NEW f \in Fills \cup {None}, RecordTrade(a, p, d, t, f)
  PROVE  StepOK
<1> DEFINE row == IF f = None THEN Rejected(Row(a, p, t, d, "reject", f), d) ELSE Row(a, p, t, d, "fill", f)
           did == IF f = None THEN [d EXCEPT !.delta = 0, !.after = 0] ELSE d
           n == IF f = None THEN 0 ELSE 1
<1>1. d \in DealType /\ t \in Nat
  BY DealTyped DEF Times, RepositoriesAssumption
<1>2. row \in TradeRow /\ row.fill = f /\ row.time = t
  <2>1. CASE f = None
    BY <1>1, <2>1, RowTyped
  <2>2. CASE f # None
    BY <1>1, <2>2, RowTyped
  <2> QED BY <2>1, <2>2
<1>3. did \in DealType /\ n \in Nat /\ 1 - n \in Nat
  <2> DEFINE free == [d EXCEPT !.delta = 0]
             zero == [free EXCEPT !.after = 0]
  <2>0. free \in DealType
    BY <1>1 DEF DealType
  <2>1. zero \in DealType
    <3> HIDE DEF free
    <3> QED BY <2>0 DEF DealType
  <2> HIDE DEF zero
  <2>2. did = IF f = None THEN zero ELSE d
    BY DEF zero
  <2>3. n \in Nat /\ 1 - n \in Nat
    OBVIOUS
  <2> HIDE DEF did, n
  <2> QED BY <1>1, <2>1, <2>2, <2>3
<1>4. /\ Call("trades", PgxRecordTrade(pg, row, did, n, 1 - n), MemRecordTrade(mem, row, did, n, 1 - n))
      /\ Latest(t) /\ FreshFill(f)
  BY DEF RecordTrade, Allowed
<1> HIDE DEF row, did, n
<1>5. \A i \in DOMAIN mem.trades : mem.trades[i].time <= row.time
  BY <1>2, <1>4 DEF Latest
<1>6. \A i \in DOMAIN mem.trades : row.fill = None \/ mem.trades[i].fill # row.fill
  BY <1>2, <1>4 DEF FreshFill
<1> DEFINE k == 1 - n
<1>7. Call("trades", PgxRecordTrade(pg, row, did, n, k), MemRecordTrade(mem, row, did, n, k)) /\ k \in Nat
  BY <1>3, <1>4
<1> HIDE DEF k
<1>8. Alike(pg, mem, PgxRecordTrade(pg, row, did, n, k), MemRecordTrade(mem, row, did, n, k))
  BY <1>2, <1>3, <1>5, <1>6, <1>7, RecordTradeAlike
<1> QED BY <1>7, <1>8, CallAlike

LEMMA RowStep ==
  ASSUME RepositoriesAssumption, Disciplined = TRUE, Agree(pg, mem), NEW i \in DOMAIN mem.trades, RowCall(i)
  PROVE  StepOK
<1> DEFINE a == mem.trades[i].agent
<1>0. a \in Agents
  <2>1. mem.trades \in Seq(TradeRow)
    BY SameTables DEF TradeTable
  <2>2. mem.trades[i] \in TradeRow
    BY <2>1
  <2> QED BY <2>2 DEF TradeRow
<1>1. CASE Call("trades", PgxRejectPendingTrade(pg, a, i), MemRejectPendingTrade(mem, a, i))
  <2> HIDE DEF a
  <2> QED BY <1>0, <1>1, RejectPendingAlike, CallAlike
<1>2. ASSUME NEW d \in Deals, NEW f \in Fills, NEW h \in Hashes \cup {None}, FinalizeTrade(i, d, f, h)
      PROVE  StepOK
  <2>1. d \in DealType
    BY DealTyped
  <2>2. /\ mem.trades[i].status = "pending" /\ FreshFill(f)
        /\ h \in {None} \cup {k \in Hashes : mem.traces[k] = None}
        /\ Call("trades", PgxFinalizeTrade(pg, mem.trades[i].agent, i, d, f, h),
                MemFinalizeTrade(mem, mem.trades[i].agent, i, d, f, h))
    BY <1>2 DEF FinalizeTrade, Allowed
  <2>3. \A j \in DOMAIN mem.trades : mem.trades[j].fill # f
    BY <2>2 DEF FreshFill, RepositoriesAssumption
  <2>4. h # None => mem.traces[h] = None
    BY <2>2
  <2>5. Alike(pg, mem, PgxFinalizeTrade(pg, mem.trades[i].agent, i, d, f, h),
              MemFinalizeTrade(mem, mem.trades[i].agent, i, d, f, h))
    BY <2>1, <2>2, <2>3, <2>4, FinalizeTradeAlike
  <2> QED BY <2>2, <2>5, CallAlike
<1>3. ASSUME NEW att \in {"pending", "success"},
             Call("trades", PgxUpdateEvidence(pg, i, att), MemUpdateEvidence(mem, i, att))
      PROVE  StepOK
  BY <1>3, UpdateEvidenceAlike, CallAlike
<1> QED BY <1>1, <1>2, <1>3 DEF RowCall

LEMMA HashStep ==
  ASSUME RepositoriesAssumption, Agree(pg, mem), NEW h \in Hashes, HashCall(h)
  PROVE  StepOK
<1>1. ASSUME NEW f \in Fills, Call("trades", PgxUpdateTradeHash(pg, f, h), MemUpdateTradeHash(mem, f, h))
      PROVE  StepOK
  BY <1>1, UpdateTradeHashAlike, CallAlike
<1>2. ASSUME NEW a \in Agents, Call("trades", PgxInsertTrace(pg, a, h), MemInsertTrace(mem, a, h))
      PROVE  StepOK
  BY <1>2, InsertTraceAlike, CallAlike
<1> QED BY <1>1, <1>2 DEF HashCall

LEMMA UpsertStep ==
  ASSUME Disciplined = TRUE, Agree(pg, mem), NEW x \in Alerts, UpsertAlert(x)
  PROVE  StepOK
<1>1. PICK a \in Agents, sv \in {"trading", "time"}, p \in Pairs, n \in 0..1, g \in Groups, late \in BOOLEAN :
        LET new == NewAlert(a, sv, p, n, g, sv = "time", late)
            old == mem.alerts[x] IN
        /\ Allowed(/\ ~ late
                   /\ IF old.status = None THEN TRUE ELSE old.agent = a /\ old.service = sv /\ old.count = 0)
        /\ Call("alerts", PgxUpsertAlert(pg, x, new), MemUpsertAlert(mem, x, new))
  BY DEF UpsertAlert
<1> DEFINE new == NewAlert(a, sv, p, n, g, sv = "time", late)
<1>2. /\ new \in AlertRow /\ new.status = "active" /\ new.count = 0 /\ ~ new.told
      /\ new.agent = a /\ new.service = sv /\ new.expired = late
  BY DEF NewAlert, AlertRow
<1>3. ~ late /\ (mem.alerts[x].status # None =>
                   mem.alerts[x].agent = a /\ mem.alerts[x].service = sv /\ mem.alerts[x].count = 0)
  BY <1>1 DEF Allowed
<1>4. Call("alerts", PgxUpsertAlert(pg, x, new), MemUpsertAlert(mem, x, new))
  BY <1>1
<1> HIDE DEF new
<1>5. Alike(pg, mem, PgxUpsertAlert(pg, x, new), MemUpsertAlert(mem, x, new))
  BY <1>2, <1>3, UpsertAlertAlike
<1> QED BY <1>4, <1>5, CallAlike

LEMMA AlertStep ==
  ASSUME Disciplined = TRUE, Agree(pg, mem), NEW x \in Alerts, AlertCall(x)
  PROVE  StepOK
<1>1. ASSUME NEW priced \in BOOLEAN,
             Call("alerts", PgxMarkAlertTriggered(pg, x, priced), MemMarkAlertTriggered(mem, x, priced))
      PROVE  StepOK
  BY <1>1, MarkTriggeredAlike, CallAlike
<1>2. ASSUME NEW a \in Agents, Call("alerts", PgxCancelAlert(pg, a, x), MemCancelAlert(mem, a, x))
      PROVE  StepOK
  BY <1>2, CancelAlertAlike, CallAlike
<1>3. CASE Call("alerts", PgxAckTriggeredAlerts(pg, {x}), MemAckTriggeredAlerts(mem, {x}))
  BY <1>3, AckAlike, CallAlike
<1>4. CASE /\ Allowed(mem.alerts[x].status # None)
           /\ Call("alerts", PgxFailAlert(pg, x), MemFailAlert(mem, x))
  BY <1>4, FailAlertAlike, CallAlike DEF Allowed
<1> QED BY <1>1, <1>2, <1>3, <1>4 DEF AlertCall

LEMMA SweepStep ==
  ASSUME Disciplined = TRUE, Agree(pg, mem), NEW a \in Agents, NEW x0 \in Alerts, SweepCall(a, x0)
  PROVE  StepOK
<1>1. ASSUME NEW p \in Pairs,
             Allowed(AlertIds(mem, LAMBDA r : /\ r.agent = a /\ r.status = "active" /\ r.pair = p
                                              /\ r.service # "trading") = {}),
             Call("alerts", PgxCancelActiveAlertsForPair(pg, a, p), MemCancelActiveAlertsForPair(mem, a, p))
      PROVE  StepOK
  <2>1. ASSUME NEW x \in Alerts, mem.alerts[x].status = "active", mem.alerts[x].agent = a, mem.alerts[x].pair = p
        PROVE  mem.alerts[x].service = "trading"
    BY <1>1, <2>1 DEF Allowed, AlertIds, None
  <2>2. Alike(pg, mem, PgxCancelActiveAlertsForPair(pg, a, p), MemCancelActiveAlertsForPair(mem, a, p))
    BY <2>1, CancelForPairAlike
  <2> QED BY <1>1, <2>2, CallAlike
<1>2. ASSUME NEW g \in Groups, Allowed(g # ""),
             \/ Call("alerts", PgxCancelAlertsByGroup(pg, a, g, x0), MemCancelAlertsByGroup(mem, a, g, x0))
             \/ Call("alerts", PgxRestoreCancelledSiblings(pg, a, g, x0), MemRestoreCancelledSiblings(mem, a, g, x0))
      PROVE  StepOK
  <2>1. g # ""
    BY <1>2 DEF Allowed
  <2>2. /\ Alike(pg, mem, PgxCancelAlertsByGroup(pg, a, g, x0), MemCancelAlertsByGroup(mem, a, g, x0))
        /\ Alike(pg, mem, PgxRestoreCancelledSiblings(pg, a, g, x0), MemRestoreCancelledSiblings(mem, a, g, x0))
    BY <2>1, CancelGroupAlike, RestoreAlike
  <2> QED BY <1>2, <2>2, CallAlike
<1> QED BY <1>1, <1>2 DEF SweepCall

LEMMA NextStep ==
  ASSUME RepositoriesAssumption, Disciplined = TRUE, Agree(pg, mem), Next
  PROVE  StepOK
<1>1. ASSUME NEW a \in Agents, StateCall(a) PROVE StepOK
  BY <1>1, StateStep
<1>2. ASSUME NEW a \in Agents, NEW p \in Pairs, NEW d \in Deals, NEW t \in Times, InsertTrade(a, p, d, t) PROVE StepOK
  BY <1>2, InsertStep
<1>3. ASSUME NEW a \in Agents, NEW p \in Pairs, NEW d \in Deals, NEW t \in Times, NEW f \in Fills \cup {None},
             RecordTrade(a, p, d, t, f)
      PROVE  StepOK
  BY <1>3, RecordStep
<1>4. ASSUME NEW i \in DOMAIN mem.trades, RowCall(i) PROVE StepOK
  BY <1>4, RowStep
<1>5. ASSUME NEW h \in Hashes, HashCall(h) PROVE StepOK
  BY <1>5, HashStep
<1>6. ASSUME NEW x \in Alerts, UpsertAlert(x) PROVE StepOK
  BY <1>6, UpsertStep
<1>7. ASSUME NEW x \in Alerts, AlertCall(x) PROVE StepOK
  BY <1>7, AlertStep
<1>8. ASSUME NEW a \in Agents, NEW x \in Alerts, SweepCall(a, x) PROVE StepOK
  BY <1>8, SweepStep
<1> QED BY <1>1, <1>2, <1>3, <1>4, <1>5, <1>6, <1>7, <1>8 DEF Next

Inv == Agree(pg, mem) /\ answer.pg = answer.mem

LEMMA InitInv ==
  ASSUME RepositoriesAssumption, Init
  PROVE  Inv
<1>1. pg \in PgxType /\ mem \in MemType
  BY AgentTyped DEF Init, PgxType, MemType, AgentTable, TradeTable, AlertTable
<1>2. SameTraces(pg.traces, mem.traces, mem.latest)
  BY DEF Init, SameTraces, RepositoriesAssumption
<1>3. InTimeOrder(mem.trades) /\ FillsOnce(mem.trades) /\ Calm(mem.alerts)
  BY DEF Init, InTimeOrder, FillsOnce, Calm, NoAlert
<1> QED BY <1>1, <1>2, <1>3 DEF Init, Inv, Agree

LEMMA InvStep ==
  ASSUME RepositoriesAssumption, Disciplined = TRUE, Inv, [Next]_vars
  PROVE  Inv'
<1>1. CASE Next
  BY <1>1, NextStep DEF Inv, StepOK
<1>2. CASE UNCHANGED vars
  BY <1>2 DEF Inv, vars
<1> QED BY <1>1, <1>2

LEMMA InvHolds ==
  ASSUME RepositoriesAssumption, Disciplined = TRUE
  PROVE  Spec => []Inv
<1> QED BY InitInv, InvStep, PTL DEF Spec

\* A call that one of the two refuses leaves both as they were: a state update and its row
\* are applied together or not at all.
THEOREM RefusalsChangeNothing ==
  ASSUME RepositoriesAssumption, Disciplined = TRUE
  PROVE  Spec => RefusedChangesNothing
<1>1. ASSUME Inv, [Next]_vars
      PROVE  [ /\ answer'.pg \in {"error", "not active", "lost"} => pg' = pg
               /\ answer'.mem \in {"error", "not active", "lost"} => mem' = mem ]_vars
  BY <1>1, NextStep DEF Inv, StepOK, Refusals
<1> QED BY <1>1, InvHolds, PTL DEF Spec, RefusedChangesNothing

-----------------------------------------------------------------------------
(* The queries read the same. *)

LEMMA TimesTyped ==
  ASSUME NEW trades \in TradeTable
  PROVE  /\ DOMAIN trades = 1..Len(trades) /\ Len(trades) \in Nat
         /\ \A i \in 1..Len(trades) : trades[i].time \in Nat
<1>1. trades \in Seq(TradeRow)
  BY DEF TradeTable
<1>2. DOMAIN trades = 1..Len(trades) /\ Len(trades) \in Nat /\ \A i \in 1..Len(trades) : trades[i] \in TradeRow
  BY <1>1
<1> QED BY <1>2 DEF TradeRow

\* With rows in the order of their time, the order of the time is the order of insertion.
LEMMA OneOrder ==
  ASSUME NEW trades \in TradeTable, InTimeOrder(trades), NEW ids, ids \subseteq DOMAIN trades
  PROVE  NewestFirst(trades, ids) = LastFirst(ids) /\ OldestFirst(trades, ids) = FirstFirst(ids)
<1>1. /\ DOMAIN trades = 1..Len(trades) /\ Len(trades) \in Nat
      /\ \A i \in 1..Len(trades) : trades[i].time \in Nat
  BY TimesTyped
<1>2. \A i, j \in ids : Newer(trades, i, j) <=> i > j
  <2> SUFFICES ASSUME NEW i \in ids, NEW j \in ids PROVE Newer(trades, i, j) <=> i > j
    OBVIOUS
  <2>1. i \in 1..Len(trades) /\ j \in 1..Len(trades) /\ trades[i].time \in Nat /\ trades[j].time \in Nat
    BY <1>1
  <2>2. (i < j => trades[i].time <= trades[j].time) /\ (j < i => trades[j].time <= trades[i].time)
    BY <2>1 DEF InTimeOrder
  <2> QED BY <2>1, <2>2 DEF Newer
<1>3. \A i, j \in ids : (i > j) <=> (j < i)
  BY <1>1
<1>4. NewestFirst(trades, ids) = LastFirst(ids)
  BY <1>2 DEF NewestFirst, LastFirst
<1>5. OldestFirst(trades, ids) = FirstFirst(ids)
  <2>1. \A i, j \in ids : Newer(trades, j, i) <=> i < j
    BY <1>2, <1>3
  <2> QED BY <2>1 DEF OldestFirst, FirstFirst
<1> QED BY <1>4, <1>5

LEMMA RowSets ==
  ASSUME NEW trades, NEW a, NEW p, NEW st
  PROVE  /\ History(trades, a, p, st) \subseteq DOMAIN trades /\ FillsOf(trades, a) \subseteq DOMAIN trades
         /\ Valued(trades, a) \subseteq DOMAIN trades /\ Buys(trades, a, p) \subseteq DOMAIN trades
BY DEF History, FillsOf, Valued, Buys, Ids

LEMMA SameHistory ==
  ASSUME NEW p, NEW m, Agree(p, m), NEW a, NEW n, NEW pair, NEW st
  PROVE  PgxGetTradeHistory(p, a, n, pair, st) = MemGetTradeHistory(m, a, n, pair, st)
<1> DEFINE ids == History(m.trades, a, pair, st)
<1>1. p.trades = m.trades
  BY SameTables
<1>2. NewestFirst(m.trades, ids) = LastFirst(ids)
  BY SameTables, RowSets, OneOrder
<1>3. PgxGetTradeHistory(p, a, n, pair, st) = Rows(m.trades, Cut(InOrder(ids, NewestFirst(m.trades, ids)), n))
  BY <1>1 DEF PgxGetTradeHistory
<1>4. MemGetTradeHistory(m, a, n, pair, st) = Rows(m.trades, Cut(InOrder(ids, LastFirst(ids)), n))
  BY DEF MemGetTradeHistory
<1> HIDE DEF ids
<1> QED BY <1>2, <1>3, <1>4

LEMMA SamePositions ==
  ASSUME NEW p, NEW m, Agree(p, m), NEW a
  PROVE  PgxGetOpenPositions(p, a) = MemGetOpenPositions(m, a)
<1> DEFINE ids == FillsOf(m.trades, a)
           Positions(before) == [pair \in Pairs |-> Held(m.trades, InOrder(ids, before), pair)]
<1>1. p.trades = m.trades
  BY SameTables
<1>2. OldestFirst(m.trades, ids) = FirstFirst(ids)
  BY SameTables, RowSets, OneOrder
<1>3. PgxGetOpenPositions(p, a) = Positions(OldestFirst(m.trades, ids))
  BY <1>1 DEF PgxGetOpenPositions
<1>4. MemGetOpenPositions(m, a) = Positions(FirstFirst(ids))
  BY DEF MemGetOpenPositions
<1> HIDE DEF ids, Positions
<1> QED BY <1>2, <1>3, <1>4

LEMMA SameFigures ==
  ASSUME NEW p, NEW m, Agree(p, m), NEW a
  PROVE  PgxComputeEquity(p, a) = MemComputeEquity(m, a) /\ PgxComputeMetrics(p, a) = MemComputeMetrics(m, a)
<1>1. p.agents = m.agents
  BY SameTables
<1>2. PgxComputeEquity(p, a) = MemComputeEquity(m, a)
  BY <1>1, SamePositions DEF PgxComputeEquity, MemComputeEquity
<1>3. PgxGetTradeHistory(p, a, 0, None, "fill") = MemGetTradeHistory(m, a, 0, None, "fill")
  BY SameHistory
<1>4. PgxComputeMetrics(p, a) = MemComputeMetrics(m, a)
  BY <1>1, <1>2, <1>3 DEF PgxComputeMetrics, MemComputeMetrics
<1> QED BY <1>2, <1>4

LEMMA SameLists ==
  ASSUME NEW p, NEW m, Agree(p, m), NEW a
  PROVE  /\ PgxGetPendingTrades(p, a) = MemGetPendingTrades(m, a)
         /\ PgxGetFilledFillIDs(p, a) = MemGetFilledFillIDs(m, a)
         /\ PgxGetFilledTradesWithoutEvidence(p, a) = MemGetFilledTradesWithoutEvidence(m, a)
         /\ PgxGetFilledTradesPendingAttestation(p, a) = MemGetFilledTradesPendingAttestation(m, a)
<1> DEFINE Pending(trades) == Listed(trades, Ids(trades, LAMBDA r : r.status = "pending" /\ a \in {None, r.agent}))
           FillIds(trades) == {f \in Fills : \E i \in FillsOf(trades, a) : trades[i].fill = f}
           Bare(trades) == Listed(trades, {i \in FillsOf(trades, a) : ~ Chained(trades[i])})
           Open(trades) == Listed(trades, {i \in FillsOf(trades, a) : trades[i].evidence.att \in Recoverable})
<1>1. p.trades = m.trades
  BY SameTables
<1>2. PgxGetPendingTrades(p, a) = Pending(p.trades) /\ MemGetPendingTrades(m, a) = Pending(m.trades)
  BY DEF PgxGetPendingTrades, MemGetPendingTrades
<1>3. PgxGetFilledFillIDs(p, a) = FillIds(p.trades) /\ MemGetFilledFillIDs(m, a) = FillIds(m.trades)
  BY DEF PgxGetFilledFillIDs, MemGetFilledFillIDs
<1>4. /\ PgxGetFilledTradesWithoutEvidence(p, a) = Bare(p.trades)
      /\ MemGetFilledTradesWithoutEvidence(m, a) = Bare(m.trades)
  BY DEF PgxGetFilledTradesWithoutEvidence, MemGetFilledTradesWithoutEvidence
<1>5. /\ PgxGetFilledTradesPendingAttestation(p, a) = Open(p.trades)
      /\ MemGetFilledTradesPendingAttestation(m, a) = Open(m.trades)
  BY DEF PgxGetFilledTradesPendingAttestation, MemGetFilledTradesPendingAttestation
<1> HIDE DEF Pending, FillIds, Bare, Open
<1> QED BY <1>1, <1>2, <1>3, <1>4, <1>5

LEMMA SameValues ==
  ASSUME NEW p, NEW m, Agree(p, m), NEW a
  PROVE  /\ PgxGetDayStartValue(p, a) = MemGetDayStartValue(m, a)
         /\ PgxGetRollingPeak24h(p, a) = MemGetRollingPeak24h(m, a)
<1> DEFINE old == {i \in Valued(m.trades, a) : m.trades[i].time < Today}
           new == {i \in Valued(m.trades, a) : m.trades[i].time >= Today}
<1>1. /\ p.trades = m.trades /\ m.trades \in TradeTable /\ InTimeOrder(m.trades)
      /\ Valued(m.trades, a) \subseteq DOMAIN m.trades
  BY SameTables, RowSets
<1>2. NewestFirst(m.trades, old) = LastFirst(old)
  BY <1>1, OneOrder
<1>3. PgxGetDayStartValue(p, a) = IF old = {} THEN 0 ELSE m.trades[Foremost(old, NewestFirst(m.trades, old))].after
  BY <1>1 DEF PgxGetDayStartValue
<1>4. MemGetDayStartValue(m, a) = IF old = {} THEN 0 ELSE m.trades[Foremost(old, LastFirst(old))].after
  BY DEF MemGetDayStartValue
<1>5. {i \in Valued(m.trades, a) : ~ m.trades[i].time < Today} = new
  <2>1. \A i \in DOMAIN m.trades : m.trades[i].time \in Nat
    BY <1>1, TimesTyped
  <2> QED BY <1>1, <2>1 DEF Today
<1>6. PgxGetRollingPeak24h(p, a) = HighestAfter(m.trades, new)
  BY <1>1 DEF PgxGetRollingPeak24h
<1>7. MemGetRollingPeak24h(m, a) = HighestAfter(m.trades, new)
  BY <1>5 DEF MemGetRollingPeak24h
<1> HIDE DEF old, new
<1> QED BY <1>2, <1>3, <1>4, <1>6, <1>7

LEMMA SameTraceOf ==
  ASSUME NEW p, NEW m, Agree(p, m), RepositoriesAssumption, NEW h \in Hashes
  PROVE  PgxGetTrace(p, h) = MemGetTrace(m, h)
<1> DEFINE hit == {k \in DOMAIN p.traces : p.traces[k].hash = h}
<1>1. /\ SameTraces(p.traces, m.traces, m.latest) /\ p.traces \in Seq(Trace)
      /\ m.traces \in [Hashes -> Agents \cup {None}] /\ DOMAIN p.traces = 1..Len(p.traces)
  BY SameTables
<1>2. \A k \in hit : p.traces[k].agent = m.traces[h] /\ p.traces[k].agent \in Agents
  <2>1. ASSUME NEW k \in hit PROVE p.traces[k] \in Trace /\ p.traces[k].hash = h /\ k \in 1..Len(p.traces)
    BY <1>1
  <2> QED BY <1>1, <2>1 DEF SameTraces, Trace
<1>3. CASE hit = {}
  <2>1. m.traces[h] = None
    BY <1>1, <1>3 DEF SameTraces
  <2>2. PgxGetTrace(p, h) = None
    BY <1>3 DEF PgxGetTrace
  <2> QED BY <2>1, <2>2 DEF MemGetTrace
<1>4. CASE hit # {}
  <2>1. PgxGetTrace(p, h) = p.traces[CHOOSE k \in hit : TRUE].agent
    BY <1>4 DEF PgxGetTrace
  <2>2. (CHOOSE k \in hit : TRUE) \in hit
    BY <1>4
  <2> HIDE DEF hit
  <2> QED BY <1>2, <2>1, <2>2 DEF MemGetTrace
<1> QED BY <1>3, <1>4

LEMMA SameLatestTrace ==
  ASSUME NEW p, NEW m, Agree(p, m), RepositoriesAssumption, NEW a \in Agents
  PROVE  PgxGetLatestTraceHash(p, a) = MemGetLatestTraceHash(m, a)
<1> DEFINE own == {k \in DOMAIN p.traces : p.traces[k].agent = a}
<1>1. SameTraces(p.traces, m.traces, m.latest) /\ p.traces \in Seq(Trace) /\ DOMAIN p.traces = 1..Len(p.traces)
      /\ Len(p.traces) \in Nat
  BY SameTables
<1>2. CASE m.latest[a] = None
  <2>1. own = {}
    BY <1>1, <1>2 DEF SameTraces
  <2> QED BY <1>2, <2>1 DEF PgxGetLatestTraceHash, MemGetLatestTraceHash
<1>3. CASE m.latest[a] # None
  <2>1. PICK k \in 1..Len(p.traces) : /\ p.traces[k].agent = a /\ p.traces[k].hash = m.latest[a]
                                      /\ \A j \in 1..Len(p.traces) : p.traces[j].agent = a => j <= k
    BY <1>1, <1>3 DEF SameTraces
  <2>2. k \in own /\ \A j \in own : j <= k /\ j \in Nat
    BY <1>1, <2>1
  <2>3. PgxGetLatestTraceHash(p, a) = p.traces[Foremost(own, LastFirst(own))].hash
    BY <2>2 DEF PgxGetLatestTraceHash
  <2> HIDE DEF own
  <2>4. \A j \in own \ {k} : <<k, j>> \in LastFirst(own)
    BY <2>2 DEF LastFirst
  <2>5. ASSUME NEW i \in own, \A j \in own \ {i} : <<i, j>> \in LastFirst(own)
        PROVE  i = k
    <3>1. CASE i # k
      <4>1. <<i, k>> \in LastFirst(own)
        BY <2>2, <2>5, <3>1
      <4>2. i > k
        BY <4>1 DEF LastFirst
      <4> QED BY <2>2, <4>2
    <3> QED BY <3>1
  <2>6. Foremost(own, LastFirst(own)) = k
    BY <2>2, <2>4, <2>5 DEF Foremost
  <2> QED BY <2>1, <2>3, <2>6 DEF MemGetLatestTraceHash
<1> QED BY <1>2, <1>3

\* A set of row numbers that is not empty has a last one.
LEMMA LastOf ==
  ASSUME NEW n \in Nat, NEW ids, ids \subseteq 1..n, ids # {}
  PROVE  \E i \in ids : \A j \in ids : j <= i
<1> DEFINE R == {e \in Nat \X Nat : e[1] < e[2]}
           T == {k \in Nat : n - k \in ids}
<1>1. R = OpToRel(<, Nat)
  BY Zenon DEF OpToRel
<1>2. IsWellFoundedOn(R, Nat)
  BY <1>1, NatLessThanWellFounded, Zenon
<1>3. T \subseteq Nat /\ T # {}
  <2>1. PICK i \in ids : TRUE
    OBVIOUS
  <2>2. n - i \in Nat /\ n - (n - i) = i
    BY <2>1
  <2> QED BY <2>1, <2>2
<1>4. PICK k \in T : \A l \in T : <<l, k>> \notin R
  BY <1>2, <1>3, WFMin
<1>5. \A l \in T : k <= l
  <2>1. \A x, y \in Nat : x < y => <<x, y>> \in R
    OBVIOUS
  <2>2. k \in Nat /\ \A l \in T : l \in Nat
    OBVIOUS
  <2> HIDE DEF R, T
  <2>3. ASSUME NEW l \in T PROVE k <= l
    <3>1. l \in Nat /\ k \in Nat /\ ~ (<<l, k>> \in R)
      BY <1>4, <2>2
    <3>2. ~ (l < k)
      BY <2>1, <3>1
    <3> QED BY <3>1, <3>2
  <2> QED BY <2>3
<1>6. n - k \in ids /\ k \in Nat
  OBVIOUS
<1>7. ASSUME NEW j \in ids PROVE j <= n - k
  <2>1. j \in 1..n /\ n - j \in Nat /\ n - (n - j) = j
    OBVIOUS
  <2>2. n - j \in T
    BY <2>1
  <2> HIDE DEF T
  <2>3. k <= n - j
    BY <1>5, <2>2
  <2> QED BY <1>6, <2>1, <2>3
<1> QED BY <1>6, <1>7

LEMMA SameBuy ==
  ASSUME NEW p, NEW m, Agree(p, m), NEW a, NEW pair
  PROVE  /\ MemGetLatestBuyParams(m, a, pair) \subseteq PgxGetLatestBuyParams(p, a, pair)
         /\ MemGetLatestBuyParams(m, a, pair) = {} => PgxGetLatestBuyParams(p, a, pair) = {}
<1> DEFINE buys == Buys(m.trades, a, pair)
<1>1. /\ p.trades = m.trades /\ InTimeOrder(m.trades) /\ m.trades \in TradeTable
      /\ buys \subseteq 1..Len(m.trades) /\ Len(m.trades) \in Nat
  <2>1. p.trades = m.trades /\ InTimeOrder(m.trades) /\ m.trades \in TradeTable
    BY SameTables
  <2>2. buys \subseteq DOMAIN m.trades
    BY RowSets
  <2> QED BY <2>1, <2>2, TimesTyped
<1>2. /\ PgxGetLatestBuyParams(p, a, pair) = {i \in buys : \A j \in buys : m.trades[j].time <= m.trades[i].time}
      /\ MemGetLatestBuyParams(m, a, pair) = {i \in buys : \A j \in buys : j <= i}
  BY <1>1 DEF PgxGetLatestBuyParams, MemGetLatestBuyParams
<1> HIDE DEF buys
<1>3. ASSUME NEW i \in buys, NEW j \in buys, j <= i
      PROVE  m.trades[j].time <= m.trades[i].time
  <2>1. i \in 1..Len(m.trades) /\ j \in 1..Len(m.trades) /\ m.trades[i].time \in Nat
    BY <1>1, TimesTyped
  <2> QED BY <1>1, <1>3, <2>1 DEF InTimeOrder
<1>4. buys # {} => \E i \in buys : \A j \in buys : j <= i
  BY <1>1, LastOf
<1> QED BY <1>2, <1>3, <1>4

LEMMA TradesReadAlike ==
  ASSUME RepositoriesAssumption, Agree(pg, mem), NEW a \in Agents
  PROVE  SameTrades(a)
<1>1. pg.agents[a] = mem.agents[a]
  BY SameTables
<1>2. \A n \in 0..1, p \in Pairs \cup {None}, st \in {None, "fill", "reject"} :
        PgxGetTradeHistory(pg, a, n, p, st) = MemGetTradeHistory(mem, a, n, p, st)
  BY SameHistory
<1>3. /\ PgxGetPendingTrades(pg, a) = MemGetPendingTrades(mem, a)
      /\ PgxGetFilledFillIDs(pg, a) = MemGetFilledFillIDs(mem, a)
      /\ PgxGetFilledTradesWithoutEvidence(pg, a) = MemGetFilledTradesWithoutEvidence(mem, a)
      /\ PgxGetFilledTradesPendingAttestation(pg, a) = MemGetFilledTradesPendingAttestation(mem, a)
  BY SameLists
<1>4. PgxGetLatestTraceHash(pg, a) = MemGetLatestTraceHash(mem, a)
  BY SameLatestTrace
<1>5. /\ PgxGetDayStartValue(pg, a) = MemGetDayStartValue(mem, a)
      /\ PgxGetRollingPeak24h(pg, a) = MemGetRollingPeak24h(mem, a)
  BY SameValues
<1>6. PgxGetOpenPositions(pg, a) = MemGetOpenPositions(mem, a)
  BY SamePositions
<1>7. PgxComputeEquity(pg, a) = MemComputeEquity(mem, a) /\ PgxComputeMetrics(pg, a) = MemComputeMetrics(mem, a)
  BY SameFigures
<1>8. \A p \in Pairs : /\ MemGetLatestBuyParams(mem, a, p) \subseteq PgxGetLatestBuyParams(pg, a, p)
                       /\ MemGetLatestBuyParams(mem, a, p) = {} => PgxGetLatestBuyParams(pg, a, p) = {}
  BY SameBuy
<1> QED BY <1>1, <1>2, <1>3, <1>4, <1>5, <1>6, <1>7, <1>8 DEF SameTrades

\* The rows of the alerts that are in one set.
LEMMA SameAlertRows ==
  ASSUME NEW p, NEW m, p.alerts = m.alerts, NEW xs
  PROVE  AlertRows(p, xs) = AlertRows(m, xs)
BY DEF AlertRows

LEMMA ActiveAlike ==
  ASSUME NEW p, NEW m, Agree(p, m), NEW a, NEW sv \in {"trading", "time"}
  PROVE  /\ PgxGetActiveAlerts(p, a, sv) = MemGetActiveAlerts(m, a, sv)
         /\ PgxCountActiveAlerts(p, a, sv) = MemCountActiveAlerts(m, a, sv)
<1>1. p.alerts = m.alerts /\ \A x \in Alerts : m.alerts[x].status = "active" => ~ m.alerts[x].expired
  BY SameTables DEF Calm, NoAlert, None
<1>2. AlertIds(p, LAMBDA r : r.status = "active" /\ ~ r.expired /\ a \in {None, r.agent} /\ r.service = sv)
      = AlertIds(m, LAMBDA r : r.status = "active" /\ a \in {None, r.agent} /\ sv \in {None, r.service})
  BY <1>1 DEF AlertIds, None
<1>3. AlertIds(p, LAMBDA r : r.status = "active" /\ ~ r.expired /\ r.agent = a /\ r.service = sv)
      = AlertIds(m, LAMBDA r : r.status = "active" /\ r.agent = a /\ r.service = sv)
  BY <1>1 DEF AlertIds, None
<1>4. PgxGetActiveAlerts(p, a, sv) = MemGetActiveAlerts(m, a, sv)
  BY <1>1, <1>2, SameAlertRows DEF PgxGetActiveAlerts, MemGetActiveAlerts
<1>5. PgxCountActiveAlerts(p, a, sv) = MemCountActiveAlerts(m, a, sv)
  BY <1>3 DEF PgxCountActiveAlerts, MemCountActiveAlerts
<1> QED BY <1>4, <1>5

LEMMA ToldAlike ==
  ASSUME NEW p, NEW m, Agree(p, m), NEW a, NEW sv
  PROVE  /\ PgxGetFailedAlerts(p, a, sv) = MemGetFailedAlerts(m, a, sv)
         /\ PgxGetTriggeredAlerts(p, a) = MemGetTriggeredAlerts(m, a)
         /\ PgxGetDueTimeAlerts(p) = MemGetDueTimeAlerts(m)
<1>1. /\ p.alerts = m.alerts
      /\ \A x \in Alerts : /\ m.alerts[x].status = "active" => ~ m.alerts[x].expired
                           /\ m.alerts[x].status \in {None, "active", "exhausted", "cancelled", "failed"}
  <2>1. p.alerts = m.alerts /\ m.alerts \in AlertTable /\ Calm(m.alerts)
    BY SameTables
  <2>2. \A x \in Alerts : m.alerts[x].status = "active" => ~ m.alerts[x].expired
    BY <2>1 DEF Calm, NoAlert, None
  <2>3. \A x \in Alerts : m.alerts[x].status \in {None, "active", "exhausted", "cancelled", "failed"}
    BY <2>1, AlertKinds DEF AlertRow
  <2> QED BY <2>1, <2>2, <2>3
<1>2. AlertIds(p, LAMBDA r : r.agent = a /\ r.service = sv /\ r.status = "failed")
      = AlertIds(m, LAMBDA r : r.agent = a /\ r.service = sv /\ r.status = "failed")
  BY <1>1 DEF AlertIds
<1>3. AlertIds(p, LAMBDA r : r.agent = a /\ r.told /\ r.status # "cancelled")
      = AlertIds(m, LAMBDA r : r.agent = a /\ r.told /\ r.status \in {"active", "exhausted", "failed"})
  BY <1>1 DEF AlertIds
<1>4. AlertIds(p, LAMBDA r : r.service = "time" /\ r.status = "active" /\ r.due /\ ~ r.expired)
      = AlertIds(m, LAMBDA r : r.service = "time" /\ r.status = "active" /\ r.due)
  BY <1>1 DEF AlertIds
<1>5. PgxGetFailedAlerts(p, a, sv) = MemGetFailedAlerts(m, a, sv)
  BY <1>1, <1>2, SameAlertRows DEF PgxGetFailedAlerts, MemGetFailedAlerts
<1>6. PgxGetTriggeredAlerts(p, a) = MemGetTriggeredAlerts(m, a)
  BY <1>1, <1>3, SameAlertRows DEF PgxGetTriggeredAlerts, MemGetTriggeredAlerts
<1>7. PgxGetDueTimeAlerts(p) = MemGetDueTimeAlerts(m)
  BY <1>1, <1>4, SameAlertRows DEF PgxGetDueTimeAlerts, MemGetDueTimeAlerts
<1> QED BY <1>5, <1>6, <1>7

LEMMA AlertsReadAlike ==
  ASSUME Agree(pg, mem), NEW a
  PROVE  SameAlerts(a)
<1>1. ASSUME NEW sv \in {"trading", "time"}
      PROVE  /\ PgxGetActiveAlerts(pg, a, sv) = MemGetActiveAlerts(mem, a, sv)
             /\ PgxCountActiveAlerts(pg, a, sv) = MemCountActiveAlerts(mem, a, sv)
             /\ PgxGetFailedAlerts(pg, a, sv) = MemGetFailedAlerts(mem, a, sv)
  BY ActiveAlike, ToldAlike
<1>2. PgxGetTriggeredAlerts(pg, a) = MemGetTriggeredAlerts(mem, a)
  BY ToldAlike
<1> QED BY <1>1, <1>2 DEF SameAlerts

\* What the tests see on MemRepository is what the servers see on Postgres, after any calls of
\* callers that keep to what the service does.
THEOREM RepositoriesAgree ==
  ASSUME RepositoriesAssumption, Disciplined = TRUE
  PROVE  Spec => []SameAnswers
<1>1. ASSUME Inv PROVE SameAnswers
  <2>1. Agree(pg, mem) /\ answer.pg = answer.mem
    BY <1>1 DEF Inv
  <2>2. \A a \in Agents : SameTrades(a) /\ SameAlerts(a)
    BY <2>1, TradesReadAlike, AlertsReadAlike
  <2>3. PgxGetPendingTrades(pg, None) = MemGetPendingTrades(mem, None)
    BY <2>1, SameLists
  <2>4. \A h \in Hashes : PgxGetTrace(pg, h) = MemGetTrace(mem, h)
    BY <2>1, SameTraceOf
  <2>5. \A sv \in {"trading", "time"} : PgxGetActiveAlerts(pg, None, sv) = MemGetActiveAlerts(mem, None, sv)
    BY <2>1, ActiveAlike
  <2>6. PgxGetDueTimeAlerts(pg) = MemGetDueTimeAlerts(mem)
    BY <2>1, ToldAlike
  <2> QED BY <2>1, <2>2, <2>3, <2>4, <2>5, <2>6 DEF SameAnswers
<1> QED BY <1>1, InvHolds, PTL
=============================================================================
