---------------------------- MODULE Repositories ----------------------------
(***************************************************************************)
(* The two implementations of db.Repository side by side: PgxRepository,   *)
(* which the servers use, and MemRepository, on which the tests of the     *)
(* trading service run.  Every call is made on both; what both answer, and *)
(* what every query then reads, is compared.                               *)
(*                                                                         *)
(* A call is one statement or transaction, so the calls of concurrent      *)
(* clients are some sequence of calls.  Prices are 1; a trade's pnl and    *)
(* value_after are its caller's.  The trade tables and the alerts table    *)
(* share nothing, so a behaviour calls the operations of one of them.      *)
(***************************************************************************)
EXTENDS Integers, Sequences, FiniteSets, SequencesExt

CONSTANTS
  Agents, Pairs, Fills, Hashes,
  Alerts, Groups,    \* Groups may hold "": an alert without group_id
  Deals,             \* what a fill changes: [side, qty, delta, pnl, after]
  Areas,             \* of {"trades", "alerts"}
  Disciplined,       \* do callers keep to what the service does? (see Allowed...)
  MaxRows, MaxTimes  \* bounds: rows, and how often an alert fires

VARIABLES
  pg, mem,           \* what the two implementations store
  answer,            \* what each of them returned for the last call
  area

vars == <<pg, mem, answer, area>>

None == "none"
InitialCash == 2
Today == 2           \* rows with a smaller time are yesterday's

ASSUME RepositoriesAssumption ==
  /\ Areas \subseteq {"trades", "alerts"} /\ Disciplined \in BOOLEAN
  /\ MaxRows \in Nat /\ MaxTimes \in Nat
  /\ Deals \subseteq [side : {"buy", "sell"}, qty : Nat, delta : Int, pnl : Int, after : Int]
  /\ None \notin Fills \cup Hashes \cup Agents

Did(st, ans) == [st |-> st, ans |-> ans]
Upper(a, b) == IF a > b THEN a ELSE b

-----------------------------------------------------------------------------
(* Agent state. *)

Agent == [known |-> TRUE, cash |-> InitialCash, initial |-> InitialCash, peak |-> InitialCash,
          fills |-> 0, rejects |-> 0, halted |-> FALSE]
NoAgent == [Agent EXCEPT !.known = FALSE]

PgxGetOrCreateAgent(s, a) ==
  Did(IF ~ s.agents[a].known THEN [s EXCEPT !.agents[a] = Agent] ELSE s, "ok")
MemGetOrCreateAgent(s, a) ==
  Did(IF ~ s.agents[a].known THEN [s EXCEPT !.agents[a] = Agent] ELSE s, "ok")

PgxSetAgentHalted(s, a, h) ==
  IF ~ s.agents[a].known THEN Did(s, "error") ELSE Did([s EXCEPT !.agents[a].halted = h], "ok")
MemSetAgentHalted(s, a, h) ==
  IF ~ s.agents[a].known THEN Did(s, "error") ELSE Did([s EXCEPT !.agents[a].halted = h], "ok")

\* An unknown agent is an error in memory and no row to update in SQL.
PgxUpdatePeakValue(s, a, v) ==
  Did(IF s.agents[a].known /\ s.agents[a].peak < v
      THEN [s EXCEPT !.agents[a].peak = v] ELSE s, "ok")
MemUpdatePeakValue(s, a, v) ==
  IF ~ s.agents[a].known THEN Did(s, "error")
  ELSE Did([s EXCEPT !.agents[a].peak = Upper(@, v)], "ok")

\* The deltas of a StateUpdate; callers have looked at the cash.
Moved(g, d, fills, rejects) ==
  [g EXCEPT !.cash = @ + d.delta, !.peak = Upper(@, d.after),
            !.fills = @ + fills, !.rejects = @ + rejects]

-----------------------------------------------------------------------------
(* The trades table. *)

NoEvidence == [att |-> None, chained |-> FALSE]
Row(a, p, t, d, st, f) ==
  [agent |-> a, pair |-> p, time |-> t, side |-> d.side, qty |-> d.qty, pnl |-> d.pnl,
   after |-> d.after, status |-> st, fill |-> f, hash |-> None, evidence |-> NoEvidence]
Rejected(row, d) == [row EXCEPT !.after = 0, !.pnl = 0]

\* idx_trades_agent_fill_id: a fill is in one row of an agent (MemRepository has no such index).
FillTaken(s, a, f, i) ==
  f # None /\ \E j \in DOMAIN s.trades \ {i} : s.trades[j].agent = a /\ s.trades[j].fill = f

PgxInsertTrade(s, row) ==
  IF FillTaken(s, row.agent, row.fill, 0) THEN Did(s, "error")
  ELSE Did([s EXCEPT !.trades = Append(@, row)], "ok")
MemInsertTrade(s, row) == Did([s EXCEPT !.trades = Append(@, row)], "ok")

\* One transaction: the guard on the cash, the deltas, the row.
PgxRecordTrade(s, row, d, fills, rejects) ==
  LET g == s.agents[row.agent] IN
  IF ~ g.known \/ FillTaken(s, row.agent, row.fill, 0) THEN Did(s, "error")
  ELSE IF g.cash + d.delta < 0 THEN Did(s, "error")
  ELSE Did([s EXCEPT !.agents[row.agent] = Moved(g, d, fills, rejects),
                     !.trades = Append(@, row)], "ok")

\* Mutant: the row is added before the cash is looked at.
MemRecordTradeRowFirst(s, row, d, fills, rejects) ==
  LET g == s.agents[row.agent]
      added == [s EXCEPT !.trades = Append(@, row)] IN
  IF ~ g.known \/ g.cash + d.delta < 0 THEN Did(added, "error")
  ELSE Did([added EXCEPT !.agents[row.agent] = Moved(g, d, fills, rejects)], "ok")

MemRecordTrade(s, row, d, fills, rejects) ==
  LET g == s.agents[row.agent] IN
  IF ~ g.known THEN Did(s, "error")
  ELSE IF g.cash + d.delta < 0 THEN Did(s, "error")
  ELSE Did([s EXCEPT !.agents[row.agent] = Moved(g, d, fills, rejects),
                     !.trades = Append(@, row)], "ok")

PgxRejectPendingTrade(s, a, i) ==
  IF s.trades[i].status # "pending" THEN Did(s, "ok")
  ELSE Did([s EXCEPT !.trades[i].status = "reject",
                     !.agents[a].rejects = IF s.agents[a].known THEN @ + 1 ELSE @], "ok")
MemRejectPendingTrade(s, a, i) ==
  IF s.trades[i].status # "pending" THEN Did(s, "ok")
  ELSE Did([s EXCEPT !.trades[i].status = "reject",
                     !.agents[a].rejects = IF s.agents[a].known THEN @ + 1 ELSE @], "ok")

Filled(row, d, f, h) ==
  [row EXCEPT !.status = "fill", !.qty = d.qty, !.pnl = d.pnl,
              !.after = d.after, !.fill = f, !.hash = IF h = None THEN @ ELSE h,
              !.evidence.chained = @ \/ h # None]

\* A refused row update rolls the state update back.
PgxFinalizeTrade(s, a, i, d, f, h) ==
  LET g == s.agents[a] IN
  IF ~ g.known THEN Did(s, "error")
  ELSE IF g.cash + d.delta < 0 \/ s.trades[i].status # "pending" \/ FillTaken(s, a, f, i)
  THEN Did(s, "error")
  ELSE Did([s EXCEPT !.agents[a] = Moved(g, d, 1, 0), !.trades[i] = Filled(@, d, f, h),
                     !.traces = IF h = None \/ \E k \in DOMAIN @ : @[k].hash = h THEN @
                                ELSE Append(@, [hash |-> h, agent |-> a])], "ok")

\* The state update comes first and stays, also when no pending row is found.
MemFinalizeTrade(s, a, i, d, f, h) ==
  LET g == s.agents[a]
      paid == [s EXCEPT !.agents[a] = Moved(g, d, 1, 0)] IN
  IF ~ g.known THEN Did(s, "error")
  ELSE IF g.cash + d.delta < 0 THEN Did(s, "error")
  ELSE IF s.trades[i].status # "pending" THEN Did(paid, "error")
  ELSE Did([paid EXCEPT !.trades[i] = Filled(@, d, f, h),
                        !.traces = IF h = None THEN @ ELSE [@ EXCEPT ![h] = a],
                        !.latest = IF h = None THEN @ ELSE [@ EXCEPT ![a] = h]], "ok")

\* jsonb || merges the top-level keys; so does the loop over the map.
PgxUpdateEvidence(s, i, att) ==
  IF i \notin DOMAIN s.trades THEN Did(s, "error")
  ELSE Did([s EXCEPT !.trades[i].evidence.att = att], "ok")
MemUpdateEvidence(s, i, att) ==
  IF i \notin DOMAIN s.trades THEN Did(s, "error")
  ELSE Did([s EXCEPT !.trades[i].evidence.att = att], "ok")

\* Every row of the fill without a hash in SQL, the first one in memory.
Unhashed(s, f) == {i \in DOMAIN s.trades : s.trades[i].fill = f /\ s.trades[i].hash = None}
PgxUpdateTradeHash(s, f, h) ==
  Did([s EXCEPT !.trades = [i \in DOMAIN @ |-> IF i \in Unhashed(s, f)
                                               THEN [@[i] EXCEPT !.hash = h] ELSE @[i]]], "ok")
MemUpdateTradeHash(s, f, h) ==
  LET hit == Unhashed(s, f)
      first == CHOOSE i \in hit : \A j \in hit : i <= j IN
  Did(IF hit = {} THEN s ELSE [s EXCEPT !.trades[first].hash = h], "ok")

PgxInsertTrace(s, a, h) ==
  Did(IF \E k \in DOMAIN s.traces : s.traces[k].hash = h THEN s
      ELSE [s EXCEPT !.traces = Append(@, [hash |-> h, agent |-> a])], "ok")
MemInsertTrace(s, a, h) ==
  Did(IF s.traces[h] # None THEN s ELSE [s EXCEPT !.traces[h] = a, !.latest[a] = h], "ok")

-----------------------------------------------------------------------------
(* Queries on trades.  SQL orders by timestamp and id, memory by insertion. *)

Newer(trades, i, j) == \/ trades[i].time > trades[j].time
                       \/ trades[i].time = trades[j].time /\ i > j
NewestFirst(trades, ids) == {e \in ids \X ids : Newer(trades, e[1], e[2])}
OldestFirst(trades, ids) == {e \in ids \X ids : Newer(trades, e[2], e[1])}
LastFirst(ids) == {e \in ids \X ids : e[1] > e[2]}
FirstFirst(ids) == {e \in ids \X ids : e[1] < e[2]}
InOrder(ids, before) == SetToSortSeq(ids, LAMBDA i, j : <<i, j>> \in before)
Foremost(ids, before) == CHOOSE i \in ids : \A j \in ids \ {i} : <<i, j>> \in before

Ids(trades, Test(_)) == {i \in DOMAIN trades : Test(trades[i])}
Rows(trades, ids) == [k \in DOMAIN ids |-> [id |-> ids[k], row |-> trades[ids[k]]]]
Cut(q, n) == IF n > 0 /\ Len(q) > n THEN SubSeq(q, 1, n) ELSE q

History(trades, a, p, st) ==
  Ids(trades, LAMBDA r : r.agent = a /\ p \in {None, r.pair} /\ st \in {None, r.status})
PgxGetTradeHistory(s, a, limit, p, st) ==
  LET ids == History(s.trades, a, p, st) IN
  Rows(s.trades, Cut(InOrder(ids, NewestFirst(s.trades, ids)), limit))
MemGetTradeHistory(s, a, limit, p, st) ==
  LET ids == History(s.trades, a, p, st) IN
  Rows(s.trades, Cut(InOrder(ids, LastFirst(ids)), limit))

\* In SQL ordered by id, in memory read from the first.
Listed(trades, ids) == Rows(trades, InOrder(ids, FirstFirst(ids)))
PgxGetPendingTrades(s, a) ==
  Listed(s.trades, Ids(s.trades, LAMBDA r : r.status = "pending" /\ a \in {None, r.agent}))
MemGetPendingTrades(s, a) ==
  Listed(s.trades, Ids(s.trades, LAMBDA r : r.status = "pending" /\ a \in {None, r.agent}))

FillsOf(trades, a) == Ids(trades, LAMBDA r : r.agent = a /\ r.status = "fill")
PgxGetFilledFillIDs(s, a) ==
  {f \in Fills : \E i \in FillsOf(s.trades, a) : s.trades[i].fill = f}
MemGetFilledFillIDs(s, a) ==
  {f \in Fills : \E i \in FillsOf(s.trades, a) : s.trades[i].fill = f}

Chained(row) == row.evidence.chained
PgxGetFilledTradesWithoutEvidence(s, a) ==
  Listed(s.trades, {i \in FillsOf(s.trades, a) : ~ Chained(s.trades[i])})
MemGetFilledTradesWithoutEvidence(s, a) ==
  Listed(s.trades, {i \in FillsOf(s.trades, a) : ~ Chained(s.trades[i])})

Recoverable == {None, "pending", "pending_confirm", "waiting_for_gas"}
PgxGetFilledTradesPendingAttestation(s, a) ==
  Listed(s.trades, {i \in FillsOf(s.trades, a) : s.trades[i].evidence.att \in Recoverable})
MemGetFilledTradesPendingAttestation(s, a) ==
  Listed(s.trades, {i \in FillsOf(s.trades, a) : s.trades[i].evidence.att \in Recoverable})

PgxGetTrace(s, h) ==
  LET hit == {k \in DOMAIN s.traces : s.traces[k].hash = h} IN
  IF hit = {} THEN None ELSE s.traces[CHOOSE k \in hit : TRUE].agent
MemGetTrace(s, h) == s.traces[h]

\* ORDER BY seq DESC LIMIT 1.
PgxGetLatestTraceHash(s, a) ==
  LET own == {k \in DOMAIN s.traces : s.traces[k].agent = a} IN
  IF own = {} THEN None ELSE s.traces[Foremost(own, LastFirst(own))].hash
MemGetLatestTraceHash(s, a) == s.latest[a]

Valued(trades, a) == {i \in FillsOf(trades, a) : trades[i].after > 0}
PgxGetDayStartValue(s, a) ==
  LET old == {i \in Valued(s.trades, a) : s.trades[i].time < Today} IN
  IF old = {} THEN 0 ELSE s.trades[Foremost(old, NewestFirst(s.trades, old))].after
MemGetDayStartValue(s, a) ==
  LET old == {i \in Valued(s.trades, a) : s.trades[i].time < Today} IN
  IF old = {} THEN 0 ELSE s.trades[Foremost(old, LastFirst(old))].after

\* No row is exactly 24 hours old.
HighestAfter(trades, ids) == FoldSet(LAMBDA i, m : Upper(trades[i].after, m), 0, ids)
PgxGetRollingPeak24h(s, a) == HighestAfter(s.trades, {i \in Valued(s.trades, a) : s.trades[i].time >= Today})
MemGetRollingPeak24h(s, a) == HighestAfter(s.trades, {i \in Valued(s.trades, a) : ~ s.trades[i].time < Today})

\* A sell takes at most what is held.  The threshold below which a position is
\* closed is less than one unit here, and at price 1 the cost basis is the quantity.
Held(trades, ids, p) ==
  FoldLeft(LAMBDA q, i : LET r == trades[i] IN
             IF r.pair # p THEN q ELSE IF r.side = "buy" THEN q + r.qty
             ELSE IF r.qty >= q THEN 0 ELSE q - r.qty, 0, ids)
PgxGetOpenPositions(s, a) ==
  LET ids == FillsOf(s.trades, a) IN [p \in Pairs |-> Held(s.trades, InOrder(ids, OldestFirst(s.trades, ids)), p)]
MemGetOpenPositions(s, a) ==
  LET ids == FillsOf(s.trades, a) IN [p \in Pairs |-> Held(s.trades, InOrder(ids, FirstFirst(ids)), p)]

\* Cash plus positions; a pair without a price counts at cost, which at price 1 is the same.
Equity(g, positions) == g.cash + FoldFunction(+, 0, positions)
PgxComputeEquity(s, a) ==
  IF ~ s.agents[a].known THEN << >> ELSE <<Equity(s.agents[a], PgxGetOpenPositions(s, a))>>
MemComputeEquity(s, a) ==
  IF ~ s.agents[a].known THEN << >> ELSE <<Equity(s.agents[a], MemGetOpenPositions(s, a))>>

\* The worst fall of the equity curve below its running peak, as <<fall, peak>>;
\* won and closed sells; fills and rejects.
Deeper(x, y) == x[1] * y[2] > y[1] * x[2]
computeMetricsFromTrades(history, g, equity) ==
  LET run == FoldLeft(LAMBDA m, h :
               IF h.row.after <= 0 THEN m
               ELSE LET top == Upper(m.peak, h.row.after)
                        fall == <<top - h.row.after, top>>
                    IN [peak |-> top, worst |-> IF Deeper(fall, m.worst) THEN fall ELSE m.worst],
               [peak |-> g.initial, worst |-> <<0, 1>>], history)
      sells == SelectSeq(history, LAMBDA h : h.row.side = "sell" /\ h.row.qty > 0)
  IN [gain |-> equity - g.initial, drawdown |-> run.worst, closes |-> Len(sells),
      returns |-> [k \in DOMAIN sells |-> <<sells[k].row.pnl, sells[k].row.qty>>],
      wins |-> Len(SelectSeq(sells, LAMBDA h : h.row.pnl > 0)),
      fills |-> g.fills, rejects |-> g.rejects]
PgxComputeMetrics(s, a) ==
  IF ~ s.agents[a].known THEN << >>
  ELSE <<computeMetricsFromTrades(Reverse(PgxGetTradeHistory(s, a, 0, None, "fill")), s.agents[a],
                                 PgxComputeEquity(s, a)[1])>>
MemComputeMetrics(s, a) ==
  IF ~ s.agents[a].known THEN << >>
  ELSE <<computeMetricsFromTrades(Reverse(MemGetTradeHistory(s, a, 0, None, "fill")), s.agents[a],
                                 MemComputeEquity(s, a)[1])>>

\* The newest filled buy with params (every row has them here), as a set.  SQL orders by the
\* timestamp alone, so of several it may return any.
Buys(trades, a, p) == {i \in FillsOf(trades, a) : trades[i].pair = p /\ trades[i].side = "buy"}
PgxGetLatestBuyParams(s, a, p) ==
  LET buys == Buys(s.trades, a, p) IN {i \in buys : \A j \in buys : s.trades[j].time <= s.trades[i].time}
MemGetLatestBuyParams(s, a, p) ==
  LET buys == Buys(s.trades, a, p) IN {i \in buys : \A j \in buys : j <= i}

-----------------------------------------------------------------------------
(* The alerts table. *)

\* What a caller passes; on_trigger, note and prompt are written as given.
NewAlert(a, sv, p, n, g, due, exp) ==
  [agent |-> a, service |-> sv, status |-> "active", pair |-> p, max |-> n, count |-> 0,
   group |-> g, due |-> due, expired |-> exp, told |-> FALSE, price |-> FALSE]
NoAlert == [status |-> None]

\* An alert with the same id is overwritten as long as it is active: some of its
\* columns in SQL, the whole record in memory.
PgxUpsertAlert(s, x, new) ==
  LET old == s.alerts[x] IN
  IF old.status = None THEN Did([s EXCEPT !.alerts[x] = new], "ok")
  ELSE IF old.status # "active" THEN Did(s, "not active")
  ELSE Did([s EXCEPT !.alerts[x] = [new EXCEPT !.agent = old.agent, !.service = old.service,
                                               !.count = old.count, !.told = old.told]], "ok")
MemUpsertAlert(s, x, new) ==
  LET old == s.alerts[x] IN
  IF old.status = None THEN Did([s EXCEPT !.alerts[x] = new], "ok")
  ELSE IF old.status # "active" THEN Did(s, "not active")
  ELSE Did([s EXCEPT !.alerts[x] = new], "ok")

Triggered(al, priced) ==
  [al EXCEPT !.told = TRUE, !.count = @ + 1, !.price = @ \/ priced,
             !.status = IF al.max > 0 /\ al.count + 1 >= al.max THEN "exhausted" ELSE @]
Is(s, x, st) == s.alerts[x].status \in st
PgxMarkAlertTriggered(s, x, priced) ==
  IF ~ Is(s, x, {"active"}) THEN Did(s, "lost")
  ELSE Did([s EXCEPT !.alerts[x] = Triggered(@, priced)], "claimed")
\* Mutant: the second of two claims is not refused.
MemMarkAlertTriggeredTwice(s, x, priced) ==
  IF ~ Is(s, x, {"active", "exhausted"}) THEN Did(s, "lost")
  ELSE Did([s EXCEPT !.alerts[x] = Triggered(@, priced)], "claimed")

MemMarkAlertTriggered(s, x, priced) ==
  IF ~ Is(s, x, {"active"}) THEN Did(s, "lost")
  ELSE Did([s EXCEPT !.alerts[x] = Triggered(@, priced)], "claimed")

PgxCancelAlert(s, a, x) ==
  IF ~ Is(s, x, {"active", "exhausted"}) THEN Did(s, "error")
  ELSE IF s.alerts[x].agent # a THEN Did(s, "error")
  ELSE Did([s EXCEPT !.alerts[x].status = "cancelled"], "ok")
MemCancelAlert(s, a, x) ==
  IF s.alerts[x].status = None THEN Did(s, "error")
  ELSE IF s.alerts[x].agent # a THEN Did(s, "error")
  ELSE IF s.alerts[x].status \notin {"active", "exhausted"} THEN Did(s, "error")
  ELSE Did([s EXCEPT !.alerts[x].status = "cancelled"], "ok")

PgxAckTriggeredAlerts(s, xs) ==
  Did([s EXCEPT !.alerts = [x \in Alerts |-> IF x \in xs /\ @[x] # NoAlert
                                             THEN [@[x] EXCEPT !.told = FALSE] ELSE @[x]]], "ok")
MemAckTriggeredAlerts(s, xs) ==
  Did([s EXCEPT !.alerts = [x \in Alerts |-> IF x \in xs /\ @[x] # NoAlert
                                             THEN [@[x] EXCEPT !.told = FALSE] ELSE @[x]]], "ok")

PgxFailAlert(s, x) ==
  IF s.alerts[x].status = None THEN Did(s, "ok")
  ELSE Did([s EXCEPT !.alerts[x].status = "failed", !.alerts[x].told = TRUE], "ok")
MemFailAlert(s, x) ==
  IF s.alerts[x].status = None THEN Did(s, "error")
  ELSE Did([s EXCEPT !.alerts[x].status = "failed", !.alerts[x].told = TRUE], "ok")

\* Every alert that passes Test gets status st; one set active has no notice.
Turned(s, Test(_), st) ==
  [s EXCEPT !.alerts = [x \in Alerts |->
     LET al == s.alerts[x] IN
     IF al.status = None \/ ~ Test(x) THEN al
     ELSE [al EXCEPT !.status = st, !.told = al.told /\ st # "active"]]]

PgxCancelActiveAlertsForPair(s, a, p) ==
  Did(Turned(s, LAMBDA x : /\ s.alerts[x].agent = a /\ s.alerts[x].service = "trading"
                           /\ s.alerts[x].status = "active" /\ s.alerts[x].pair = p, "cancelled"), "ok")
MemCancelActiveAlertsForPair(s, a, p) ==
  Did(Turned(s, LAMBDA x : /\ s.alerts[x].agent = a
                           /\ s.alerts[x].status = "active" /\ s.alerts[x].pair = p, "cancelled"), "ok")

\* "" is NULL in SQL, which equals nothing.
PgxCancelAlertsByGroup(s, a, g, x0) ==
  Did(Turned(s, LAMBDA x : /\ s.alerts[x].agent = a /\ s.alerts[x].status = "active"
                           /\ s.alerts[x].group = g /\ g # "" /\ x # x0, "cancelled"), "ok")
MemCancelAlertsByGroup(s, a, g, x0) ==
  Did(Turned(s, LAMBDA x : /\ s.alerts[x].agent = a /\ s.alerts[x].status = "active"
                           /\ s.alerts[x].group = g /\ x # x0, "cancelled"), "ok")
PgxRestoreCancelledSiblings(s, a, g, x0) ==
  Did(Turned(s, LAMBDA x : /\ s.alerts[x].agent = a /\ s.alerts[x].status = "cancelled"
                           /\ s.alerts[x].group = g /\ g # "" /\ x # x0, "active"), "ok")
MemRestoreCancelledSiblings(s, a, g, x0) ==
  Did(Turned(s, LAMBDA x : /\ s.alerts[x].agent = a /\ s.alerts[x].status = "cancelled"
                           /\ s.alerts[x].group = g /\ x # x0, "active"), "ok")

AlertIds(s, Test(_)) == {x \in Alerts : s.alerts[x].status # None /\ Test(s.alerts[x])}
AlertRows(s, xs) == {[id |-> x, row |-> s.alerts[x]] : x \in xs}
PgxGetActiveAlerts(s, a, sv) ==
  AlertRows(s, AlertIds(s, LAMBDA r : /\ r.status = "active" /\ ~ r.expired
                                      /\ a \in {None, r.agent} /\ r.service = sv))
MemGetActiveAlerts(s, a, sv) ==
  AlertRows(s, AlertIds(s, LAMBDA r : /\ r.status = "active"
                                      /\ a \in {None, r.agent} /\ sv \in {None, r.service}))
PgxCountActiveAlerts(s, a, sv) ==
  Cardinality(AlertIds(s, LAMBDA r : /\ r.status = "active" /\ ~ r.expired
                                     /\ r.agent = a /\ r.service = sv))
MemCountActiveAlerts(s, a, sv) ==
  Cardinality(AlertIds(s, LAMBDA r : r.status = "active" /\ r.agent = a /\ r.service = sv))

\* A reminder that has just expired is still due in SQL (one minute of grace).
PgxGetDueTimeAlerts(s) ==
  AlertRows(s, AlertIds(s, LAMBDA r : r.service = "time" /\ r.status = "active" /\ r.due /\ ~ r.expired))
MemGetDueTimeAlerts(s) ==
  AlertRows(s, AlertIds(s, LAMBDA r : r.service = "time" /\ r.status = "active" /\ r.due))
PgxGetTriggeredAlerts(s, a) ==
  AlertRows(s, AlertIds(s, LAMBDA r : r.agent = a /\ r.told /\ r.status # "cancelled"))
MemGetTriggeredAlerts(s, a) ==
  AlertRows(s, AlertIds(s, LAMBDA r : r.agent = a /\ r.told /\ r.status \in {"active", "exhausted", "failed"}))
PgxGetFailedAlerts(s, a, sv) ==
  AlertRows(s, AlertIds(s, LAMBDA r : r.agent = a /\ r.service = sv /\ r.status = "failed"))
MemGetFailedAlerts(s, a, sv) ==
  AlertRows(s, AlertIds(s, LAMBDA r : r.agent = a /\ r.service = sv /\ r.status = "failed"))

-----------------------------------------------------------------------------
(* Calls.  With Disciplined, a caller                                        *)
(*  - knows the agent, finalizes a pending row, and books a fill and a trace *)
(*    that no row has: the trading service does, under the agent's lock;     *)
(*  - records rows in the order of their time: true of the service's calls,  *)
(*    not of an orphan fill that its reconciliation finds later;             *)
(*  - stores an alert under a new id or one that never fired, with a group   *)
(*    where it uses groups and without an expiry, and cancels by pair where  *)
(*    only trading alerts are active: what conditional orders do.            *)

Allowed(rule) == Disciplined => rule
FreshFill(f) == \A i \in DOMAIN mem.trades : f = None \/ mem.trades[i].fill # f
Latest(t) == \A i \in DOMAIN mem.trades : mem.trades[i].time <= t
Times == 1..MaxRows

Call(kind, p, m) ==
  /\ area = kind
  /\ pg' = p.st /\ mem' = m.st /\ answer' = [pg |-> p.ans, mem |-> m.ans]
  /\ UNCHANGED area

StateCall(a) ==
  \/ Call("trades", PgxGetOrCreateAgent(pg, a), MemGetOrCreateAgent(mem, a))
  \/ \E h \in BOOLEAN : Call("trades", PgxSetAgentHalted(pg, a, h), MemSetAgentHalted(mem, a, h))
  \/ \E d \in Deals : /\ Allowed(mem.agents[a].known)
                       /\ Call("trades", PgxUpdatePeakValue(pg, a, d.after), MemUpdatePeakValue(mem, a, d.after))

\* A row is inserted pending, or rejected before anything was sent.
InsertTrade(a, p, d, t) ==
  /\ Len(mem.trades) < MaxRows /\ Allowed(Latest(t))
  /\ \E st \in {"pending", "reject"} :
       LET row == Rejected(Row(a, p, t, d, st, None), d) IN
       Call("trades", PgxInsertTrade(pg, row), MemInsertTrade(mem, row))

\* A fill that has no row, or a refusal counted with its row.
RecordTrade(a, p, d, t, f) ==
  /\ Len(mem.trades) < MaxRows /\ Allowed(Latest(t) /\ FreshFill(f))
  /\ LET row == IF f = None THEN Rejected(Row(a, p, t, d, "reject", f), d)
                ELSE Row(a, p, t, d, "fill", f)
         did == IF f = None THEN [d EXCEPT !.delta = 0, !.after = 0] ELSE d
         n == IF f = None THEN 0 ELSE 1
     IN Call("trades", PgxRecordTrade(pg, row, did, n, 1 - n), MemRecordTrade(mem, row, did, n, 1 - n))

FinalizeTrade(i, d, f, h) ==
  /\ d.side = mem.trades[i].side
  /\ Allowed(/\ mem.trades[i].status = "pending" /\ FreshFill(f)
             /\ h \in {None} \cup {k \in Hashes : mem.traces[k] = None})
  /\ LET a == mem.trades[i].agent IN
     Call("trades", PgxFinalizeTrade(pg, a, i, d, f, h), MemFinalizeTrade(mem, a, i, d, f, h))

RowCall(i) ==
  LET a == mem.trades[i].agent IN
  \/ Call("trades", PgxRejectPendingTrade(pg, a, i), MemRejectPendingTrade(mem, a, i))
  \/ \E d \in Deals, f \in Fills, h \in Hashes \cup {None} : FinalizeTrade(i, d, f, h)
  \/ \E att \in {"pending", "success"} :
        Call("trades", PgxUpdateEvidence(pg, i, att), MemUpdateEvidence(mem, i, att))

HashCall(h) ==
  \/ \E f \in Fills : Call("trades", PgxUpdateTradeHash(pg, f, h), MemUpdateTradeHash(mem, f, h))
  \/ \E a \in Agents : Call("trades", PgxInsertTrace(pg, a, h), MemInsertTrace(mem, a, h))

UpsertAlert(x) ==
  \E a \in Agents, sv \in {"trading", "time"}, p \in Pairs, n \in 0..1, g \in Groups, late \in BOOLEAN :
    LET new == NewAlert(a, sv, p, n, g, sv = "time", late)
        old == mem.alerts[x] IN
    /\ Allowed(/\ ~ late
               /\ IF old.status = None THEN TRUE ELSE old.agent = a /\ old.service = sv /\ old.count = 0)
    /\ Call("alerts", PgxUpsertAlert(pg, x, new), MemUpsertAlert(mem, x, new))

AlertCall(x) ==
  \/ \E priced \in BOOLEAN :
        /\ Is(mem, x, {"active"}) => mem.alerts[x].count < MaxTimes
        /\ Call("alerts", PgxMarkAlertTriggered(pg, x, priced), MemMarkAlertTriggered(mem, x, priced))
  \/ \E a \in Agents : Call("alerts", PgxCancelAlert(pg, a, x), MemCancelAlert(mem, a, x))
  \/ Call("alerts", PgxAckTriggeredAlerts(pg, {x}), MemAckTriggeredAlerts(mem, {x}))
  \/ /\ Allowed(mem.alerts[x].status # None)
     /\ Call("alerts", PgxFailAlert(pg, x), MemFailAlert(mem, x))

SweepCall(a, x0) ==
  \/ \E p \in Pairs :
       /\ Allowed(AlertIds(mem, LAMBDA r : /\ r.agent = a /\ r.status = "active" /\ r.pair = p
                                          /\ r.service # "trading") = {})
       /\ Call("alerts", PgxCancelActiveAlertsForPair(pg, a, p), MemCancelActiveAlertsForPair(mem, a, p))
  \/ \E g \in Groups :
       /\ Allowed(g # "")
       /\ \/ Call("alerts", PgxCancelAlertsByGroup(pg, a, g, x0), MemCancelAlertsByGroup(mem, a, g, x0))
          \/ Call("alerts", PgxRestoreCancelledSiblings(pg, a, g, x0),
                  MemRestoreCancelledSiblings(mem, a, g, x0))

Init ==
  LET agents == [a \in Agents |-> NoAgent]
      alerts == [x \in Alerts |-> NoAlert] IN
  /\ pg = [agents |-> agents, trades |-> << >>, alerts |-> alerts, traces |-> << >>]
  /\ mem = [agents |-> agents, trades |-> << >>, alerts |-> alerts,
            traces |-> [h \in Hashes |-> None], latest |-> [a \in Agents |-> None]]
  /\ answer = [pg |-> "ok", mem |-> "ok"]
  /\ area \in Areas

Next ==
  \/ \E a \in Agents : StateCall(a)
  \/ \E a \in Agents, p \in Pairs, d \in Deals, t \in Times : InsertTrade(a, p, d, t)
  \/ \E a \in Agents, p \in Pairs, d \in Deals, t \in Times, f \in Fills \cup {None} :
       RecordTrade(a, p, d, t, f)
  \/ \E i \in DOMAIN mem.trades : RowCall(i)
  \/ \E h \in Hashes : HashCall(h)
  \/ \E x \in Alerts : UpsertAlert(x)
  \/ \E x \in Alerts : AlertCall(x)
  \/ \E a \in Agents, x \in Alerts : SweepCall(a, x)

Spec == Init /\ [][Next]_vars

-----------------------------------------------------------------------------
(* Properties. *)

SameTrades(a) ==
  /\ pg.agents[a] = mem.agents[a]
  /\ \A n \in 0..1, p \in Pairs \cup {None}, st \in {None, "fill", "reject"} :
       PgxGetTradeHistory(pg, a, n, p, st) = MemGetTradeHistory(mem, a, n, p, st)
  /\ PgxGetPendingTrades(pg, a) = MemGetPendingTrades(mem, a)
  /\ PgxGetFilledFillIDs(pg, a) = MemGetFilledFillIDs(mem, a)
  /\ PgxGetFilledTradesWithoutEvidence(pg, a) = MemGetFilledTradesWithoutEvidence(mem, a)
  /\ PgxGetFilledTradesPendingAttestation(pg, a) = MemGetFilledTradesPendingAttestation(mem, a)
  /\ PgxGetLatestTraceHash(pg, a) = MemGetLatestTraceHash(mem, a)
  /\ PgxGetDayStartValue(pg, a) = MemGetDayStartValue(mem, a)
  /\ PgxGetRollingPeak24h(pg, a) = MemGetRollingPeak24h(mem, a)
  /\ PgxGetOpenPositions(pg, a) = MemGetOpenPositions(mem, a)
  /\ PgxComputeEquity(pg, a) = MemComputeEquity(mem, a)
  /\ PgxComputeMetrics(pg, a) = MemComputeMetrics(mem, a)
  /\ \A p \in Pairs : /\ MemGetLatestBuyParams(mem, a, p) \subseteq PgxGetLatestBuyParams(pg, a, p)
                       /\ MemGetLatestBuyParams(mem, a, p) = {} => PgxGetLatestBuyParams(pg, a, p) = {}

SameAlerts(a) ==
  /\ \A sv \in {"trading", "time"} :
       /\ PgxGetActiveAlerts(pg, a, sv) = MemGetActiveAlerts(mem, a, sv)
       /\ PgxCountActiveAlerts(pg, a, sv) = MemCountActiveAlerts(mem, a, sv)
       /\ PgxGetFailedAlerts(pg, a, sv) = MemGetFailedAlerts(mem, a, sv)
  /\ PgxGetTriggeredAlerts(pg, a) = MemGetTriggeredAlerts(mem, a)

\* What the tests see on MemRepository is what the servers see on Postgres: after any
\* calls both have answered alike, and every query of the interface reads the same.
SameAnswers ==
  /\ answer.pg = answer.mem
  /\ \A a \in Agents : SameTrades(a) /\ SameAlerts(a)
  /\ PgxGetPendingTrades(pg, None) = MemGetPendingTrades(mem, None)
  /\ \A h \in Hashes : PgxGetTrace(pg, h) = MemGetTrace(mem, h)
  /\ \A sv \in {"trading", "time"} : PgxGetActiveAlerts(pg, None, sv) = MemGetActiveAlerts(mem, None, sv)
  /\ PgxGetDueTimeAlerts(pg) = MemGetDueTimeAlerts(mem)

\* A call that is refused changes nothing, in either implementation: FinalizeTrade and
\* RecordTrade apply the state update and the row together or not at all.
RefusedChangesNothing ==
  [][ /\ answer'.pg \in {"error", "not active", "lost"} => pg' = pg
      /\ answer'.mem \in {"error", "not active", "lost"} => mem' = mem ]_vars
=============================================================================
