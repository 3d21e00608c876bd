----------------------------- MODULE PriceSync -----------------------------
(***************************************************************************)
(* The price history of one pair (agentintel/market.go): trades or candles *)
(* are fetched from the exchange from a cursor on, candles are appended to *)
(* a file, and the cursor is saved in meta.json afterwards.                *)
(*                                                                         *)
(* A trade is its number, a candle the trades of its minute that it was    *)
(* computed from; time runs in minutes.  Torn is a line that is cut off.   *)
(***************************************************************************)
EXTENDS Integers, Sequences, FiniteSets, Selection, SequencesExt, FiniteSetsExt

CONSTANTS
  Sources,               \* subset of {"kraken", "kraken-futures"}
  PageSize, TornWrites,  \* trades of an answer; may a crash cut off a line?
  MaxTrades, MaxMinute, MaxFaults  \* bounds

VARIABLES
  market,                \* [minutes: the minute of every trade so far, now, source]
  store,                 \* [lines, cursor, lastT, faults]: the file and meta.json
  job                    \* the running sync: [pc, at, got, cursor, lastT]

vars == <<market, store, job>>

PriceSyncAssumption ==
  /\ Sources \subseteq {"kraken", "kraken-futures"} /\ TornWrites \in BOOLEAN
  /\ PageSize \in Nat \ {0} /\ {MaxTrades, MaxMinute, MaxFaults} \subseteq Nat

NoTime == -1
Torn == [t |-> NoTime, trades |-> {}]
Off == [pc |-> "off", at |-> 0, got |-> {}, cursor |-> 0, lastT |-> NoTime]

Init ==
  /\ \E s \in Sources : market = [minutes |-> << >>, now |-> 0, source |-> s]
  /\ store = [lines |-> << >>, cursor |-> 0, lastT |-> NoTime, faults |-> MaxFaults]
  /\ job = Off

At(pc) == job.pc = pc
Trades == 1..Len(market.minutes)

\* aggregateToCandles: one candle for every minute with trades, in order.
aggregateToCandles(trades) ==
  LET minutes == Select([k \in 1..(market.now + 1) |-> k - 1], {market.minutes[i] : i \in trades})
  IN [k \in 1..Len(minutes) |-> [t |-> minutes[k], trades |-> {i \in trades : market.minutes[i] = minutes[k]}]]

\* AppendJSONL: a line written behind a torn one is lost in it.
Appended(lines, candles) ==
  IF lines # << >> /\ candles # << >> /\ Last(lines) = Torn THEN lines \o Tail(candles) ELSE lines \o candles

\* Not within two minutes of the last candle; a pair without trades is not asked for.
StartSync ==
  /\ At("off") /\ Trades # {}
  /\ store.lastT = NoTime \/ market.now - store.lastT >= 2
  /\ job' = [Off EXCEPT !.pc = market.source, !.at = market.now, !.cursor = store.cursor, !.lastT = store.lastT]
  /\ UNCHANGED <<market, store>>

\* Page after page until one is empty or reaches into the last two minutes.
fetchKrakenTrades ==
  LET page == {i \in Trades : i > job.cursor /\ i <= job.cursor + PageSize} IN
  /\ At("kraken")
  /\ job' = IF page = {} THEN [job EXCEPT !.pc = "append"]
            ELSE [job EXCEPT !.got = @ \cup page, !.cursor = Max(page),
                             !.pc = IF job.at - market.minutes[Max(page)] < 2 THEN "append" ELSE @]
  /\ UNCHANGED <<market, store>>

\* The candles after the one the last sync ended with.
fetchKrakenFuturesCandles ==
  /\ At("kraken-futures")
  /\ job' = [job EXCEPT !.got = {i \in Trades : market.minutes[i] > job.lastT}, !.pc = "append"]
  /\ UNCHANGED <<market, store>>

\* Mutant: an error of the append is only logged.
AppendUnchecked ==
  LET candles == aggregateToCandles(job.got) IN
  /\ At("append")
  /\ \/ store' = [store EXCEPT !.lines = Appended(@, candles)]
     \/ store.faults > 0 /\ store' = [store EXCEPT !.faults = @ - 1]
  /\ job' = IF candles = << >> THEN Off ELSE [job EXCEPT !.pc = "save", !.lastT = Last(candles).t]
  /\ UNCHANGED market

AppendCandles ==
  LET candles == aggregateToCandles(job.got) IN
  /\ At("append")
  /\ store' = [store EXCEPT !.lines = Appended(@, candles)]
  /\ job' = IF candles = << >> THEN Off ELSE [job EXCEPT !.pc = "save", !.lastT = Last(candles).t]
  /\ UNCHANGED market

SaveMeta ==
  /\ At("save")
  /\ store' = [store EXCEPT !.cursor = job.cursor, !.lastT = job.lastT]
  /\ job' = Off
  /\ UNCHANGED market

\* The process ends with an error or a crash; an append may be left half done.
Ends ==
  LET candles == aggregateToCandles(job.got) IN
  /\ ~ At("off") /\ store.faults > 0
  /\ \E n \in 0..(IF At("append") THEN Len(candles) ELSE 0), torn \in {<< >>} \cup (IF TornWrites THEN {<<Torn>>} ELSE {}) :
       /\ torn # << >> => At("append") /\ n < Len(candles)
       /\ store' = [store EXCEPT !.lines = Appended(@, SubSeq(candles, 1, n)) \o torn, !.faults = @ - 1]
  /\ job' = Off
  /\ UNCHANGED market

Trade ==
  /\ Len(market.minutes) < MaxTrades
  /\ market' = [market EXCEPT !.minutes = Append(@, market.now)]
  /\ UNCHANGED <<store, job>>

Tick ==
  /\ market.now < MaxMinute
  /\ market' = [market EXCEPT !.now = @ + 1]
  /\ UNCHANGED <<store, job>>

Next ==
  \/ StartSync \/ fetchKrakenTrades \/ fetchKrakenFuturesCandles \/ AppendCandles \/ SaveMeta \/ Ends
  \/ Trade \/ Tick

-----------------------------------------------------------------------------
(* What the profit computation reads: loadMarketData. *)

Readable == \A i \in 1..(Len(store.lines) - 1) : store.lines[i] # Torn
Candles == {i \in DOMAIN store.lines : store.lines[i] # Torn}

\* Of the lines of a minute the last one counts.
Loaded == {store.lines[i] : i \in {j \in Candles : \A k \in Candles : store.lines[k].t = store.lines[j].t => k <= j}}

\* Every minute with a trade that the cursor has passed has a candle, whatever crashed between
\* the file and the cursor; so a trade of an agent in that minute finds its price.
MinutesArePriced ==
  /\ Readable
  /\ \A i \in Trades : i <= store.cursor \/ (market.source = "kraken-futures" /\ market.minutes[i] <= store.lastT)
       => \E c \in Loaded : c.t = market.minutes[i]

\* Of the candles of a minute the one that counts is the most complete one.
LastCandleIsMostComplete ==
  \A c \in Loaded : \A i \in Candles : store.lines[i].t = c.t => store.lines[i].trades \subseteq c.trades
=============================================================================
