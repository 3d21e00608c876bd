----------------------------- MODULE Indicators -----------------------------
(***************************************************************************)
(* The indicators of market/get_candles (mcps/marketdata/indicators.go)    *)
(* and the extra candles that are fetched for them.  What matters is from  *)
(* which candles a value is computed and where there is none, so a value   *)
(* is the set of the numbers of its candles, and Null where the column is  *)
(* empty; Unset in it stands for an entry that was never computed.         *)
(***************************************************************************)
EXTENDS Integers, Sequences, FiniteSets, FiniteSetsExt

CONSTANTS
  Periods,             \* periods that are asked for
  Limits,              \* candles that are asked for
  FetchCap, MaxCandles \* at most FetchCap candles are fetched; candles the source has: 0..MaxCandles

VARIABLES request, answer
vars == <<request, answer>>

IndicatorsAssumption ==
  /\ Periods \cup Limits \subseteq Nat \ {0} /\ {FetchCap, MaxCandles} \subseteq Nat

Null == {}
Unset == 0

\* parseIndicatorSpec; params are kept as [fast, slow, signal] for macd, as [period] otherwise.
Specs ==
  [name : {"rsi", "ema", "sma", "bbands", "atr"}, period : Periods]
    \cup [name : {"macd"}, fast : Periods, slow : Periods, signal : Periods]
    \cup [name : {"vwap"}]

-----------------------------------------------------------------------------
(* The calculations, over candles 1..n. *)

\* The mean of the first period values, then smoothed: a value depends on all before it.
calcEMA(n, period) == [i \in 1..n |-> IF i < period THEN Null ELSE 1..i]
calcSMA(n, period) == [i \in 1..n |-> IF i < period THEN Null ELSE (i - period + 1)..i]
calcBBands(n, period) == calcSMA(n, period)

\* Wilder's smoothing of changes from one candle to the next.
calcRSI(n, period) == [i \in 1..n |-> IF i <= period THEN Null ELSE 1..i]
calcATR(n, period) == calcRSI(n, period)

\* Sums from the first candle on.
calcVWAP(n) == [i \in 1..n |-> 1..i]

\* calcEMAFloat: 0 where calcEMA has no value.
calcEMAFloat(n, period) == [i \in 1..n |-> IF i < period THEN {Unset} ELSE 1..i]

\* The line from candle slow on; the signal is an average of the line.
calcMACD(n, fast, slow, signal) ==
  LET line == [i \in 1..n |-> IF i < slow THEN Null ELSE calcEMAFloat(n, fast)[i] \cup calcEMAFloat(n, slow)[i]]
      smoothed == [i \in 1..n |-> IF i - slow + 1 < signal THEN Null ELSE UNION {line[j] : j \in slow..i}]
  IN [macd |-> line, signal |-> smoothed]

\* Mutant: rsi and atr need no candle before the first change.
WarmupLikeSMA(spec) ==
  CASE spec.name \in {"rsi", "atr", "ema", "sma", "bbands"} -> spec.period - 1
    [] spec.name = "macd" -> spec.slow + spec.signal
    [] OTHER -> 0

specWarmup(spec) ==
  CASE spec.name \in {"rsi", "atr"} -> spec.period
    [] spec.name \in {"ema", "sma", "bbands"} -> spec.period - 1
    [] spec.name = "macd" -> spec.slow + spec.signal
    [] OTHER -> 0

WarmupNeeded(specs) == Max({specWarmup(s) : s \in specs} \cup {0})

\* The columns of a spec.
Columns(spec, n) ==
  CASE spec.name = "rsi" -> {calcRSI(n, spec.period)}
    [] spec.name = "ema" -> {calcEMA(n, spec.period)}
    [] spec.name = "sma" -> {calcSMA(n, spec.period)}
    [] spec.name = "bbands" -> {calcBBands(n, spec.period)}
    [] spec.name = "atr" -> {calcATR(n, spec.period)}
    [] spec.name = "vwap" -> {calcVWAP(n)}
    [] spec.name = "macd" -> {calcMACD(n, spec.fast, spec.slow, spec.signal)[part] : part \in {"macd", "signal"}}

\* Two specs of macd, or of bbands, have columns of the same names: the later ones count.
Shadowed(specs, k) ==
  specs[k].name \in {"macd", "bbands"} /\ \E j \in (k + 1)..Len(specs) : specs[j].name = specs[k].name

-----------------------------------------------------------------------------
Init ==
  /\ \E limit \in Limits, has \in 0..MaxCandles, first, second \in Specs :
       request = [specs |-> <<first, second>>, limit |-> limit, has |-> has]
  /\ answer = << >>

Fetched ==
  Min({request.limit + WarmupNeeded({request.specs[1], request.specs[2]}), FetchCap, request.has})

\* Compute on what was fetched; the last `limit` rows are returned.
Compute ==
  /\ answer = << >>
  /\ answer' = [k \in 1..Len(request.specs) |->
                  IF Shadowed(request.specs, k) THEN {}
                  ELSE {[i \in 1..Min({Fetched, request.limit}) |-> column[Fetched - Min({Fetched, request.limit}) + i]]
                          : column \in Columns(request.specs[k], Fetched)}]
  /\ UNCHANGED request

Next == Compute

-----------------------------------------------------------------------------
(* Properties. *)

FastIsSlower(spec) == spec.name = "macd" /\ spec.fast > spec.slow

Enough == LET need == request.limit + WarmupNeeded({request.specs[1], request.specs[2]})
          IN need <= FetchCap /\ need <= request.has

\* "so that all returned candles have valid indicator values": every row has a value in every
\* column, and no value is computed from an entry that is not there; for macd, when the fast
\* period is not longer than the slow one.
RowsAreWarm ==
  \A k \in DOMAIN answer : ~ FastIsSlower(request.specs[k]) =>
    \A column \in answer[k] : \A i \in DOMAIN column :
      Unset \notin column[i] /\ (Enough => column[i] # Null)

\* The same for every macd the parser lets through.
EveryMacdIsWarm ==
  \A k \in DOMAIN answer : \A column \in answer[k] : \A i \in DOMAIN column : Unset \notin column[i]
=============================================================================
