---------------------------- MODULE CandleCache ----------------------------
(***************************************************************************)
(* market/get_candles and the cache of closed candles behind it            *)
(* (mcps/marketdata/service.go, cache.go), with several calls at a time.   *)
(*                                                                         *)
(* A candle is its number n: it opens at 2(n - 1) and closes at 2n, so a   *)
(* tick of the clock is half an interval.  The source is one that answers  *)
(* with closed candles only, as the sources of Binance and the simulation  *)
(* do; it may be one candle late.                                          *)
(***************************************************************************)
EXTENDS Integers, Sequences, FiniteSets, Selection, SequencesExt

CONSTANTS
  Calls,             \* calls that may run at the same time
  Limits, Ends,      \* limits, the warm-up of indicators included, and end times they ask with
  MaxTime            \* bound

VARIABLES
  now,
  cache,             \* [candles, limit]: what is stored and the largest limit asked for
  calls              \* [Calls -> [pc, limit, end, asked, got, late, hit]]

vars == <<now, cache, calls>>

CandleCacheAssumption == Limits \cup Ends \subseteq Nat \ {0} /\ MaxTime \in Nat

Live == 0            \* end_time of a call that does not give one
Closes(n) == 2 * n
LastOf(s, n) == IF Len(s) > n THEN SubSeq(s, Len(s) - n + 1, Len(s)) ELSE s
Idle == [pc |-> "idle", limit |-> 0, end |-> Live, asked |-> 0, got |-> << >>, late |-> 0, hit |-> FALSE]

Init ==
  /\ now = 0
  /\ cache = [candles |-> << >>, limit |-> 0]
  /\ calls = [c \in Calls |-> Idle]

\* The closed candles at time t, oldest first; late: the newest is still missing.
SourceCandles(limit, t, late) == LastOf([n \in 1..((t \div 2) - late) |-> n], limit)

\* GetCandlesWithRequestedLimit.
Cached(limit, end) ==
  LastOf(IF end = Live THEN cache.candles ELSE Select(cache.candles, {n \in Nat : Closes(n) <= end}), limit)

\* Mutant: a cached answer is not compared with the clock.
CacheHitAnyAge(limit, end) ==
  LET got == Cached(limit, end) IN
  /\ got # << >>
  /\ Len(got) < limit => end = Live /\ cache.limit >= limit

CacheHit(limit, end) ==
  LET got == Cached(limit, end) IN
  /\ got # << >>
  /\ Len(got) < limit => end = Live /\ cache.limit >= limit
  /\ end = Live => Closes(Last(got)) >= now

\* Older candles go in front, newer ones behind; those in between are taken as known.
PutCandles(new, limit) ==
  LET old == cache.candles IN
  IF new = << >> THEN cache
  ELSE [limit |-> IF limit > cache.limit THEN limit ELSE cache.limit,
        candles |-> IF old = << >> THEN new
                    ELSE Select(new, {n \in Nat : n < Head(old)}) \o old
                           \o Select(new, {n \in Nat : n > Last(old)})]

\* The cache is read, and the clock.
Ask(c, limit, end) ==
  LET hit == CacheHit(limit, end) IN
  /\ calls[c].pc \in {"idle", "done"}
  /\ end <= now
  /\ calls' = [calls EXCEPT ![c] = [Idle EXCEPT !.limit = limit, !.end = end, !.asked = now, !.hit = hit,
                 !.pc = IF hit THEN "done" ELSE "fetch", !.got = IF hit THEN Cached(limit, end) ELSE << >>]]
  /\ UNCHANGED <<now, cache>>

\* The source answers, or all sources fail.
Fetch(c, late) ==
  LET call == calls[c] IN
  /\ call.pc = "fetch" /\ now \div 2 >= late
  /\ calls' = [calls EXCEPT ![c].pc = "put", ![c].late = late,
                 ![c].got = SourceCandles(call.limit, IF call.end = Live THEN now ELSE call.end,
                                          IF call.end = Live THEN late ELSE 0)]
  /\ UNCHANGED <<now, cache>>

FetchFails(c) ==
  /\ calls[c].pc = "fetch"
  /\ calls' = [calls EXCEPT ![c] = Idle]
  /\ UNCHANGED <<now, cache>>

\* Only what a live call fetched is stored.
Put(c) ==
  /\ calls[c].pc = "put"
  /\ cache' = IF calls[c].end = Live THEN PutCandles(calls[c].got, calls[c].limit) ELSE cache
  /\ calls' = [calls EXCEPT ![c].pc = "done"]
  /\ UNCHANGED now

Tick ==
  /\ now < MaxTime
  /\ now' = now + 1
  /\ UNCHANGED <<cache, calls>>

Next ==
  \/ \E c \in Calls : \/ \E limit \in Limits, end \in {Live} \cup Ends : Ask(c, limit, end)
                      \/ \E late \in {0, 1} : Fetch(c, late)
                      \/ FetchFails(c) \/ Put(c)
  \/ Tick

-----------------------------------------------------------------------------
(* Properties. *)

Ascending(s) == \A i \in 1..(Len(s) - 1) : s[i] < s[i + 1]

\* A live answer ends with the newest candle that had closed when the call came, unless its
\* source was late; and neither an answer nor the cache has a candle twice or out of order,
\* in whatever order answers of overlapping calls are stored.
LiveAnswersAreFresh ==
  /\ Ascending(cache.candles)
  /\ \A c \in Calls : calls[c].pc = "done" =>
       /\ Ascending(calls[c].got)
       /\ calls[c].end = Live /\ Closes(1 + calls[c].late) <= calls[c].asked
            => calls[c].got # << >> /\ Last(calls[c].got) >= (calls[c].asked \div 2) - calls[c].late

\* A call with end_time gets the last `limit` candles that close before it.
HistoryEndsAtEndTime ==
  \A c \in Calls : calls[c].pc = "done" /\ calls[c].end # Live
    => calls[c].got = SourceCandles(calls[c].limit, calls[c].end, 0)
=============================================================================
