------------------------------ MODULE Profits ------------------------------
(***************************************************************************)
(* The profit of an agent from its trade intents (agentintel/pnl.go and    *)
(* fifo.go): intent after intent is priced with the candles, booked into   *)
(* the pair's queue of lots and into the cash; at the end the open lots    *)
(* are valued at the last price.                                           *)
(*                                                                         *)
(* Time is in minutes, the fee a percentage, and amounts and prices are    *)
(* such that every quantity and fee is an integer.                         *)
(***************************************************************************)
EXTENDS Integers, Sequences, FiniteSets, Functions

CONSTANTS
  Intents,           \* [pair, action, amount, ts, outcome]
  Candles,           \* per pair a sequence of [t, price], in order
  FeePct, DustThreshold,
  MaxIntents         \* bound

VARIABLE calc        \* [lots, cash, realized, fees: as the code has them;
                     \*  n: intents so far, dust: the cost of what was dropped as dust]

Pairs == DOMAIN Candles

\* The pairs in the order in which the map of trackers is gone through: any.
Order == CHOOSE order \in Bijection(1..Cardinality(Pairs), Pairs) : TRUE

InitialCash == 10000

ProfitsAssumption ==
  /\ {FeePct, DustThreshold, MaxIntents} \subseteq Nat
  /\ IsFiniteSet(Pairs)
  /\ \A i \in Intents : i.pair \in Pairs /\ i.amount \in Nat \ {0}
  /\ \A p \in Pairs : Candles[p] \in Seq([t : Int, price : Nat])

Init == calc = [lots |-> [p \in Pairs |-> << >>], cash |-> InitialCash, realized |-> 0, fees |-> 0,
                n |-> 0, dust |-> 0]

-----------------------------------------------------------------------------
(* FIFOTracker: a queue of lots [qty, cost], qty negative for a short. *)

Fee(price) == (price * FeePct) \div 100
Units(n) == IF n < 0 THEN -n ELSE n
Least(m, n) == IF m <= n THEN m ELSE n

\* The sum of a sequence of numbers.
Total(s) ==
  LET sum[i \in 0..Len(s)] == IF i = 0 THEN 0 ELSE sum[i - 1] + s[i]
  IN sum[Len(s)]

Position(lots) == Total([k \in DOMAIN lots |-> lots[k].qty])
TotalCost(lots) == Total([k \in DOMAIN lots |-> Units(lots[k].qty) * lots[k].cost])

Lot(qty, cost) == [qty |-> qty, cost |-> cost]

\* qty units are taken from the lots, first in first out; what is left of a lot is dropped
\* when it is dust.
Taken(acc, lot) ==
  LET used == Least(Units(lot.qty), acc.need)
      rest == Lot(IF lot.qty < 0 THEN lot.qty + used ELSE lot.qty - used, lot.cost)
      gone == acc.need > 0 /\ Units(rest.qty) <= DustThreshold
  IN [need |-> acc.need - used, cost |-> acc.cost + used * lot.cost,
      kept |-> IF gone THEN acc.kept ELSE Append(acc.kept, rest),
      dust |-> IF gone THEN acc.dust + rest.qty * lot.cost ELSE acc.dust]

Consume(lots, qty) ==
  LET acc[i \in 0..Len(lots)] ==
        IF i = 0 THEN [need |-> qty, cost |-> 0, kept |-> << >>, dust |-> 0] ELSE Taken(acc[i - 1], lots[i])
  IN acc[Len(lots)]

Nothing(lots) == [lots |-> lots, pnl |-> 0, dust |-> 0]
Opened(lots, qty, unit) == [lots |-> Append(lots, Lot(qty, unit)), pnl |-> 0, dust |-> 0]

Buy(lots, qty, price) ==
  LET unit == price + Fee(price)
      c == Consume(lots, qty)
  IN IF qty = 0 THEN Nothing(lots)
     ELSE IF Position(lots) >= 0 THEN Opened(lots, qty, unit)
     ELSE [lots |-> IF c.need = 0 THEN c.kept ELSE Append(c.kept, Lot(c.need, unit)),
           pnl |-> c.cost - (qty - c.need) * unit, dust |-> c.dust]

Sell(lots, qty, price) ==
  LET unit == price - Fee(price)
      c == Consume(lots, qty)
  IN IF qty = 0 THEN Nothing(lots)
     ELSE IF Position(lots) <= 0 THEN Opened(lots, -qty, unit)
     ELSE [lots |-> IF c.need = 0 THEN c.kept ELSE Append(c.kept, Lot(-c.need, unit)),
           pnl |-> (qty - c.need) * unit - c.cost, dust |-> c.dust]

-----------------------------------------------------------------------------
(* calculateAgent. *)

\* The candle of the minute or the next one, or the last one of all; none that is more than
\* ten minutes away.
getPrice(pair, ts) ==
  LET at == {k \in DOMAIN Candles[pair] : Candles[pair][k].t >= ts}
      best == IF at # {} THEN CHOOSE k \in at : \A j \in at : k <= j ELSE Len(Candles[pair])
  IN IF best = 0 \/ Units(Candles[pair][best].t - ts) > 10 THEN 0 ELSE Candles[pair][best].price

\* Without an approval or a price the intent changes nothing, nor does an unknown action.
Counts(i) == i.outcome = "APPROVED" /\ getPrice(i.pair, i.ts) > 0 /\ i.action \in {"BUY", "SELL"}

Skip(i) ==
  /\ ~ Counts(i)
  /\ calc' = [calc EXCEPT !.n = @ + 1]

Book(i) ==
  LET price == getPrice(i.pair, i.ts)
      qty == i.amount \div price
      fee == qty * Fee(price)
      paid == IF i.action = "BUY" THEN qty * price + fee ELSE fee - qty * price
      tr == IF i.action = "BUY" THEN Buy(calc.lots[i.pair], qty, price)
            ELSE Sell(calc.lots[i.pair], qty, price)
  IN /\ Counts(i)
     /\ calc' = [calc EXCEPT !.lots[i.pair] = tr.lots, !.realized = @ + tr.pnl, !.fees = @ + fee,
                   !.cash = @ - paid, !.n = @ + 1, !.dust = @ + tr.dust]

Next == \E i \in Intents : calc.n < MaxIntents /\ (Skip(i) \/ Book(i))

LastPrice(pair) == IF Candles[pair] = << >> THEN 0 ELSE Candles[pair][Len(Candles[pair])].price

Unrealized(pair) ==
  LET lots == calc.lots[pair]
      value == Units(Position(lots)) * LastPrice(pair)
  IN IF Position(lots) = 0 \/ LastPrice(pair) = 0 THEN 0
     ELSE IF Position(lots) > 0 THEN value - TotalCost(lots) ELSE TotalCost(lots) - value

OfPairs(f) == Total([k \in DOMAIN Order |-> f[Order[k]]])

NetPnL == calc.realized + OfPairs([p \in Pairs |-> Unrealized(p)])

-----------------------------------------------------------------------------
(* Properties. *)

\* The profit that is reported is the change of the agent's wealth: of its cash and of its
\* positions at the last price, up to what was dropped as dust.
ProfitIsChangeOfWealth ==
  NetPnL = calc.cash + OfPairs([p \in Pairs |-> Position(calc.lots[p]) * LastPrice(p)])
             - InitialCash + calc.dust

\* A pair's lots are all long or all short, and none of them is used up.
LotsAgree ==
  \A p \in Pairs : \A j, k \in DOMAIN calc.lots[p] : calc.lots[p][j].qty * calc.lots[p][k].qty > 0
=============================================================================
