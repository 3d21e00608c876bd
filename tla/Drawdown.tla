------------------------------ MODULE Drawdown ------------------------------
(***************************************************************************)
(* The peak of an agent's equity and the halt that a deep fall below it    *)
(* brings (trade/heartbeat in mcps/trading/service.go, risk/halt_agent and *)
(* risk/resume_agent in mcps/risk/service.go).  Orders work under the      *)
(* agent's lock; a heartbeat reads cash, prices and positions one after    *)
(* the other without it, and takes it only to halt.                        *)
(***************************************************************************)
EXTENDS Integers, FiniteSetsExt

CONSTANTS
  Quotes,        \* prices of the one pair that is traded
  InitialCash,
  DrawdownPct,   \* the policy blocks a heartbeat this many percent below the peak
  MaxQty,        \* bound on the position
  MaxTrades,     \* bound on orders
  MaxBeats,      \* bound on heartbeats
  MaxFaults      \* bound on statements that fail

DrawdownAssumption ==
  /\ Quotes \subseteq Nat \ {0} /\ Quotes # {}
  /\ InitialCash \in Nat /\ DrawdownPct \in 1..100
  /\ {MaxQty, MaxTrades, MaxBeats, MaxFaults} \subseteq Nat

VARIABLES
  acct,    \* the agent's row with its open position: [cash, qty, peak, halted]
  price,   \* what the exchange quotes
  lock,    \* holder of LockAgent
  trade,   \* the order that holds the lock: [at, side, peak]
  beat,    \* the heartbeat: [at, cash, qty, peak, price, equity]
  seen     \* history: [real, told] highest equity that ever was, highest equity a writer of peak_value found; counters

vars == <<acct, price, lock, trade, beat, seen>>

Greatest(a, b) == IF a < b THEN b ELSE a

\* equityFromPositions: cash and positions at the exchange's prices.
Equity(cash, qty, p) == cash + qty * p

Idle == [at |-> "off"]

Init ==
  /\ acct = [cash |-> InitialCash, qty |-> 0, peak |-> InitialCash, halted |-> FALSE]
  /\ price \in Quotes
  /\ lock = "free" /\ trade = Idle /\ beat = Idle
  /\ seen = [real |-> InitialCash, told |-> InitialCash, trades |-> 0, beats |-> 0, faults |-> 0]

Told(v) == [seen EXCEPT !.told = Greatest(@, v)]
Fault == seen.faults < MaxFaults
Faulty(s) == [s EXCEPT !.faults = @ + 1]

\* The exchange's price moves.
MovePrice(p) ==
  /\ p # price /\ price' = p
  /\ seen' = [seen EXCEPT !.real = Greatest(@, Equity(acct.cash, acct.qty, p))]
  /\ UNCHANGED <<acct, lock, trade, beat>>

-----------------------------------------------------------------------------
(* trade/submit_order, as far as cash, peak and halt go. *)

\* Under the lock the state is read once; a halted agent is refused.
Submit(side) ==
  /\ lock = "free" /\ ~acct.halted /\ seen.trades < MaxTrades
  /\ IF side = "buy" THEN acct.qty < MaxQty ELSE acct.qty > 0
  /\ lock' = "trade" /\ trade' = [at |-> "exchange", side |-> side, peak |-> acct.peak]
  /\ seen' = [seen EXCEPT !.trades = @ + 1]
  /\ UNCHANGED <<acct, price, beat>>

\* A gate or the exchange refuses.
OrderFails ==
  /\ trade.at = "exchange"
  /\ lock' = "free" /\ trade' = Idle
  /\ UNCHANGED <<acct, price, beat, seen>>

Sign == IF trade.side = "buy" THEN 1 ELSE -1

\* The exchange fills one unit; the peak the order will write is the snapshot's or the new equity.
Fill ==
  /\ trade.at = "exchange"
  /\ trade.side = "buy" => acct.cash >= price
  /\ LET equity == Equity(acct.cash - Sign * price, acct.qty + Sign, price) IN
       /\ trade' = [at |-> "finalize", side |-> trade.side, cost |-> Sign * price, peak |-> Greatest(trade.peak, equity)]
       /\ seen' = [Told(Greatest(trade.peak, equity)) EXCEPT !.real = Greatest(@, equity)]
  /\ UNCHANGED <<acct, price, lock, beat>>

\* What FinalizeTrade would be if it wrote the order's snapshot of the peak.
FinalizeWritesSnapshot ==
  /\ trade.at = "finalize"
  /\ LET cash == acct.cash - trade.cost  qty == acct.qty + Sign IN
       /\ acct' = [acct EXCEPT !.cash = cash, !.qty = qty, !.peak = trade.peak]
       /\ seen' = [seen EXCEPT !.real = Greatest(@, Equity(cash, qty, price))]
  /\ lock' = "free" /\ trade' = Idle
  /\ UNCHANGED <<price, beat>>

\* PgxRepository.FinalizeTrade: deltas for cash and position, GREATEST for the peak.
FinalizeTrade ==
  /\ trade.at = "finalize"
  /\ LET cash == acct.cash - trade.cost  qty == acct.qty + Sign IN
       /\ acct' = [acct EXCEPT !.cash = cash, !.qty = qty, !.peak = Greatest(@, trade.peak)]
       /\ seen' = [seen EXCEPT !.real = Greatest(@, Equity(cash, qty, price))]
  /\ lock' = "free" /\ trade' = Idle
  /\ UNCHANGED <<price, beat>>

-----------------------------------------------------------------------------
(* trade/heartbeat. *)

HeartbeatReadsState ==
  /\ beat.at = "off" /\ seen.beats < MaxBeats
  /\ beat' = [at |-> "prices", cash |-> acct.cash, peak |-> acct.peak]
  /\ seen' = [seen EXCEPT !.beats = @ + 1]
  /\ UNCHANGED <<acct, price, lock, trade>>

HeartbeatReadsPrices ==
  /\ beat.at = "prices"
  /\ beat' = [at |-> "positions", cash |-> beat.cash, peak |-> beat.peak, price |-> price]
  /\ UNCHANGED <<acct, price, lock, trade, seen>>

\* computeEquityFromState; its caller ignores that the positions could not be read and goes on with the cash.
HeartbeatReadsPositions(failed) ==
  /\ beat.at = "positions" /\ (failed => Fault)
  /\ LET equity == IF failed THEN beat.cash ELSE Equity(beat.cash, acct.qty, beat.price) IN
       /\ beat' = [at |-> IF equity > beat.peak THEN "raise" ELSE "reread", equity |-> equity]
       /\ seen' = IF failed THEN Faulty(seen) ELSE seen
  /\ UNCHANGED <<acct, price, lock, trade>>

\* UpdatePeakValue compares with the row; its failure is only logged.
UpdatePeakValue(failed) ==
  /\ beat.at = "raise" /\ (failed => Fault)
  /\ acct' = [acct EXCEPT !.peak = IF failed THEN @ ELSE Greatest(@, beat.equity)]
  /\ seen' = IF failed THEN Faulty(seen) ELSE Told(beat.equity)
  /\ beat' = [beat EXCEPT !.at = "reread"]
  /\ UNCHANGED <<price, lock, trade>>

\* The policy's verdict on the equity computed above and the peak read again.
Evaluate ==
  /\ beat.at = "reread"
  /\ beat' = IF 100 * beat.equity <= (100 - DrawdownPct) * acct.peak THEN [at |-> "halt"] ELSE Idle
  /\ UNCHANGED <<acct, price, lock, trade, seen>>

\* The row cannot be read again, or Swiftward does not answer: nothing is halted.
EvaluateFails ==
  /\ beat.at = "reread" /\ Fault
  /\ beat' = Idle /\ seen' = Faulty(seen)
  /\ UNCHANGED <<acct, price, lock, trade>>

\* SetHalted waits for the agent's lock.
SetHalted(halted) ==
  /\ lock = "free"
  /\ acct' = [acct EXCEPT !.halted = halted]
  /\ UNCHANGED <<price, lock, trade, seen>>

HeartbeatHalts == beat.at = "halt" /\ SetHalted(TRUE) /\ beat' = Idle

HaltFails ==
  /\ beat.at = "halt" /\ Fault
  /\ beat' = Idle /\ seen' = Faulty(seen)
  /\ UNCHANGED <<acct, price, lock, trade>>

\* risk/halt_agent and risk/resume_agent.
Operator(halted) == acct.halted # halted /\ SetHalted(halted) /\ UNCHANGED beat

Next ==
  \/ \E p \in Quotes : MovePrice(p)
  \/ \E side \in {"buy", "sell"} : Submit(side)
  \/ OrderFails \/ Fill \/ FinalizeTrade
  \/ HeartbeatReadsState \/ HeartbeatReadsPrices
  \/ \E failed \in BOOLEAN : HeartbeatReadsPositions(failed) \/ UpdatePeakValue(failed)
  \/ Evaluate \/ EvaluateFails \/ HeartbeatHalts \/ HaltFails
  \/ \E halted \in BOOLEAN : Operator(halted)

Spec == Init /\ [][Next]_vars

-----------------------------------------------------------------------------
(* Properties. *)

\* The peak never falls behind what an order or a heartbeat found, although both write it from
\* values read earlier, and one of them without the lock.
HighestIsKept == trade.at # "finalize" => acct.peak >= seen.told

\* "Uses targeted update ... so it's safe without the full agent lock" (toolHeartbeat): the peak is
\* an equity the agent once had.  It is not: an order that is booked between the reading of cash and of
\* positions is counted twice.
PeakIsReal == acct.peak <= seen.real
=============================================================================
