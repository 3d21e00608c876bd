---------------------------- MODULE AccountProofs ----------------------------
(***************************************************************************)
(* The services that an agent's account rests on: the connections behind   *)
(* its lock, the recorded peak of its equity, PRISM's breaker, the         *)
(* transactions of its trades, the answers about the market it trades on,  *)
(* and the profits it is reported to have made.  For all values of their   *)
(* constants: any numbers of calls, servers, orders, retries, candles,     *)
(* trade intents and faults.                                               *)
(***************************************************************************)
EXTENDS Services, Selection, SequenceTheorems, FiniteSetTheorems, WellFoundedInduction, TLAPS

-----------------------------------------------------------------------------
(* A behaviour of Services is one of the service that `part` names. *)

LEMMA StepOfPool == (part = "pool")' /\ [Next]_vars => part = "pool" /\ [Pool!Next]_(Pool!vars)
BY DEF Next, vars, Pool!vars, PoolVars

LEMMA StepOfPeak == (part = "drawdown")' /\ [Next]_vars => part = "drawdown" /\ [Peak!Next]_(Peak!vars)
BY DEF Next, vars, Peak!vars, PeakVars

LEMMA StepOfBreaker == (part = "prism")' /\ [Next]_vars => part = "prism" /\ [Breaker!Next]_(Breaker!vars)
BY DEF Next, vars, Breaker!vars, BreakerVars

LEMMA StepOfTxs == (part = "transactions")' /\ [Next]_vars => part = "transactions" /\ [Txs!Next]_(Txs!vars)
BY DEF Next, vars, Txs!vars, TxsVars

LEMMA StepOfCached == (part = "candles")' /\ [Next]_vars => part = "candles" /\ [Cached!Next]_(Cached!vars)
BY DEF Next, vars, Cached!vars, CachedVars

LEMMA StepOfColumns == (part = "indicators")' /\ [Next]_vars => part = "indicators" /\ [Columns!Next]_(Columns!vars)
BY DEF Next, vars, Columns!vars, ColumnsVars

LEMMA StepOfProfit == (part = "profits")' /\ [Next]_vars => part = "profits" /\ [Profit!Next]_calc
BY DEF Next, vars, NotProfit

-----------------------------------------------------------------------------
(* The pool: calls under way hold connections one by one. *)

PoolStates == {"idle", "acquire", "lock", "held", "want", "query", "unlock"}

\* Nothing is leaked by the code's own actions.
PoolInv == pc \in [PoolCalls -> PoolStates] /\ leaked = 0

-----------------------------------------------------------------------------
(* PoolInv is inductive: every action moves one call to another state. *)

LEMMA PoolInit == Pool!Init => PoolInv
BY DEF Pool!Init, PoolInv, PoolStates

LEMMA PoolStep == PoolInv /\ [Pool!Next]_(Pool!vars) => PoolInv'
<1> SUFFICES ASSUME PoolInv, [Pool!Next]_(Pool!vars) PROVE PoolInv'
  OBVIOUS
<1>1. CASE UNCHANGED Pool!vars
  BY <1>1 DEF PoolInv, Pool!vars
<1>2. ASSUME NEW c \in PoolCalls, NEW from, NEW to \in PoolStates, Pool!Step(c, from, to) PROVE PoolInv'
  BY <1>2 DEF Pool!Step, PoolInv
<1>3. CASE Pool!Next
  <2> PICK c \in PoolCalls : Pool!Arrive(c) \/ Pool!Acquire(c) \/ Pool!Lock(c) \/ Pool!LockFails(c) \/ Pool!Statement(c) \/ Pool!Query(c)
                           \/ Pool!QueryDone(c) \/ Pool!Unlock(c)
    BY <1>3 DEF Pool!Next
  <2>1. CASE Pool!Arrive(c) BY <2>1, <1>2 DEF Pool!Arrive, PoolStates
  <2>2. CASE Pool!Acquire(c) BY <2>2, <1>2 DEF Pool!Acquire, PoolStates
  <2>3. CASE Pool!Lock(c) BY <2>3, <1>2 DEF Pool!Lock, PoolStates
  <2>4. CASE Pool!LockFails(c) BY <2>4, <1>2 DEF Pool!LockFails, PoolStates
  <2>5. CASE Pool!Statement(c) BY <2>5, <1>2 DEF Pool!Statement, PoolStates
  <2>6. CASE Pool!Query(c) BY <2>6, <1>2 DEF Pool!Query, PoolStates
  <2>7. CASE Pool!QueryDone(c) BY <2>7, <1>2 DEF Pool!QueryDone, PoolStates
  <2>8. CASE Pool!Unlock(c) BY <2>8, <1>2 DEF Pool!Unlock, PoolStates
  <2> QED BY <2>1, <2>2, <2>3, <2>4, <2>5, <2>6, <2>7, <2>8
<1> QED BY <1>1, <1>3

-----------------------------------------------------------------------------
(* Counting: no more connections are in use than there are calls. *)

LEMMA PoolCount == ASSUME NEW S PROVE Pool!Cardinality(S) = Cardinality(S)
BY DEF Pool!Cardinality, Cardinality

LEMMA InBounds ==
  ASSUME IsFiniteSet(PoolCalls), NEW pcs
  PROVE  Pool!In(pcs) \in Nat /\ Pool!In(pcs) <= Cardinality(PoolCalls)
<1>1. {c \in PoolCalls : pc[c] \in pcs} \subseteq PoolCalls
  OBVIOUS
<1> QED BY <1>1, FS_Subset, FS_CardinalityType, PoolCount DEF Pool!In

\* Nobody is in a state that nobody is in.
LEMMA InNone ==
  ASSUME NEW pcs, \A c \in PoolCalls : pc[c] \notin pcs
  PROVE  Pool!In(pcs) = 0
<1>1. {c \in PoolCalls : pc[c] \in pcs} = {}
  OBVIOUS
<1> QED BY <1>1, FS_EmptySet, PoolCount DEF Pool!In

LEMMA InAll ==
  ASSUME NEW pcs, \A c \in PoolCalls : pc[c] \in pcs
  PROVE  Pool!In(pcs) = Cardinality(PoolCalls)
<1>1. {c \in PoolCalls : pc[c] \in pcs} = PoolCalls
  OBVIOUS
<1> QED BY <1>1, PoolCount DEF Pool!In

\* When no statement runs a connection is free.
LEMMA OneIsFree ==
  ASSUME IsFiniteSet(PoolCalls), PoolSize \in Nat, Cardinality(PoolCalls) < PoolSize, PoolInv,
         \A c \in PoolCalls : pc[c] # "query"
  PROVE  Pool!Free > 0
<1>1. Pool!In({"query"}) = 0
  BY InNone
<1>2. Pool!In(Pool!Locked \cup {"lock"}) \in Nat /\ Pool!In(Pool!Locked \cup {"lock"}) <= Cardinality(PoolCalls)
  BY InBounds
<1>3. Cardinality(PoolCalls) \in Nat
  BY FS_CardinalityType
<1> QED BY <1>1, <1>2, <1>3 DEF Pool!Free, PoolInv

LEMMA PoolInvSuffices ==
  ASSUME IsFiniteSet(PoolCalls), PoolSize \in Nat, Cardinality(PoolCalls) < PoolSize, PoolInv
  PROVE  Pool!SomebodyCanMove
<1> SUFFICES ASSUME Pool!In({"idle"}) < Cardinality(PoolCalls),
                    \A c \in PoolCalls : /\ pc[c] \notin {"held", "query", "unlock"}
                                         /\ ~ (pc[c] \in {"acquire", "want"} /\ Pool!Free > 0)
             PROVE  \E c \in PoolCalls : pc[c] = "lock" /\ Pool!LockFree(c)
  BY PoolCount DEF Pool!SomebodyCanMove
\* Then a connection is free, so nobody waits for one, and nobody holds a lock.
<1>1. Pool!Free > 0
  BY OneIsFree
<1>2. \A c \in PoolCalls : pc[c] \in {"idle", "lock"}
  BY <1>1 DEF PoolInv, PoolStates
<1>3. Cardinality(PoolCalls) \in Nat
  BY FS_CardinalityType
<1>4. PICK c \in PoolCalls : pc[c] \notin {"idle"}
  BY InAll, <1>3
<1>5. Pool!LockFree(c)
  BY <1>2 DEF Pool!LockFree, Pool!Locked
<1> QED BY <1>2, <1>4, <1>5

\* LockAgent's connections (pgx_repository.go:26-57): with more connections than calls that
\* trade, halt or reconcile at the same time, they never wait for each other in a circle.
THEOREM PoolNeverBlocks ==
  ASSUME IsFiniteSet(PoolCalls), Cardinality(PoolCalls) < PoolSize
  PROVE  Spec => []PoolKeepsMoving
<1> DEFINE Inv == part = "pool" => PoolInv
<1>1. PoolSize \in Nat
  BY ServicesAssumption DEF Pool!ConnPoolAssumption
<1>2. Inv => PoolKeepsMoving
  BY <1>1, PoolInvSuffices DEF PoolKeepsMoving
<1>3. Init => Inv
  BY PoolInit DEF Init
<1>4. Inv /\ [Next]_vars => Inv'
  BY StepOfPool, PoolStep
<1> QED BY <1>2, <1>3, <1>4, PTL DEF Spec

-----------------------------------------------------------------------------
(* The peak: the row and the order together remember the highest value. *)

\* Only what the peak depends on is typed: what an order or a heartbeat carries is a number
\* when it is compared or written.
PeakTyped ==
  /\ acct \in [cash : Int, qty : Int, peak : Int, halted : BOOLEAN]
  /\ price \in Int
  /\ seen \in [real : Int, told : Int, trades : Int, beats : Int, faults : Int]
  /\ trade.at \in {"off", "exchange", "finalize"}
  /\ trade.at # "off" => trade.peak \in Int /\ lock = "trade"
  /\ trade.at = "finalize" => trade.cost \in Int
  /\ beat.at \in {"off", "prices", "positions", "raise", "reread", "halt"}
  /\ beat.at \in {"prices", "positions"} => beat.cash \in Int /\ beat.peak \in Int
  /\ beat.at = "positions" => beat.price \in Int
  /\ beat.at \in {"raise", "reread"} => beat.equity \in Int

\* While an order is being booked, the row and the order together remember the highest.
Remembered ==
  \/ acct.peak >= seen.told
  \/ trade.at = "finalize" /\ trade.peak >= seen.told

PeakInv == PeakTyped /\ Remembered

-----------------------------------------------------------------------------

LEMMA GreatestIsGreatest ==
  ASSUME NEW a \in Int, NEW b \in Int
  PROVE  Peak!Greatest(a, b) \in Int /\ Peak!Greatest(a, b) >= a /\ Peak!Greatest(a, b) >= b /\ Peak!Greatest(a, b) \in {a, b}
BY DEF Peak!Greatest

LEMMA EquityIsInt ==
  ASSUME NEW c \in Int, NEW q \in Int, NEW p \in Int
  PROVE  Peak!Equity(c, q, p) \in Int
BY DEF Peak!Equity

LEMMA PeakInit == Peak!DrawdownAssumption /\ Peak!Init => PeakInv
BY DEF Peak!Init, PeakInv, PeakTyped, Remembered, Peak!Idle, Peak!DrawdownAssumption

\* One step per action; what an action leaves alone keeps its type.
LEMMA PeakStep == Peak!DrawdownAssumption /\ PeakInv /\ [Peak!Next]_(Peak!vars) => PeakInv'
<1> SUFFICES ASSUME Peak!DrawdownAssumption, PeakInv, [Peak!Next]_(Peak!vars) PROVE PeakInv'
  OBVIOUS
<1> USE DEF PeakInv, PeakTyped, Remembered
<1>1. ASSUME NEW p \in Quotes, Peak!MovePrice(p) PROVE PeakInv'
  BY <1>1, GreatestIsGreatest, EquityIsInt DEF Peak!MovePrice, Peak!DrawdownAssumption
<1>2. ASSUME NEW side \in {"buy", "sell"}, Peak!Submit(side) PROVE PeakInv'
  <2>1. trade'.at = "exchange" /\ trade'.peak = acct.peak /\ UNCHANGED <<acct, price, beat>>
    BY <1>2 DEF Peak!Submit
  <2>2. seen' \in [real : Int, told : Int, trades : Int, beats : Int, faults : Int] /\ seen'.told = seen.told
    BY <1>2 DEF Peak!Submit
  <2>3. trade.at # "finalize"
    BY <1>2 DEF Peak!Submit
  <2>4. lock' = "trade"
    BY <1>2 DEF Peak!Submit
  <2> QED BY <2>1, <2>2, <2>3, <2>4
<1>3. CASE Peak!OrderFails
  BY <1>3 DEF Peak!OrderFails, Peak!Idle
<1>4. CASE Peak!Fill
  <2> DEFINE equity == Peak!Equity(acct.cash - Peak!Sign * price, acct.qty + Peak!Sign, price)
             high == Peak!Greatest(trade.peak, equity)
  <2>1. trade.at = "exchange" /\ trade.peak \in Int /\ Peak!Sign \in {1, -1}
    BY <1>4 DEF Peak!Fill, Peak!Sign
  <2>2. acct.cash - Peak!Sign * price \in Int /\ acct.qty + Peak!Sign \in Int /\ Peak!Sign * price \in Int
    BY <2>1
  <2>3. equity \in Int
    BY <2>2, EquityIsInt
  <2> HIDE DEF equity
  <2>4. high \in Int /\ high >= trade.peak /\ high >= equity
    BY <2>1, <2>3, GreatestIsGreatest
  <2>5. /\ trade' = [at |-> "finalize", side |-> trade.side, cost |-> Peak!Sign * price, peak |-> high]
        /\ seen' = [Peak!Told(high) EXCEPT !.real = Peak!Greatest(@, equity)]
        /\ UNCHANGED <<acct, price, lock, beat>>
    BY <1>4 DEF Peak!Fill, equity
  <2> HIDE DEF high
  <2>6. /\ trade'.at = "finalize" /\ trade'.peak = high /\ trade'.cost \in Int
    BY <2>2, <2>5
  <2>7. Peak!Greatest(seen.told, high) \in {seen.told, high} /\ Peak!Greatest(seen.real, equity) \in Int
    BY <2>3, <2>4, GreatestIsGreatest
  <2>8. seen' \in [real : Int, told : Int, trades : Int, beats : Int, faults : Int]
        /\ seen'.told \in {seen.told, high}
    BY <2>4, <2>5, <2>7 DEF Peak!Told
  <2>9. seen.told <= acct.peak \/ trade.at = "finalize"
    OBVIOUS
  <2> QED BY <2>1, <2>4, <2>5, <2>6, <2>8, <2>9
<1>5. CASE Peak!FinalizeTrade
  <2> DEFINE cash == acct.cash - trade.cost
             qty == acct.qty + Peak!Sign
             high == Peak!Greatest(acct.peak, trade.peak)
  <2>1. trade.at = "finalize" /\ trade.peak \in Int /\ trade.cost \in Int /\ Peak!Sign \in Int
    BY <1>5 DEF Peak!FinalizeTrade, Peak!Sign
  <2>2. cash \in Int /\ qty \in Int /\ Peak!Greatest(seen.real, Peak!Equity(cash, qty, price)) \in Int
    <3>1. cash \in Int /\ qty \in Int
      BY <2>1
    <3> HIDE DEF cash, qty
    <3>2. Peak!Equity(cash, qty, price) \in Int
      BY <3>1, EquityIsInt
    <3> QED BY <3>1, <3>2, GreatestIsGreatest
  <2>3. high \in Int /\ high >= acct.peak /\ high >= trade.peak
    BY <2>1, GreatestIsGreatest
  <2>4. /\ acct' = [acct EXCEPT !.cash = cash, !.qty = qty, !.peak = high]
        /\ seen' = [seen EXCEPT !.real = Peak!Greatest(seen.real, Peak!Equity(cash, qty, price))]
        /\ trade'.at = "off" /\ UNCHANGED <<price, beat>>
    BY <1>5 DEF Peak!FinalizeTrade, Peak!Idle
  <2> HIDE DEF cash, qty, high
  <2>5. acct' \in [cash : Int, qty : Int, peak : Int, halted : BOOLEAN] /\ acct'.peak = high
    BY <2>2, <2>3, <2>4
  <2>6. seen' \in [real : Int, told : Int, trades : Int, beats : Int, faults : Int] /\ seen'.told = seen.told
    BY <2>2, <2>4
  <2> QED BY <2>1, <2>3, <2>4, <2>5, <2>6
<1>6. CASE Peak!HeartbeatReadsState
  BY <1>6 DEF Peak!HeartbeatReadsState
<1>7. CASE Peak!HeartbeatReadsPrices
  BY <1>7 DEF Peak!HeartbeatReadsPrices
<1>8. ASSUME NEW failed \in BOOLEAN, Peak!HeartbeatReadsPositions(failed) PROVE PeakInv'
  <2> DEFINE equity == IF failed THEN beat.cash ELSE Peak!Equity(beat.cash, acct.qty, beat.price)
  <2>1. equity \in Int
    BY <1>8, EquityIsInt DEF Peak!HeartbeatReadsPositions
  <2>2. seen' \in [real : Int, told : Int, trades : Int, beats : Int, faults : Int] /\ seen'.told = seen.told
    BY <1>8 DEF Peak!HeartbeatReadsPositions, Peak!Faulty
  <2>3. beat'.at \in {"raise", "reread"} /\ beat'.equity = equity
    BY <1>8 DEF Peak!HeartbeatReadsPositions
  <2>4. UNCHANGED <<acct, price, lock, trade>>
    BY <1>8 DEF Peak!HeartbeatReadsPositions
  <2> QED BY <2>1, <2>2, <2>3, <2>4
<1>9. ASSUME NEW failed \in BOOLEAN, Peak!UpdatePeakValue(failed) PROVE PeakInv'
  <2>1. UNCHANGED <<price, lock, trade>> /\ beat'.at = "reread" /\ beat'.equity = beat.equity /\ beat.equity \in Int
    BY <1>9 DEF Peak!UpdatePeakValue
  <2>2. CASE failed
    <3>1. acct' = [acct EXCEPT !.peak = @] /\ seen' = [seen EXCEPT !.faults = @ + 1]
      BY <1>9, <2>2, Zenon DEF Peak!UpdatePeakValue, Peak!Faulty
    <3> QED BY <2>1, <3>1
  <2>3. CASE ~failed
    <3>1. acct' = [acct EXCEPT !.peak = Peak!Greatest(@, beat.equity)] /\ seen' = [seen EXCEPT !.told = Peak!Greatest(@, beat.equity)]
      BY <1>9, <2>3 DEF Peak!UpdatePeakValue, Peak!Told
    <3> QED BY <2>1, <3>1, GreatestIsGreatest
  <2> QED BY <2>2, <2>3
<1>10. CASE Peak!Evaluate
  BY <1>10 DEF Peak!Evaluate, Peak!Idle
<1>11. CASE Peak!EvaluateFails
  BY <1>11 DEF Peak!EvaluateFails, Peak!Idle, Peak!Faulty
<1>12. CASE Peak!HeartbeatHalts
  BY <1>12 DEF Peak!HeartbeatHalts, Peak!SetHalted, Peak!Idle
<1>13. CASE Peak!HaltFails
  BY <1>13 DEF Peak!HaltFails, Peak!Idle, Peak!Faulty
<1>14. ASSUME NEW halted \in BOOLEAN, Peak!Operator(halted) PROVE PeakInv'
  BY <1>14 DEF Peak!Operator, Peak!SetHalted
<1>15. CASE UNCHANGED Peak!vars
  BY <1>15 DEF Peak!vars
<1> QED
  BY <1>1, <1>2, <1>3, <1>4, <1>5, <1>6, <1>7, <1>8, <1>9, <1>10, <1>11, <1>12, <1>13, <1>14, <1>15 DEF Peak!Next

\* UpdatePeakValue (pgx_repository.go:156) and FinalizeTrade's GREATEST (319): whatever the order
\* of a heartbeat's and an order's reads and writes, no raise of the peak is lost.
THEOREM NoRaiseIsLost == Spec => [](part = "drawdown" => Peak!HighestIsKept)
<1> DEFINE Inv == part = "drawdown" => PeakInv
<1>1. Inv => (part = "drawdown" => Peak!HighestIsKept)
  BY DEF PeakInv, PeakTyped, Remembered, Peak!HighestIsKept
<1>2. Init => Inv
  BY ServicesAssumption, PeakInit DEF Init
<1>3. Inv /\ [Next]_vars => Inv'
  BY ServicesAssumption, StepOfPeak, PeakStep
<1> QED BY <1>1, <1>2, <1>3, PTL DEF Spec

-----------------------------------------------------------------------------
(* The breaker: its errors are the failures since the last answer. *)

BreakerStates == {"closed", "open", "half_open"}

\* Nothing has gone wrong.
NoWrong == {{}}
Past == [streak : Int, since : Int, sent : Int, wrong : NoWrong]

BreakerTyped ==
  /\ clock \in Int /\ past.since <= clock
  /\ breaker \in [state : BreakerStates, errors : Int, openedAt : Int]
  /\ past \in Past

\* The breaker counts the failures since the last answer, is closed while they are few, and what it
\* dates its opening by is not before the failure that made them many.
Agreed ==
  /\ breaker.errors = past.streak
  /\ breaker.state = "closed" <=> ~Breaker!Broken
  /\ breaker.state # "closed" => breaker.openedAt >= past.since
  /\ breaker.state = "half_open" => Breaker!Cooled

BreakerInv == BreakerTyped /\ Agreed

\* What an update of some counters leaves and changes.
LEMMA PastFields ==
  ASSUME past \in Past, NEW streak \in Int, NEW since \in Int, NEW sent \in Int
  PROVE  /\ past' = [past EXCEPT !.streak = streak, !.since = since] =>
              past' \in Past /\ past'.streak = streak /\ past'.since = since
         /\ past' = [past EXCEPT !.streak = streak] =>
              past' \in Past /\ past'.streak = streak /\ past'.since = past.since
         /\ past' = [past EXCEPT !.sent = sent, !.wrong = past.wrong] =>
              past' \in Past /\ past'.streak = past.streak /\ past'.since = past.since
BY DEF Past

LEMMA ClosedFields ==
  ASSUME NEW r \in [state : BreakerStates, errors : Int, openedAt : Int],
         NEW state \in BreakerStates, NEW errors \in Int
  PROVE  LET u == [r EXCEPT !.state = state, !.errors = errors] IN
           u \in [state : BreakerStates, errors : Int, openedAt : Int] /\ u.state = state /\ u.errors = errors
OBVIOUS

LEMMA BreakerInit == Breaker!PrismAssumption /\ Breaker!Init => BreakerInv
BY DEF Breaker!PrismAssumption, Breaker!Init, BreakerInv, BreakerTyped, BreakerStates, Past, NoWrong, Agreed, Breaker!Broken

LEMMA BreakerStep == Breaker!PrismAssumption /\ BreakerInv /\ [Breaker!Next]_(Breaker!vars) => BreakerInv'
<1> SUFFICES ASSUME Breaker!PrismAssumption, BreakerInv, [Breaker!Next]_(Breaker!vars) PROVE BreakerInv'
  OBVIOUS
<1>0. /\ past \in Past /\ past.streak \in Int /\ past.since \in Int /\ past.sent \in Int /\ past.wrong = {}
      /\ past.streak + 1 \in Int /\ past.sent + 1 \in Int
  BY DEF BreakerInv, BreakerTyped, Past, NoWrong
<1> USE DEF BreakerStates, Breaker!PrismAssumption, BreakerInv, BreakerTyped, Agreed, Breaker!Broken, Breaker!Cooled
<1>1. CASE Breaker!Tick
  BY <1>0, <1>1 DEF Breaker!Tick
<1>2. ASSUME NEW a \in Callers, Breaker!Admit(a) PROVE BreakerInv'
  <2>1. ~(Breaker!Broken /\ ~Breaker!Cooled)
    BY <1>0, <1>2 DEF Breaker!Admit
  <2>2. past' = [past EXCEPT !.sent = past.sent + 1, !.wrong = past.wrong] /\ UNCHANGED clock
    BY <1>2, <2>1 DEF Breaker!Admit
  <2>3. /\ past' \in Past
        /\ past'.streak = past.streak /\ past'.since = past.since
    BY <2>2, <1>0, PastFields
  <2>4. CASE UNCHANGED breaker
    BY <1>0, <2>2, <2>3, <2>4
  <2>5. CASE breaker.state = "open" /\ clock - breaker.openedAt >= Cooldown /\ breaker' = [breaker EXCEPT !.state = "half_open"]
    BY <1>0, <2>2, <2>3, <2>5
  <2> QED BY <1>2, <2>4, <2>5 DEF Breaker!Admit
<1>3. ASSUME NEW a \in Callers, Breaker!Refuse(a) PROVE BreakerInv'
  <2>1. breaker.state = "open" /\ Breaker!Broken /\ UNCHANGED <<clock, breaker>>
    BY <1>3 DEF Breaker!Refuse
  <2>2. past' = [past EXCEPT !.wrong = past.wrong]
    BY <1>3, <2>1 DEF Breaker!Refuse
  <2>3. past' = past
    BY <2>2 DEF Past
  <2> QED BY <1>0, <2>1, <2>3
<1>4. ASSUME NEW a \in Callers, Breaker!Answered(a) PROVE BreakerInv'
  <2>1. /\ breaker' = [breaker EXCEPT !.state = "closed", !.errors = 0]
        /\ past' = [past EXCEPT !.streak = 0] /\ UNCHANGED clock
    BY <1>4 DEF Breaker!Answered
  <2>2. /\ past' \in Past
        /\ past'.streak = 0 /\ past'.since = past.since
    <3> HIDE DEF BreakerInv, BreakerTyped, Agreed, Breaker!Broken, Breaker!Cooled
    <3>1. past \in Past /\ 0 \in Int /\ past.since \in Int /\ past.sent \in Int
      BY <1>0
    <3>2. past' = [past EXCEPT !.streak = 0]
      BY <2>1
    <3> QED BY <3>1, <3>2 DEF Past
  <2>3. /\ breaker' \in [state : BreakerStates, errors : Int, openedAt : Int]
        /\ breaker'.state = "closed" /\ breaker'.errors = 0
    <3> HIDE DEF BreakerStates, Breaker!PrismAssumption, BreakerInv, BreakerTyped, Agreed, Breaker!Broken, Breaker!Cooled
    <3>1. breaker \in [state : BreakerStates, errors : Int, openedAt : Int]
      BY DEF BreakerInv, BreakerTyped
    <3>2. breaker' = [breaker EXCEPT !.state = "closed", !.errors = 0]
      BY <2>1
    <3>3. "closed" \in BreakerStates /\ 0 \in Int
      BY DEF BreakerStates
    <3> QED BY <3>1, <3>2, <3>3, ClosedFields
  <2>4. ~(past'.streak >= FailureThreshold)
    BY <2>2
  <2> QED BY <1>0, <2>1, <2>2, <2>3, <2>4
<1>5. ASSUME NEW a \in Callers, Breaker!Failed(a) PROVE BreakerInv'
  <2> DEFINE errors == breaker.errors + 1
             opens == errors >= FailureThreshold /\ breaker.state # "open"
             since == IF past.streak + 1 = FailureThreshold THEN clock ELSE past.since
  <2>1. /\ breaker' = IF opens THEN [state |-> "open", errors |-> errors, openedAt |-> clock]
                               ELSE [breaker EXCEPT !.errors = errors]
        /\ past' = [past EXCEPT !.streak = past.streak + 1, !.since = since]
        /\ UNCHANGED clock
    BY <1>5 DEF Breaker!Failed
  <2>2. since \in Int /\ clock >= since
    BY <1>0
  <2>3. /\ past' \in Past
        /\ past'.streak = past.streak + 1 /\ past'.since = since
    <3> HIDE DEF since
    <3> QED BY <2>1, <2>2, <1>0, PastFields
  <2>4. CASE opens
    <3>1. breaker' = [state |-> "open", errors |-> errors, openedAt |-> clock]
      BY <2>1, <2>4
    <3> QED BY <1>0, <2>1, <2>2, <2>3, <2>4, <3>1
  <2>5. CASE ~opens
    <3>1. breaker' = [breaker EXCEPT !.errors = errors]
      BY <2>1, <2>5
    <3> QED BY <1>0, <2>1, <2>2, <2>3, <2>5, <3>1
  <2> QED BY <2>4, <2>5
<1>6. CASE UNCHANGED Breaker!vars
  BY <1>6 DEF Breaker!vars
<1> QED BY <1>1, <1>2, <1>3, <1>4, <1>5, <1>6 DEF Breaker!Next

\* beforeCall and afterCall: however calls overlap, a broken API is left alone for the cooldown
\* and no call is refused unless the last FailureThreshold outcomes were failures.
THEOREM BreakerIsJust == Spec => [](part = "prism" => Breaker!BreakerJudgesByOutcomes)
<1> DEFINE Inv == part = "prism" => BreakerInv
<1>1. Inv => (part = "prism" => Breaker!BreakerJudgesByOutcomes)
  BY DEF BreakerInv, BreakerTyped, Past, NoWrong, Breaker!BreakerJudgesByOutcomes
<1>2. Init => Inv
  BY ServicesAssumption, BreakerInit DEF Init
<1>3. Inv /\ [Next]_vars => Inv'
  BY ServicesAssumption, StepOfBreaker, BreakerStep
<1> QED BY <1>1, <1>2, <1>3, PTL DEF Spec

-----------------------------------------------------------------------------
(* The inductive invariant. *)

ChainFields == {"mined", "pool", "router", "faults"}
CallFields == {"pc", "intent", "tries", "attempt", "nonce", "fee", "sent", "told"}

IsSequence(s) == \E S : s \in Seq(S)

Shaped ==
  /\ ChainFields \subseteq DOMAIN eth /\ IsSequence(eth.mined) /\ eth.router \in Nat
  /\ DOMAIN trades = Txs!Calls
  /\ \A c \in Txs!Calls : CallFields \subseteq DOMAIN trades[c] /\ trades[c].tries \in Nat

\* Every transaction the node holds.
HeldTxs == eth.pool \cup {eth.mined[i].tx : i \in DOMAIN eth.mined}

\* Every transaction of a call carries the call's intent; those of the SendTx it is in carry
\* that one's nonce, and there are none before the nonce is read.
Fits(r, c, T) ==
  \A t \in T : t.by = c =>
    /\ r.pc \notin {"idle", "nonce"} /\ t.intent = r.intent
    /\ t.try \in Nat /\ t.try <= r.tries
    /\ t.try = r.tries => r.pc \notin {"enter", "prepare"} /\ t.nonce = r.nonce

CallsFit == \A c \in Txs!Calls : Fits(trades[c], c, HeldTxs)

\* The transactions of one SendTx have one nonce.
OneNonce == \A t, u \in HeldTxs : t.by = u.by /\ t.try = u.try => t.nonce = u.nonce

\* The chain takes the nonces in order.
InOrder == \A i \in DOMAIN eth.mined : eth.mined[i].tx.nonce = i - 1

Approved(i) == i \in DOMAIN eth.mined /\ eth.mined[i].result = "approved"

\* The router approves every intent nonce once.
IntentsOnce ==
  /\ \A i \in DOMAIN eth.mined : Approved(i) => eth.mined[i].tx.intent \in Nat /\ eth.mined[i].tx.intent < eth.router
  /\ \A i, j \in DOMAIN eth.mined :
       Approved(i) /\ Approved(j) /\ eth.mined[i].tx.intent = eth.mined[j].tx.intent => i = j

\* The approvals of a call's transactions.
Granted(c) == {i \in DOMAIN eth.mined : eth.mined[i].tx.by = c /\ eth.mined[i].result = "approved"}

\* A call waits for receipts of its own transactions.
OwnReceipts ==
  \A c \in Txs!Calls : /\ \A t \in trades[c].sent : t.by = c
                       /\ trades[c].told = "approved" => Granted(c) # {}

SendInv == Shaped /\ CallsFit /\ OneNonce /\ InOrder /\ IntentsOnce /\ OwnReceipts

-----------------------------------------------------------------------------
(* What a step of a trades may do. *)

\* From r to q: the intent stays once it is read, the nonce as long as the SendTx lasts.
Evolves(r, q) ==
  /\ CallFields \subseteq DOMAIN q /\ q.tries \in Nat
  /\ \/ r.pc \in {"idle", "nonce"}
     \/ /\ q.pc \notin {"idle", "nonce"} /\ q.intent = r.intent
        /\ \/ q.tries > r.tries
           \/ /\ q.tries = r.tries
              /\ \/ r.pc \in {"enter", "prepare"}
                 \/ q.pc \notin {"enter", "prepare"} /\ q.nonce = r.nonce

Learns(c, q) ==
  /\ q.sent \subseteq trades[c].sent \cup {Txs!Tx(c)}
  /\ \/ q.told # "approved"
     \/ q.told = trades[c].told
     \/ \E i \in Txs!Receipts(trades[c].sent) : eth.mined[i].result = "approved"

Becomes(c, q) ==
  /\ trades' = [trades EXCEPT ![c] = q]
  /\ Evolves(trades[c], q) /\ Learns(c, q)

PoolGrows(c) ==
  \/ eth'.pool \subseteq eth.pool
  \/ Txs!At(c, "send") /\ eth'.pool \subseteq eth.pool \cup {Txs!Tx(c)}

Moves(c) ==
  /\ trades' = trades \/ \E q : Becomes(c, q)
  /\ ChainFields \subseteq DOMAIN eth' /\ eth'.mined = eth.mined /\ eth'.router = eth.router
  /\ PoolGrows(c)

LEMMA ToldMoves ==
  ASSUME Shaped, NEW c \in Txs!Calls, NEW what, Txs!Told(c, what),
         \/ what # "approved"
         \/ \E i \in Txs!Receipts(trades[c].sent) : eth.mined[i].result = what
  PROVE  \E q : Becomes(c, q)
<1> DEFINE q == [trades[c] EXCEPT !.pc = "done", !.told = what]
<1>1. trades' = [trades EXCEPT ![c] = q]
  BY DEF Txs!Told, Shaped, CallFields
<1>2. Evolves(trades[c], q)
  BY DEF Evolves, Shaped, CallFields
<1>3. Learns(c, q)
  BY DEF Learns, Shaped, CallFields
<1> QED BY <1>1, <1>2, <1>3 DEF Becomes

LEMMA SendFailsMoves ==
  ASSUME Shaped, NEW c \in Txs!Calls, NEW technical, Txs!SendFails(c, technical), ~ Txs!At(c, "idle"), ~ Txs!At(c, "nonce")
  PROVE  \E q : Becomes(c, q)
<1>1. CASE technical /\ c \notin Posts /\ trades[c].tries < MaxGateAttempts
  <2> DEFINE q == [Txs!Fresh EXCEPT !.pc = "enter", !.intent = trades[c].intent, !.tries = trades[c].tries + 1]
  <2>1. trades' = [trades EXCEPT ![c] = q]
    BY <1>1 DEF Txs!SendFails
  <2>2. Evolves(trades[c], q)
    BY DEF Evolves, Shaped, CallFields, Txs!Fresh
  <2>3. Learns(c, q)
    BY DEF Learns, Txs!Fresh
  <2> QED BY <2>1, <2>2, <2>3 DEF Becomes
<1>2. CASE ~ (technical /\ c \notin Posts /\ trades[c].tries < MaxGateAttempts)
  <2>1. Txs!Told(c, "error")
    BY <1>2 DEF Txs!SendFails
  <2> QED BY <2>1, ToldMoves
<1> QED BY <1>1, <1>2

\* A call that goes on in the same SendTx, or before one.
LEMMA GoesOn ==
  ASSUME Shaped, NEW c \in Txs!Calls, NEW q, trades' = [trades EXCEPT ![c] = q],
         CallFields \subseteq DOMAIN q, q.tries = trades[c].tries, q.told = trades[c].told,
         q.sent \subseteq trades[c].sent \cup {Txs!Tx(c)},
         \/ trades[c].pc \in {"idle", "nonce"}
         \/ /\ q.pc \notin {"idle", "nonce"} /\ q.intent = trades[c].intent
            /\ \/ trades[c].pc \in {"enter", "prepare"}
               \/ q.pc \notin {"enter", "prepare"} /\ q.nonce = trades[c].nonce
  PROVE  \E p : Becomes(c, p)
BY DEF Becomes, Evolves, Learns, Shaped

\* A step that leaves the chain alone, or counts a fault on it.
LEMMA ChainStays ==
  ASSUME Shaped, NEW c \in Txs!Calls, UNCHANGED eth \/ Txs!Fault
  PROVE  /\ ChainFields \subseteq DOMAIN eth' /\ eth'.mined = eth.mined /\ eth'.router = eth.router
         /\ PoolGrows(c)
BY DEF Shaped, ChainFields, Txs!Fault, PoolGrows

\* A step that hands the call's transaction to the node.
LEMMA ChainTakes ==
  ASSUME Shaped, NEW c \in Txs!Calls, Txs!At(c, "send"),
         \/ eth' = [eth EXCEPT !.pool = Txs!Pooled(c)]
         \/ eth' = [eth EXCEPT !.pool = Txs!Pooled(c), !.faults = @ + 1]
  PROVE  /\ ChainFields \subseteq DOMAIN eth' /\ eth'.mined = eth.mined /\ eth'.router = eth.router
         /\ PoolGrows(c)
BY DEF Shaped, ChainFields, Txs!Pooled, PoolGrows

-----------------------------------------------------------------------------
(* The steps before the transaction. *)

LEMMA GateMoves ==
  ASSUME Shaped, NEW c \in Txs!Calls,
         Txs!LockAgent(c) \/ Txs!SkipGate(c) \/ Txs!GetIntentNonce(c) \/ Txs!GetIntentNonceFails(c) \/ Txs!PostEIP712Attestation(c)
  PROVE  Moves(c)
<1>1. CASE Txs!LockAgent(c)
  <2>1. trades' = [trades EXCEPT ![c] = [trades[c] EXCEPT !.pc = "nonce"]]
    BY <1>1 DEF Txs!LockAgent, Txs!Goto
  <2>2. \E q : Becomes(c, q)
    BY <1>1, <2>1, GoesOn DEF Txs!LockAgent, Txs!At, Shaped, CallFields
  <2> QED BY <1>1, <2>2, ChainStays DEF Txs!LockAgent, Moves
<1>2. CASE Txs!SkipGate(c)
  <2>1. \E q : Becomes(c, q)
    BY <1>2, ToldMoves DEF Txs!SkipGate
  <2> QED BY <1>2, <2>1, ChainStays DEF Txs!SkipGate, Moves
<1>3. CASE Txs!GetIntentNonce(c)
  <2>1. trades' = [trades EXCEPT ![c] = [trades[c] EXCEPT !.pc = "enter", !.intent = eth.router]]
    BY <1>3 DEF Txs!GetIntentNonce, Shaped
  <2>2. \E q : Becomes(c, q)
    BY <1>3, <2>1, GoesOn DEF Txs!GetIntentNonce, Txs!At, Shaped, CallFields
  <2> QED BY <1>3, <2>2, ChainStays DEF Txs!GetIntentNonce, Moves
<1>4. CASE Txs!GetIntentNonceFails(c)
  <2>1. trades' = trades \/ Txs!Told(c, "error")
    BY <1>4 DEF Txs!GetIntentNonceFails
  <2>2. trades' = trades \/ \E q : Becomes(c, q)
    BY <2>1, ToldMoves
  <2> QED BY <1>4, <2>2, ChainStays DEF Txs!GetIntentNonceFails, Moves
<1>5. CASE Txs!PostEIP712Attestation(c)
  <2>1. trades' = [trades EXCEPT ![c] = [trades[c] EXCEPT !.pc = "enter"]]
    BY <1>5 DEF Txs!PostEIP712Attestation, Txs!Goto
  <2>2. \E q : Becomes(c, q)
    BY <1>5, <2>1, GoesOn DEF Txs!PostEIP712Attestation, Txs!At, Shaped, CallFields
  <2> QED BY <1>5, <2>2, ChainStays DEF Txs!PostEIP712Attestation, Moves
<1> QED BY <1>1, <1>2, <1>3, <1>4, <1>5

LEMMA PrepareMoves ==
  ASSUME Shaped, NEW c \in Txs!Calls, Txs!TakeMutex(c) \/ Txs!Prepare(c) \/ Txs!PrepareFails(c)
  PROVE  Moves(c)
<1>1. CASE Txs!TakeMutex(c)
  <2>1. trades' = [trades EXCEPT ![c] = [trades[c] EXCEPT !.pc = "prepare"]]
    BY <1>1 DEF Txs!TakeMutex, Txs!Goto
  <2>2. \E q : Becomes(c, q)
    BY <1>1, <2>1, GoesOn DEF Txs!TakeMutex, Txs!At, Shaped, CallFields
  <2> QED BY <1>1, <2>2, ChainStays DEF Txs!TakeMutex, Moves
<1>2. CASE Txs!Prepare(c)
  <2>1. PICK n, fee : trades' = [trades EXCEPT ![c] = [trades[c] EXCEPT !.pc = "send", !.nonce = n, !.fee = fee]]
    <3>1. PICK fee \in 1..MaxFee :
            trades' = [trades EXCEPT ![c].pc = "send", ![c].nonce = Txs!PendingNonceAt, ![c].fee = fee]
      BY <1>2 DEF Txs!Prepare
    <3> DEFINE n == Txs!PendingNonceAt
    <3>2. trades' = [trades EXCEPT ![c].pc = "send", ![c].nonce = n, ![c].fee = fee]
      BY <3>1
    <3> HIDE DEF n
    <3>3. trades' = [trades EXCEPT ![c] = [trades[c] EXCEPT !.pc = "send", !.nonce = n, !.fee = fee]]
      BY <3>2 DEF Shaped
    <3> QED BY <3>3
  <2>2. \E q : Becomes(c, q)
    BY <1>2, <2>1, GoesOn DEF Txs!Prepare, Txs!At, Shaped, CallFields
  <2> QED BY <1>2, <2>2, ChainStays DEF Txs!Prepare, Moves
<1>3. CASE Txs!PrepareFails(c)
  <2>1. PICK technical \in BOOLEAN : Txs!SendFails(c, technical)
    BY <1>3 DEF Txs!PrepareFails
  <2>2. \E q : Becomes(c, q)
    BY <1>3, <2>1, SendFailsMoves DEF Txs!PrepareFails, Txs!At
  <2> QED BY <1>3, <2>2, ChainStays DEF Txs!PrepareFails, Moves
<1> QED BY <1>1, <1>2, <1>3

-----------------------------------------------------------------------------
(* The steps of SendTx with a transaction. *)

LEMMA BumpMoves ==
  ASSUME Shaped, NEW c \in Txs!Calls, Txs!At(c, "send") \/ Txs!At(c, "wait"), trades' = [trades EXCEPT ![c] = Txs!Bumped(c)]
  PROVE  \E q : Becomes(c, q)
<1> DEFINE q == Txs!Bumped(c)
<1>1. /\ CallFields \subseteq DOMAIN q /\ q.tries = trades[c].tries /\ q.told = trades[c].told
      /\ q.sent = trades[c].sent /\ q.pc = "send" /\ q.intent = trades[c].intent /\ q.nonce = trades[c].nonce
  BY DEF Txs!Bumped, Shaped, CallFields
<1> HIDE DEF q
<1>2. trades' = [trades EXCEPT ![c] = q]
  BY DEF q
<1> QED BY <1>1, <1>2, GoesOn

\* The receipt is one of the call's own transactions: what it tells happened.
LEMMA ReceiptMoves ==
  ASSUME Shaped, NEW c \in Txs!Calls, NEW i \in Txs!Receipts(trades[c].sent), Txs!HandleReceipt(c, i)
  PROVE  \E q : Becomes(c, q)
<1>1. Txs!Told(c, eth.mined[i].result)
  BY DEF Txs!HandleReceipt
<1>2. \E k \in Txs!Receipts(trades[c].sent) : eth.mined[k].result = eth.mined[i].result
  OBVIOUS
<1> QED BY <1>1, <1>2, ToldMoves

LEMMA SubmitMoves ==
  ASSUME Shaped, NEW c \in Txs!Calls, Txs!SendTransaction(c) \/ Txs!SendTransactionFails(c)
  PROVE  Moves(c)
<1>1. CASE Txs!SendTransaction(c)
  <2> DEFINE t == Txs!Tx(c)
             q == [trades[c] EXCEPT !.pc = "wait", !.sent = @ \cup {t}]
  <2>1. trades' = [trades EXCEPT ![c] = q]
    <3>1. trades' = [trades EXCEPT ![c].pc = "wait", ![c].sent = @ \cup {t}]
      BY <1>1 DEF Txs!SendTransaction
    <3> HIDE DEF t
    <3> QED BY <3>1 DEF Shaped
  <2>2. /\ CallFields \subseteq DOMAIN q /\ q.tries = trades[c].tries /\ q.told = trades[c].told
        /\ q.sent \subseteq trades[c].sent \cup {t}
        /\ q.pc = "wait" /\ q.intent = trades[c].intent /\ q.nonce = trades[c].nonce
    <3> HIDE DEF t
    <3> QED BY DEF Shaped, CallFields
  <2> HIDE DEF q
  <2>3. \E p : Becomes(c, p)
    BY <2>1, <2>2, GoesOn
  <2>4. eth' = [eth EXCEPT !.pool = Txs!Pooled(c)] /\ Txs!At(c, "send")
    BY <1>1 DEF Txs!SendTransaction
  <2> QED BY <2>3, <2>4, ChainTakes DEF Moves
<1>2. CASE Txs!SendTransactionFails(c)
  <2>1. PICK technical \in BOOLEAN : Txs!SendFails(c, technical)
    BY <1>2 DEF Txs!SendTransactionFails
  <2>2. \E q : Becomes(c, q)
    BY <1>2, <2>1, SendFailsMoves DEF Txs!SendTransactionFails, Txs!At
  <2>3. Txs!At(c, "send") /\ (Txs!Fault \/ eth' = [eth EXCEPT !.pool = Txs!Pooled(c), !.faults = @ + 1])
    BY <1>2 DEF Txs!SendTransactionFails
  <2> QED BY <2>2, <2>3, ChainStays, ChainTakes DEF Moves
<1> QED BY <1>1, <1>2

LEMMA AnswerMoves ==
  ASSUME Shaped, NEW c \in Txs!Calls,
         Txs!NonceTooLow(c) \/ Txs!ReplacementUnderpriced(c) \/ Txs!Confirmed(c) \/ Txs!TimedOut(c)
  PROVE  Moves(c)
<1>1. CASE Txs!NonceTooLow(c)
  <2>1. \E q : Becomes(c, q)
    BY <1>1, ReceiptMoves, SendFailsMoves DEF Txs!NonceTooLow, Txs!At
  <2>2. UNCHANGED eth \/ Txs!Fault
    BY <1>1 DEF Txs!NonceTooLow
  <2> QED BY <2>1, <2>2, ChainStays DEF Moves
<1>2. CASE Txs!ReplacementUnderpriced(c)
  <2>1. \/ trades' = [trades EXCEPT ![c] = Txs!Bumped(c)]
        \/ Txs!Goto(c, "wait")
        \/ Txs!SendFails(c, FALSE)
    BY <1>2 DEF Txs!ReplacementUnderpriced
  <2>2. Txs!At(c, "send")
    BY <1>2 DEF Txs!ReplacementUnderpriced
  <2>3. ASSUME Txs!Goto(c, "wait") PROVE \E q : Becomes(c, q)
    <3>1. trades' = [trades EXCEPT ![c] = [trades[c] EXCEPT !.pc = "wait"]]
      BY <2>3 DEF Txs!Goto
    <3> QED BY <2>2, <3>1, GoesOn DEF Txs!At, Shaped, CallFields
  <2>4. \E q : Becomes(c, q)
    BY <2>1, <2>2, <2>3, BumpMoves, SendFailsMoves DEF Txs!At
  <2> QED BY <1>2, <2>4, ChainStays DEF Txs!ReplacementUnderpriced, Moves
<1>3. CASE Txs!Confirmed(c)
  <2>1. \E q : Becomes(c, q)
    BY <1>3, ReceiptMoves DEF Txs!Confirmed
  <2> QED BY <1>3, <2>1, ChainStays DEF Txs!Confirmed, Moves
<1>4. CASE Txs!TimedOut(c)
  <2>1. Txs!SendFails(c, FALSE) \/ trades' = [trades EXCEPT ![c] = Txs!Bumped(c)]
    BY <1>4 DEF Txs!TimedOut
  <2>2. \E q : Becomes(c, q)
    BY <1>4, <2>1, BumpMoves, SendFailsMoves DEF Txs!TimedOut, Txs!At
  <2> QED BY <1>4, <2>2, ChainStays DEF Txs!TimedOut, Moves
<1> QED BY <1>1, <1>2, <1>3, <1>4

-----------------------------------------------------------------------------
(* A step of a trades keeps the invariant. *)

\* The node holds nothing new but the transaction the call sends.
LEMMA TxsOfMoves ==
  ASSUME NEW c \in Txs!Calls, Moves(c)
  PROVE  HeldTxs' \subseteq HeldTxs \/ (Txs!At(c, "send") /\ HeldTxs' \subseteq HeldTxs \cup {Txs!Tx(c)})
BY DEF Moves, PoolGrows, HeldTxs

LEMMA FitsAfterMoves ==
  ASSUME Shaped, CallsFit, NEW c \in Txs!Calls, NEW q, Evolves(trades[c], q), NEW T,
         T \subseteq HeldTxs \/ (Txs!At(c, "send") /\ T \subseteq HeldTxs \cup {Txs!Tx(c)})
  PROVE  Fits(q, c, T)
<1> SUFFICES ASSUME NEW t \in T, t.by = c
             PROVE  /\ q.pc \notin {"idle", "nonce"} /\ t.intent = q.intent
                    /\ t.try \in Nat /\ t.try <= q.tries
                    /\ t.try = q.tries => q.pc \notin {"enter", "prepare"} /\ t.nonce = q.nonce
  BY DEF Fits
<1>1. CASE t \in HeldTxs
  BY <1>1 DEF Fits, CallsFit, Evolves, Shaped
<1>2. CASE t \notin HeldTxs
  <2>1. Txs!At(c, "send") /\ t = Txs!Tx(c)
    BY <1>2
  <2>2. t.intent = trades[c].intent /\ t.try = trades[c].tries /\ t.nonce = trades[c].nonce /\ trades[c].pc = "send"
    BY <2>1 DEF Txs!Tx, Txs!At
  <2> QED BY <2>2 DEF Evolves, Shaped
<1> QED BY <1>1, <1>2

LEMMA MovesKeepInv ==
  ASSUME SendInv, NEW c \in Txs!Calls, Moves(c)
  PROVE  SendInv'
<1> USE DEF SendInv
<1>1. HeldTxs' \subseteq HeldTxs \/ (Txs!At(c, "send") /\ HeldTxs' \subseteq HeldTxs \cup {Txs!Tx(c)})
  BY TxsOfMoves
<1>2. /\ eth'.mined = eth.mined /\ eth'.router = eth.router
      /\ ChainFields \subseteq DOMAIN eth'
  BY DEF Moves
<1>3. \E q : /\ Evolves(trades[c], q) \/ q = trades[c]
             /\ Learns(c, q)
             /\ DOMAIN trades' = Txs!Calls /\ trades'[c] = q
             /\ \A d \in Txs!Calls \ {c} : trades'[d] = trades[d]
  <2>1. CASE trades' = trades
    BY <2>1 DEF Learns, Shaped
  <2>2. CASE \E q : Becomes(c, q)
    BY <2>2 DEF Becomes, Shaped
  <2> QED BY <2>1, <2>2 DEF Moves
<1>4. PICK q : /\ Evolves(trades[c], q) \/ q = trades[c]
               /\ Learns(c, q)
               /\ DOMAIN trades' = Txs!Calls /\ trades'[c] = q
               /\ \A d \in Txs!Calls \ {c} : trades'[d] = trades[d]
  BY <1>3
<1>5. Evolves(trades[c], q)
  BY <1>4 DEF Evolves, Shaped
<1>6. Shaped'
  BY <1>2, <1>4, <1>5 DEF Shaped, Evolves, IsSequence
<1>7. CallsFit'
  <2> SUFFICES ASSUME NEW d \in Txs!Calls PROVE Fits(trades'[d], d, HeldTxs')
    BY DEF CallsFit, Fits
  <2>1. CASE d = c
    BY <1>1, <1>4, <1>5, <2>1, FitsAfterMoves
  <2>2. CASE d # c
    <3>1. \A t \in HeldTxs' : t.by = d => t \in HeldTxs
      BY <1>1, <2>2 DEF Txs!Tx
    <3> QED BY <1>4, <2>2, <3>1 DEF CallsFit, Fits
  <2> QED BY <2>1, <2>2
<1>8. OneNonce'
  <2> SUFFICES ASSUME NEW t \in HeldTxs', NEW u \in HeldTxs', t.by = u.by, t.try = u.try PROVE t.nonce = u.nonce
    BY DEF OneNonce
  <2>1. \A v \in HeldTxs' : v \in HeldTxs \/ v = Txs!Tx(c)
    BY <1>1
  <2>2. \A v \in HeldTxs : v.by = c /\ v.try = trades[c].tries => v.nonce = trades[c].nonce
    BY DEF CallsFit, Fits
  <2>3. Txs!Tx(c).by = c /\ Txs!Tx(c).try = trades[c].tries /\ Txs!Tx(c).nonce = trades[c].nonce
    BY DEF Txs!Tx
  <2> QED BY <2>1, <2>2, <2>3 DEF OneNonce
<1>9. InOrder' /\ IntentsOnce'
  BY <1>2 DEF InOrder, IntentsOnce, Approved
<1>10. OwnReceipts'
  <2> SUFFICES ASSUME NEW d \in Txs!Calls
               PROVE  /\ \A t \in trades'[d].sent : t.by = d
                      /\ trades'[d].told = "approved" => Granted(d)' # {}
    BY DEF OwnReceipts, Granted
  <2>1. Granted(d)' = Granted(d)
    BY <1>2 DEF Granted
  <2>2. CASE d # c
    BY <1>4, <2>1, <2>2 DEF OwnReceipts
  <2>3. CASE d = c
    <3>1. \A t \in q.sent : t.by = c
      BY <1>4 DEF Learns, OwnReceipts, Txs!Tx
    <3>2. (\E i \in Txs!Receipts(trades[c].sent) : eth.mined[i].result = "approved") => Granted(c) # {}
      BY DEF Txs!Receipts, OwnReceipts, Granted
    <3>3. q.told = "approved" => Granted(c) # {}
      BY <1>4, <3>2 DEF Learns, OwnReceipts
    <3> QED BY <1>4, <2>1, <2>3, <3>1, <3>3
  <2> QED BY <2>2, <2>3
<1> QED BY <1>6, <1>7, <1>8, <1>9, <1>10

-----------------------------------------------------------------------------
(* A step of the eth keeps it. *)

LEMMA DroppedKeepsInv ==
  ASSUME SendInv, Txs!Dropped
  PROVE  SendInv'
<1>1. /\ eth'.mined = eth.mined /\ eth'.router = eth.router
      /\ ChainFields \subseteq DOMAIN eth' /\ eth'.pool \subseteq eth.pool
  BY DEF Txs!Dropped, SendInv, Shaped, ChainFields
<1>2. trades' = trades
  BY DEF Txs!Dropped
<1>3. HeldTxs' \subseteq HeldTxs
  BY <1>1 DEF HeldTxs
<1>4. Shaped' /\ InOrder' /\ IntentsOnce' /\ OwnReceipts'
  BY <1>1, <1>2 DEF SendInv, Shaped, InOrder, IntentsOnce, Approved, OwnReceipts, Granted,
      IsSequence
<1>5. CallsFit' /\ OneNonce'
  BY <1>2, <1>3 DEF SendInv, CallsFit, Fits, OneNonce
<1> QED BY <1>4, <1>5 DEF SendInv

LEMMA MineKeepsInv ==
  ASSUME SendInv, Txs!Mine
  PROVE  SendInv'
<1> DEFINE n == Len(eth.mined)
<1>1. PICK t, result :
        /\ t \in eth.pool /\ t.nonce = n
        /\ result = "approved" => t.intent = eth.router
        /\ eth'.mined = Append(eth.mined, [tx |-> t, result |-> result])
        /\ eth'.router = IF result = "approved" THEN eth.router + 1 ELSE eth.router
        /\ eth'.pool \subseteq eth.pool /\ ChainFields \subseteq DOMAIN eth'
  <2>1. PICK t \in eth.pool, willing \in BOOLEAN :
          /\ t.nonce = n
          /\ LET result == IF t.by \in Posts THEN (IF willing THEN "posted" ELSE "reverted")
                           ELSE IF willing /\ t.intent = eth.router THEN "approved" ELSE "rejected"
             IN eth' = [eth EXCEPT !.mined = Append(@, [tx |-> t, result |-> result]),
                                       !.pool = {u \in @ : u.nonce > t.nonce},
                                       !.router = IF result = "approved" THEN @ + 1 ELSE @]
    BY DEF Txs!Mine
  <2> DEFINE result == IF t.by \in Posts THEN (IF willing THEN "posted" ELSE "reverted")
                       ELSE IF willing /\ t.intent = eth.router THEN "approved" ELSE "rejected"
  <2>2. eth' = [eth EXCEPT !.mined = Append(@, [tx |-> t, result |-> result]),
                               !.pool = {u \in @ : u.nonce > t.nonce},
                               !.router = IF result = "approved" THEN @ + 1 ELSE @]
    BY <2>1
  <2>3. result = "approved" => t.intent = eth.router
    OBVIOUS
  <2> HIDE DEF result
  <2>4. /\ eth'.mined = Append(eth.mined, [tx |-> t, result |-> result])
        /\ eth'.router = IF result = "approved" THEN eth.router + 1 ELSE eth.router
        /\ eth'.pool \subseteq eth.pool /\ ChainFields \subseteq DOMAIN eth'
    BY <2>2 DEF SendInv, Shaped, ChainFields
  <2> QED BY <2>1, <2>3, <2>4
<1>2. trades' = trades
  BY DEF Txs!Mine
<1> DEFINE e == [tx |-> t, result |-> result]
<1>3. /\ n \in Nat /\ IsSequence(eth'.mined) /\ DOMAIN eth.mined = 1..n /\ DOMAIN eth'.mined = 1..(n + 1)
      /\ \A i \in 1..n : eth'.mined[i] = eth.mined[i]
      /\ eth'.mined[n + 1] = e
  <2>1. PICK S : eth.mined \in Seq(S)
    BY DEF SendInv, Shaped, IsSequence
  <2>2. eth.mined \in Seq(S \cup {e})
    BY <2>1
  <2> HIDE DEF e
  <2>3. eth'.mined \in Seq(S \cup {e})
    BY <1>1, <2>2, AppendProperties DEF e
  <2>4. /\ eth'.mined = Append(eth.mined, e)
    BY <1>1 DEF e
  <2> QED BY <2>2, <2>3, <2>4, AppendProperties, LenProperties DEF IsSequence
<1>4. e.tx = t /\ e.result = result
  OBVIOUS
<1> HIDE DEF e
<1>5. HeldTxs' \subseteq HeldTxs
  BY <1>1, <1>3, <1>4 DEF HeldTxs
<1>6. eth'.router \in Nat /\ eth.router \in Nat /\ eth.router <= eth'.router
  BY <1>1 DEF SendInv, Shaped
<1>7. Shaped'
  BY <1>1, <1>2, <1>3, <1>6 DEF SendInv, Shaped
<1>8. CallsFit' /\ OneNonce'
  BY <1>2, <1>5 DEF SendInv, CallsFit, Fits, OneNonce
<1> HIDE DEF n
<1>9. InOrder'
  <2> SUFFICES ASSUME NEW i \in 1..(n + 1) PROVE eth'.mined[i].tx.nonce = i - 1
    BY <1>3 DEF InOrder
  <2>1. CASE i \in 1..n
    BY <1>3, <2>1 DEF SendInv, InOrder
  <2>2. CASE i = n + 1
    BY <1>1, <1>3, <1>4, <2>2
  <2> QED BY <1>3, <2>1, <2>2
<1>10. IntentsOnce'
  <2>1. \A i \in 1..(n + 1) : \/ i \in 1..n /\ (Approved(i)' <=> Approved(i)) /\ eth'.mined[i] = eth.mined[i]
                              \/ i = n + 1 /\ (Approved(i)' <=> result = "approved") /\ eth'.mined[i].tx = t
    BY <1>3, <1>4 DEF Approved
  <2>2. \A i \in 1..n : Approved(i) => eth.mined[i].tx.intent \in Nat /\ eth.mined[i].tx.intent < eth.router
    BY <1>3 DEF SendInv, IntentsOnce
  <2>3. ASSUME NEW i \in 1..(n + 1), Approved(i)'
        PROVE  eth'.mined[i].tx.intent \in Nat /\ eth'.mined[i].tx.intent < eth'.router
    <3>1. CASE i \in 1..n /\ Approved(i) /\ eth'.mined[i] = eth.mined[i]
      <4>1. eth.mined[i].tx.intent \in Nat /\ eth.mined[i].tx.intent < eth.router
        BY <2>2, <3>1
      <4> QED BY <1>6, <3>1, <4>1
    <3>2. CASE result = "approved" /\ eth'.mined[i].tx = t
      <4>1. t.intent = eth.router /\ eth'.router = eth.router + 1
        BY <1>1, <3>2
      <4> QED BY <1>6, <3>2, <4>1
    <3> QED BY <2>1, <2>3, <3>1, <3>2
  <2>4. ASSUME NEW i \in 1..(n + 1), NEW j \in 1..(n + 1), Approved(i)', Approved(j)',
               eth'.mined[i].tx.intent = eth'.mined[j].tx.intent
        PROVE  i = j
    <3>1. CASE i \in 1..n /\ j \in 1..n
      <4>1. /\ Approved(i) /\ eth'.mined[i] = eth.mined[i]
            /\ Approved(j) /\ eth'.mined[j] = eth.mined[j]
        BY <1>3, <2>1, <2>4, <3>1
      <4>2. eth.mined[i].tx.intent = eth.mined[j].tx.intent
        BY <2>4, <4>1
      <4> QED BY <1>3, <3>1, <4>1, <4>2 DEF SendInv, IntentsOnce
    <3>2. ASSUME NEW k \in 1..n, NEW m \in {n + 1}, Approved(k)', Approved(m)',
                 eth'.mined[k].tx.intent = eth'.mined[m].tx.intent
          PROVE  FALSE
      <4>1. eth.mined[k].tx.intent \in Nat /\ eth.mined[k].tx.intent < eth.router
        BY <1>3, <2>1, <2>2, <3>2
      <4>2. eth'.mined[m].tx.intent = eth.router
        BY <1>1, <1>3, <2>1, <3>2
      <4>3. eth'.mined[k] = eth.mined[k]
        BY <1>3
      <4> QED BY <1>6, <3>2, <4>1, <4>2, <4>3
    <3>3. i \in 1..n \/ i \in {n + 1}
      BY <1>3
    <3>4. j \in 1..n \/ j \in {n + 1}
      BY <1>3
    <3> QED BY <2>4, <3>1, <3>2, <3>3, <3>4
  <2> QED BY <1>3, <2>3, <2>4 DEF IntentsOnce
<1>11. OwnReceipts'
  <2> SUFFICES ASSUME NEW d \in Txs!Calls
               PROVE  /\ \A u \in trades'[d].sent : u.by = d
                      /\ trades'[d].told = "approved" => Granted(d)' # {}
    BY DEF OwnReceipts, Granted
  <2>1. Granted(d) \subseteq Granted(d)'
    BY <1>3 DEF Granted
  <2> QED BY <1>2, <2>1 DEF SendInv, OwnReceipts
<1> QED BY <1>7, <1>8, <1>9, <1>10, <1>11 DEF SendInv

-----------------------------------------------------------------------------
LEMMA InitSends == Txs!Init => SendInv
<1> SUFFICES ASSUME Txs!Init PROVE SendInv
  OBVIOUS
<1>1. eth.mined = <<>> /\ eth.pool = {} /\ eth.router = 0 /\ ChainFields \subseteq DOMAIN eth
  BY DEF Txs!Init, ChainFields
<1>2. DOMAIN eth.mined = {} /\ IsSequence(eth.mined)
  BY <1>1 DEF IsSequence
<1>3. DOMAIN trades = Txs!Calls /\ \A c \in Txs!Calls : trades[c] = Txs!Fresh
  BY DEF Txs!Init
<1>4. Txs!Fresh.pc = "idle" /\ Txs!Fresh.tries = 1 /\ Txs!Fresh.sent = {} /\ Txs!Fresh.told = "nothing" /\ CallFields \subseteq DOMAIN Txs!Fresh
  BY DEF Txs!Fresh, CallFields
<1>5. Shaped
  BY <1>1, <1>2, <1>3, <1>4 DEF Shaped
<1>6. HeldTxs = {}
  BY <1>1, <1>2 DEF HeldTxs
<1>7. CallsFit /\ OneNonce
  BY <1>6 DEF CallsFit, Fits, OneNonce
<1>8. InOrder /\ IntentsOnce
  BY <1>2 DEF InOrder, IntentsOnce
<1>9. OwnReceipts
  BY <1>3, <1>4 DEF OwnReceipts
<1> QED BY <1>5, <1>7, <1>8, <1>9 DEF SendInv

LEMMA NextSends == SendInv /\ [Txs!Next]_(Txs!vars) => SendInv'
<1> SUFFICES ASSUME SendInv, [Txs!Next]_(Txs!vars) PROVE SendInv'
  OBVIOUS
<1>1. ASSUME NEW c \in Txs!Calls,
             \/ Txs!LockAgent(c) \/ Txs!SkipGate(c) \/ Txs!GetIntentNonce(c) \/ Txs!GetIntentNonceFails(c) \/ Txs!PostEIP712Attestation(c)
             \/ Txs!TakeMutex(c) \/ Txs!Prepare(c) \/ Txs!PrepareFails(c) \/ Txs!SendTransaction(c) \/ Txs!SendTransactionFails(c)
             \/ Txs!NonceTooLow(c) \/ Txs!ReplacementUnderpriced(c) \/ Txs!Confirmed(c) \/ Txs!TimedOut(c)
      PROVE  SendInv'
  <2>1. Moves(c)
    BY <1>1, GateMoves, PrepareMoves, SubmitMoves, AnswerMoves DEF SendInv
  <2> QED BY <2>1, MovesKeepInv
<1>2. CASE Txs!Mine
  BY <1>2, MineKeepsInv
<1>3. CASE Txs!Dropped
  BY <1>3, DroppedKeepsInv
<1>4. CASE UNCHANGED Txs!vars
  BY <1>4 DEF Txs!vars, SendInv, Shaped, CallsFit, OneNonce, InOrder, IntentsOnce, OwnReceipts, HeldTxs,
      Fits, Approved,
              Granted, IsSequence
<1> QED BY <1>1, <1>2, <1>3, <1>4 DEF Txs!Next

LEMMA ApprovedOnceFollows == SendInv => Txs!ApprovedOnce
<1> SUFFICES ASSUME SendInv, NEW c \in Txs!Calls
             PROVE  /\ trades[c].told = "approved" => Granted(c) # {}
                    /\ Txs!Cardinality(Granted(c)) <= 1
  BY DEF Txs!ApprovedOnce, Txs!Approvals, Granted
<1>1. \A i, j \in Granted(c) : i = j
  BY DEF SendInv, CallsFit, Fits, HeldTxs, IntentsOnce, Approved, Granted
<1>2. Granted(c) = {} \/ \E i : Granted(c) = {i}
  BY <1>1
<1>3. Cardinality(Granted(c)) <= 1
  <2>1. CASE Granted(c) = {}
    <3>1. Cardinality(Granted(c)) = 0
      BY <2>1, FS_EmptySet
    <3> QED BY <3>1
  <2>2. CASE \E i : Granted(c) = {i}
    <3>1. PICK i : Granted(c) = {i}
      BY <2>2
    <3>2. Cardinality({i}) = 1
      BY FS_Singleton
    <3> QED BY <3>1, <3>2
  <2> QED BY <1>2, <2>1, <2>2
<1>4. Txs!Cardinality(Granted(c)) = Cardinality(Granted(c))
  BY DEF Txs!Cardinality, Cardinality
<1> QED BY <1>3, <1>4 DEF SendInv, OwnReceipts

LEMMA OneMinedFollows == SendInv => Txs!OneMinedPerSend
<1> SUFFICES ASSUME SendInv, NEW i \in DOMAIN eth.mined, NEW j \in DOMAIN eth.mined,
                    eth.mined[i].tx.by = eth.mined[j].tx.by, eth.mined[i].tx.try = eth.mined[j].tx.try
             PROVE  i = j
  BY DEF Txs!OneMinedPerSend
<1>1. eth.mined[i].tx.nonce = eth.mined[j].tx.nonce
  BY DEF SendInv, OneNonce, HeldTxs
<1>2. i \in Nat /\ j \in Nat
  <2>1. PICK S : eth.mined \in Seq(S)
    BY DEF SendInv, Shaped, IsSequence
  <2> QED BY <2>1
<1> QED BY <1>1, <1>2 DEF SendInv, InOrder

\* SendTx, the gate and withTechnicalRetry: a trade that is told "approved" is approved on the
\* chain, no trade is approved twice, since all its transactions carry one intent nonce, and of
\* the transactions of one SendTx, bumped and sent again, the chain takes one at most.
THEOREM ApprovedAndMinedOnce == Spec => []TradesAreApprovedOnce
<1> DEFINE Inv == part = "transactions" => SendInv
<1>1. Inv => TradesAreApprovedOnce
  BY ApprovedOnceFollows, OneMinedFollows DEF TradesAreApprovedOnce
<1>2. Init => Inv
  BY InitSends DEF Init
<1>3. Inv /\ [Next]_vars => Inv'
  BY StepOfTxs, NextSends
<1> QED BY <1>1, <1>2, <1>3, PTL DEF Spec

-----------------------------------------------------------------------------
(* Natural numbers and recursion. *)

\* A set of natural numbers that is not empty has a least element.
LEMMA LeastOf ==
  ASSUME NEW S, S \subseteq Nat, S # {}
  PROVE  \E x \in S : \A y \in S : x <= y
<1> DEFINE R == {p \in Nat \X Nat : p[1] < p[2]}
<1>1. R = OpToRel(<, Nat)
  BY Zenon DEF OpToRel
<1>2. IsWellFoundedOn(R, Nat)
  BY <1>1, NatLessThanWellFounded, Zenon
<1>3. PICK x \in S : \A y \in S : <<y, x>> \notin R
  BY <1>2, WFMin
<1>4. \A a, b \in Nat : a < b => <<a, b>> \in R
  OBVIOUS
<1> HIDE DEF R
<1>5. \A y \in S : y \in Nat /\ x \in Nat /\ ~ (y < x)
  BY <1>3, <1>4
<1> QED BY <1>5

\* A set of numbers that holds 0 and with every number its successor holds them all, up to n.
LEMMA UpTo ==
  ASSUME NEW n \in Nat, NEW S, 0 \in S, \A i \in 1..n : i - 1 \in S => i \in S
  PROVE  0..n \subseteq S
<1> DEFINE T == {i \in 0..n : i \notin S}
<1>1. SUFFICES ASSUME T # {} PROVE FALSE
  OBVIOUS
<1>2. PICK x \in T : \A y \in T : x <= y
  <2>1. T \subseteq Nat
    OBVIOUS
  <2> HIDE DEF T
  <2> QED BY <1>1, <2>1, LeastOf
<1>3. x \in 1..n /\ x - 1 \in 0..n
  BY <1>2
<1>4. x - 1 \notin T
  BY <1>2, <1>3
<1> QED BY <1>2, <1>3, <1>4

\* F's values are those of a recursion: G[i] makes the i-th value from the one before.
Recurs(F, n, base, G) == F[0] = base /\ \A i \in 1..n : F[i] = G[i][F[i - 1]]

LEMMA RecursionExists ==
  ASSUME NEW n \in Nat, NEW V, NEW base \in V, NEW G \in [1..n -> [V -> V]]
  PROVE  \E F \in [0..n -> V] : Recurs(F, n, base, G)
<1> DEFINE Reached == {k \in 0..n : \E F \in [0..k -> V] : F[0] = base /\ \A i \in 1..k : F[i] = G[i][F[i - 1]]}
<1>1. 0 \in Reached
  <2> DEFINE F == [i \in 0..0 |-> base]
  <2>1. F \in [0..0 -> V] /\ F[0] = base /\ \A i \in 1..0 : F[i] = G[i][F[i - 1]]
    OBVIOUS
  <2> HIDE DEF F
  <2> QED BY <2>1
<1>2. ASSUME NEW k \in 1..n, k - 1 \in Reached PROVE k \in Reached
  <2>1. PICK F \in [0..(k - 1) -> V] : F[0] = base /\ \A i \in 1..(k - 1) : F[i] = G[i][F[i - 1]]
    BY <1>2
  <2> DEFINE H == [i \in 0..k |-> IF i = k THEN G[k][F[k - 1]] ELSE F[i]]
  <2>2. k - 1 \in 0..(k - 1) /\ G[k] \in [V -> V]
    BY <1>2
  <2>3. G[k][F[k - 1]] \in V
    BY <2>1, <2>2
  <2>4. H \in [0..k -> V]
    BY <2>1, <2>3
  <2>5. H[0] = base /\ H[k] = G[k][F[k - 1]] /\ \A i \in 0..(k - 1) : H[i] = F[i]
    BY <2>1, <1>2
  <2> HIDE DEF H
  <2>6. \A i \in 1..k : H[i] = G[i][H[i - 1]]
    <3>1. TAKE i \in 1..k
    <3>2. CASE i = k
      BY <2>2, <2>5, <3>2
    <3>3. CASE i # k
      <4>1. i \in 1..(k - 1) /\ i - 1 \in 0..(k - 1) /\ i \in 0..(k - 1)
        BY <3>3
      <4> QED BY <2>1, <2>5, <4>1
    <3> QED BY <3>2, <3>3
  <2>7. \E E \in [0..k -> V] : E[0] = base /\ \A i \in 1..k : E[i] = G[i][E[i - 1]]
    BY <2>4, <2>5, <2>6
  <2>8. k \in 0..n
    OBVIOUS
  <2> QED BY <2>7, <2>8
<1> HIDE DEF Reached
<1>3. 0..n \subseteq Reached
  BY <1>1, <1>2, UpTo
<1>4. n \in Reached
  BY <1>3
<1> QED BY <1>4 DEF Reached, Recurs

-----------------------------------------------------------------------------
(* Selecting from a sequence. *)

\* F[i] is what is selected from the first i elements of s.
Selects(F, s, kept) ==
  /\ F[0] = << >>
  /\ \A i \in 1..Len(s) : F[i] = IF s[i] \in kept THEN Append(F[i - 1], s[i]) ELSE F[i - 1]

LEMMA SelectionsExist ==
  ASSUME NEW T, NEW s \in Seq(T), NEW kept
  PROVE  \E F \in [0..Len(s) -> Seq(T)] : Selects(F, s, kept)
<1> DEFINE n == Len(s)
           V == Seq(T)
           G == [i \in 1..n |-> [v \in V |-> IF s[i] \in kept THEN Append(v, s[i]) ELSE v]]
<1>1. n \in Nat /\ << >> \in V /\ \A i \in 1..n : s[i] \in T
  OBVIOUS
<1>2. G \in [1..n -> [V -> V]]
  BY <1>1
<1>3. \A i \in 1..n : \A v \in V : G[i][v] = IF s[i] \in kept THEN Append(v, s[i]) ELSE v
  OBVIOUS
<1> HIDE DEF G, V, n
<1>4. PICK F \in [0..n -> V] : F[0] = << >> /\ \A i \in 1..n : F[i] = G[i][F[i - 1]]
  <2> DEFINE base == << >>
  <2>1. n \in Nat /\ base \in V
    BY <1>1
  <2> HIDE DEF base
  <2>2. \E F \in [0..n -> V] : F[0] = base /\ \A i \in 1..n : F[i] = G[i][F[i - 1]]
    <3>1. \E F \in [0..n -> V] : Recurs(F, n, base, G)
      BY <1>2, <2>1, RecursionExists
    <3> QED BY <3>1 DEF Recurs
  <2> QED BY <2>2 DEF base
<1>5. \A i \in 1..n : i - 1 \in 0..n /\ F[i - 1] \in V
  BY <1>1, <1>4
<1>6. F[0] = << >> /\ \A i \in 1..n : F[i] = IF s[i] \in kept THEN Append(F[i - 1], s[i]) ELSE F[i - 1]
  BY <1>3, <1>4, <1>5
<1> QED BY <1>6 DEF Selects, n, V

LEMMA SelectionsAgree ==
  ASSUME NEW s, Len(s) \in Nat, NEW kept, NEW F, NEW H, Selects(F, s, kept), Selects(H, s, kept)
  PROVE  \A i \in 0..Len(s) : F[i] = H[i]
<1> DEFINE Same == {i \in 0..Len(s) : F[i] = H[i]}
<1>1. 0 \in Same
  BY DEF Selects
<1>2. \A i \in 1..Len(s) : i - 1 \in Same => i \in Same
  BY DEF Selects
<1>3. 0..Len(s) \subseteq Same
  <2> HIDE DEF Same
  <2> QED BY <1>1, <1>2, UpTo
<1> QED BY <1>3

\* Select is what any such F ends with.
LEMMA SelectIs ==
  ASSUME NEW T, NEW s \in Seq(T), NEW kept, NEW F, Selects(F, s, kept)
  PROVE  Select(s, kept) = F[Len(s)]
<1> DEFINE n == Len(s)
           P(H) == H = [i \in 0..n |-> IF i = 0 THEN << >> ELSE IF s[i] \in kept THEN Append(H[i - 1], s[i]) ELSE H[i - 1]]
           Taken == CHOOSE H : P(H)
<1>1. n \in Nat
  OBVIOUS
<1>2. PICK E \in [0..n -> Seq(T)] : Selects(E, s, kept)
  BY SelectionsExist
<1>3. P(E)
  <2> DEFINE B(i) == IF i = 0 THEN << >> ELSE IF s[i] \in kept THEN Append(E[i - 1], s[i]) ELSE E[i - 1]
  <2>1. E = [i \in 0..n |-> E[i]]
    BY <1>2
  <2>2. E[0] = << >> /\ \A i \in 1..n : E[i] = IF s[i] \in kept THEN Append(E[i - 1], s[i]) ELSE E[i - 1]
    BY <1>2 DEF Selects
  <2>3. \A i \in 0..n : E[i] = B(i)
    <3>1. E[0] = B(0)
      BY <2>2
    <3>2. \A i \in 1..n : E[i] = B(i)
      <4>1. \A i \in 1..n : i # 0
        BY <1>1
      <4> HIDE DEF n
      <4> QED BY <2>2, <4>1
    <3> HIDE DEF B, n
    <3>3. \A i \in 0..n : i = 0 \/ i \in 1..n
      BY <1>1
    <3> QED BY <3>1, <3>2, <3>3
  <2> HIDE DEF B
  <2>4. E = [i \in 0..n |-> B(i)]
    BY <2>1, <2>3
  <2> QED BY <2>4 DEF B
<1>4. P(Taken)
  <2> HIDE DEF P
  <2> QED BY <1>3
<1>5. Selects(Taken, s, kept)
  <2> HIDE DEF Taken
  <2>1. \A i \in 0..n : Taken[i] = IF i = 0 THEN << >> ELSE IF s[i] \in kept THEN Append(Taken[i - 1], s[i]) ELSE Taken[i - 1]
    BY <1>4
  <2>2. 0 \in 0..n /\ \A i \in 1..n : i \in 0..n /\ i # 0
    BY <1>1
  <2> QED BY <2>1, <2>2 DEF Selects
<1>6. Taken[n] = F[n]
  <2> HIDE DEF Taken
  <2>1. \A i \in 0..Len(s) : Taken[i] = F[i]
    BY <1>1, <1>5, SelectionsAgree
  <2> QED BY <1>1, <2>1
<1>7. Select(s, kept) = Taken[n]
  BY DEF Select
<1> QED BY <1>6, <1>7

LEMMA SelectTyped ==
  ASSUME NEW T, NEW s \in Seq(T), NEW kept
  PROVE  Select(s, kept) \in Seq(T)
<1>1. PICK F \in [0..Len(s) -> Seq(T)] : Selects(F, s, kept)
  BY SelectionsExist
<1>2. Select(s, kept) = F[Len(s)]
  BY <1>1, SelectIs
<1>3. Len(s) \in 0..Len(s)
  OBVIOUS
<1> QED BY <1>1, <1>2, <1>3

\* The elements of r are those of the first i of s that are kept.
Holds(r, s, i, kept) ==
  /\ \A k \in 1..Len(r) : r[k] \in kept /\ \E j \in 1..i : r[k] = s[j]
  /\ \A j \in 1..i : s[j] \in kept => \E k \in 1..Len(r) : r[k] = s[j]

LEMMA PrefixElements ==
  ASSUME NEW T, NEW s \in Seq(T), NEW kept, NEW F \in [0..Len(s) -> Seq(T)], Selects(F, s, kept)
  PROVE  \A i \in 0..Len(s) : Holds(F[i], s, i, kept)
<1>1. F \in [0..Len(s) -> Seq(T)] /\ Selects(F, s, kept)
  OBVIOUS
<1> DEFINE Good == {i \in 0..Len(s) : Holds(F[i], s, i, kept)}
<1>2. 0 \in Good
  BY <1>1 DEF Selects, Holds
<1>3. ASSUME NEW i \in 1..Len(s), i - 1 \in Good PROVE i \in Good
  <2>1. F[i - 1] \in Seq(T) /\ s[i] \in T /\ Holds(F[i - 1], s, i - 1, kept)
    BY <1>1, <1>3
  <2>2. CASE s[i] \in kept
    <3>1. F[i] = Append(F[i - 1], s[i])
      BY <1>1, <2>2 DEF Selects
    <3>2. Len(F[i]) = Len(F[i - 1]) + 1 /\ F[i][Len(F[i - 1]) + 1] = s[i] /\ \A k \in 1..Len(F[i - 1]) : F[i][k] = F[i - 1][k]
      BY <2>1, <3>1
    <3> DEFINE m == Len(F[i - 1])
    <3>3. m \in Nat /\ i \in 1..i /\ i - 1 \in Nat
      BY <2>1
    <3>4. \A k \in 1..Len(F[i]) : k \in 1..m \/ k = m + 1
      BY <3>2, <3>3
    <3>5. m + 1 \in 1..Len(F[i]) /\ \A k \in 1..m : k \in 1..Len(F[i])
      BY <3>2, <3>3
    <3>6. \A j \in 1..(i - 1) : j \in 1..i
      BY <3>3
    <3>7. \A j \in 1..i : j \in 1..(i - 1) \/ j = i
      BY <3>3
    <3> HIDE DEF m
    <3>8. \A k \in 1..m : F[i][k] = F[i - 1][k] /\ F[i - 1][k] \in kept /\ \E j \in 1..(i - 1) : F[i - 1][k] = s[j]
      BY <2>1, <3>2 DEF Holds, m
    <3>9. \A j \in 1..(i - 1) : s[j] \in kept => \E k \in 1..m : F[i - 1][k] = s[j]
      BY <2>1 DEF Holds, m
    <3>10. F[i][m + 1] = s[i]
      BY <3>2 DEF m
    <3>11. \A k \in 1..Len(F[i]) : F[i][k] \in kept /\ \E j \in 1..i : F[i][k] = s[j]
      BY <2>2, <3>3, <3>4, <3>6, <3>8, <3>10
    <3>12. \A j \in 1..i : s[j] \in kept => \E k \in 1..Len(F[i]) : F[i][k] = s[j]
      BY <3>5, <3>7, <3>8, <3>9, <3>10
    <3> QED BY <3>11, <3>12 DEF Holds
  <2>3. CASE s[i] \notin kept
    <3>1. F[i] = F[i - 1]
      BY <1>1, <2>3 DEF Selects
    <3>2. Holds(F[i], s, i, kept)
      BY <2>1, <2>3, <3>1 DEF Holds
    <3> QED BY <3>2
  <2> QED BY <2>2, <2>3
<1>4. 0..Len(s) \subseteq Good
  <2> HIDE DEF Good
  <2>1. Len(s) \in Nat
    OBVIOUS
  <2> QED BY <1>2, <1>3, <2>1, UpTo
<1> QED BY <1>4

LEMMA SelectElements ==
  ASSUME NEW T, NEW s \in Seq(T), NEW kept
  PROVE  Holds(Select(s, kept), s, Len(s), kept)
<1>1. PICK F \in [0..Len(s) -> Seq(T)] : Selects(F, s, kept)
  BY SelectionsExist
<1>2. Len(s) \in 0..Len(s)
  OBVIOUS
<1>3. Holds(F[Len(s)], s, Len(s), kept)
  BY <1>1, <1>2, PrefixElements
<1>4. Select(s, kept) = F[Len(s)]
  BY <1>1, SelectIs
<1> QED BY <1>3, <1>4

\* Two selections of sequences, one behind the other.
LEMMA SelectConcat ==
  ASSUME NEW T, NEW s \in Seq(T), NEW t \in Seq(T), NEW kept
  PROVE  Select(s \o t, kept) = Select(s, kept) \o Select(t, kept)
<1>1. PICK F \in [0..Len(s) -> Seq(T)] : Selects(F, s, kept)
  BY SelectionsExist
<1>2. PICK H \in [0..Len(t) -> Seq(T)] : Selects(H, t, kept)
  BY SelectionsExist
<1> DEFINE n == Len(s)
           K == [i \in 0..Len(s \o t) |-> IF i <= n THEN F[i] ELSE F[n] \o H[i - n]]
<1>3. s \o t \in Seq(T) /\ Len(s \o t) = n + Len(t) /\ n \in Nat /\ Len(t) \in Nat
  OBVIOUS
<1>4. F[n] \in Seq(T) /\ F[n] \o H[0] = F[n]
  BY <1>1, <1>2, <1>3 DEF Selects
<1>5. \A i \in 0..n : K[i] = F[i]
  BY <1>3
<1>6. \A i \in 0..Len(t) : K[n + i] = F[n] \o H[i]
  <2>1. TAKE i \in 0..Len(t)
  <2>2. n + i \in 0..Len(s \o t) /\ (n + i <= n => i = 0) /\ n + i - n = i
    BY <1>3
  <2>3. K[n + i] = IF n + i <= n THEN F[n + i] ELSE F[n] \o H[n + i - n]
    BY <2>2
  <2> HIDE DEF K
  <2>4. CASE i = 0
    <3>1. n + i = n
      BY <1>3, <2>4
    <3> QED BY <1>4, <2>3, <2>4, <3>1
  <2>5. CASE i # 0
    BY <2>2, <2>3, <2>5
  <2> QED BY <2>4, <2>5
<1> HIDE DEF K
<1>7. Selects(K, s \o t, kept)
  <2>1. K[0] = << >>
    BY <1>1, <1>3, <1>5 DEF Selects
  <2>2. ASSUME NEW i \in 1..n PROVE K[i] = IF (s \o t)[i] \in kept THEN Append(K[i - 1], (s \o t)[i]) ELSE K[i - 1]
    <3>1. (s \o t)[i] = s[i]
      BY <2>2
    <3>2. i \in 0..n /\ i - 1 \in 0..n
      BY <1>3
    <3> QED BY <1>1, <1>5, <3>1, <3>2 DEF Selects
  <2>3. ASSUME NEW i \in 1..Len(t)
        PROVE K[n + i] = IF (s \o t)[n + i] \in kept THEN Append(K[n + i - 1], (s \o t)[n + i]) ELSE K[n + i - 1]
    <3>1. (s \o t)[n + i] = t[i] /\ t[i] \in T
      BY <2>3
    <3>2. i \in 0..Len(t) /\ i - 1 \in 0..Len(t) /\ n + i - 1 = n + (i - 1)
      BY <1>3
    <3>3. K[n + i] = F[n] \o H[i] /\ K[n + i - 1] = F[n] \o H[i - 1] /\ H[i - 1] \in Seq(T)
      BY <1>2, <1>6, <3>2
    <3>4. Append(F[n] \o H[i - 1], t[i]) = F[n] \o Append(H[i - 1], t[i])
      <4>1. F[n] \in Seq(T) /\ H[i - 1] \in Seq(T) /\ t[i] \in T
        BY <1>4, <3>1, <3>3
      <4>2. \A a, b \in Seq(T) : \A x \in T : Append(a \o b, x) = a \o Append(b, x)
        <5>1. TAKE a, b \in Seq(T)
        <5>2. TAKE x \in T
        <5> QED OBVIOUS
      <4> HIDE DEF n
      <4> QED BY <4>1, <4>2, Zenon
    <3>5. H[i] = IF t[i] \in kept THEN Append(H[i - 1], t[i]) ELSE H[i - 1]
      BY <1>2 DEF Selects
    <3>6. CASE t[i] \in kept
      <4>1. H[i] = Append(H[i - 1], t[i])
        BY <3>5, <3>6
      <4> QED BY <3>1, <3>3, <3>4, <3>6, <4>1, Zenon
    <3>7. CASE t[i] \notin kept
      <4>1. H[i] = H[i - 1]
        BY <3>5, <3>7
      <4> QED BY <3>1, <3>3, <3>7, <4>1, Zenon
    <3> QED BY <3>6, <3>7
  <2>4. \A i \in 1..Len(s \o t) : i \in 1..n \/ \E j \in 1..Len(t) : i = n + j
    <3>1. TAKE i \in 1..Len(s \o t)
    <3>2. CASE i > n
      <4>1. i - n \in 1..Len(t) /\ i = n + (i - n)
        BY <1>3, <3>2
      <4> QED BY <4>1
    <3> QED BY <1>3, <3>2
  <2> QED BY <2>1, <2>2, <2>3, <2>4 DEF Selects
<1>8. Select(s \o t, kept) = K[n + Len(t)]
  BY <1>3, <1>7, SelectIs
<1>9. Select(s, kept) = F[n] /\ Select(t, kept) = H[Len(t)]
  BY <1>1, <1>2, SelectIs
<1> QED BY <1>3, <1>6, <1>8, <1>9

LEMMA SelectNone ==
  ASSUME NEW T, NEW s \in Seq(T), NEW kept, \A i \in 1..Len(s) : s[i] \notin kept
  PROVE  Select(s, kept) = << >>
<1> DEFINE F == [i \in 0..Len(s) |-> << >>]
<1>1. \A i \in 0..Len(s) : F[i] = << >>
  OBVIOUS
<1>2. 0 \in 0..Len(s) /\ Len(s) \in 0..Len(s) /\ \A i \in 1..Len(s) : i \in 0..Len(s) /\ i - 1 \in 0..Len(s)
  OBVIOUS
<1> HIDE DEF F
<1>3. Selects(F, s, kept)
  BY <1>1, <1>2 DEF Selects
<1> QED BY <1>1, <1>2, <1>3, SelectIs

LEMMA SelectEvery ==
  ASSUME NEW T, NEW s \in Seq(T), NEW kept, \A i \in 1..Len(s) : s[i] \in kept
  PROVE  Select(s, kept) = s
<1> DEFINE F == [i \in 0..Len(s) |-> SubSeq(s, 1, i)]
<1>1. \A i \in 0..Len(s) : F[i] = SubSeq(s, 1, i)
  OBVIOUS
<1>2. 0 \in 0..Len(s) /\ Len(s) \in 0..Len(s) /\ \A i \in 1..Len(s) : i \in 0..Len(s) /\ i - 1 \in 0..Len(s)
  OBVIOUS
<1>3. SubSeq(s, 1, 0) = << >> /\ SubSeq(s, 1, Len(s)) = s
  OBVIOUS
<1>4. \A i \in 1..Len(s) : SubSeq(s, 1, i) = Append(SubSeq(s, 1, i - 1), s[i])
  OBVIOUS
<1> HIDE DEF F
<1>5. Selects(F, s, kept)
  BY <1>1, <1>2, <1>3, <1>4 DEF Selects
<1> QED BY <1>1, <1>2, <1>3, <1>5, SelectIs

\* Only what is in the sequence matters of kept.
LEMMA SelectSame ==
  ASSUME NEW T, NEW s \in Seq(T), NEW kept, NEW also, \A i \in 1..Len(s) : s[i] \in kept <=> s[i] \in also
  PROVE  Select(s, kept) = Select(s, also)
<1>1. PICK F \in [0..Len(s) -> Seq(T)] : Selects(F, s, kept)
  BY SelectionsExist
<1>2. Selects(F, s, also)
  BY <1>1 DEF Selects
<1> QED BY <1>1, <1>2, SelectIs

LEMMA SelectAppend ==
  ASSUME NEW T, NEW s \in Seq(T), NEW x \in T, NEW kept
  PROVE  Select(Append(s, x), kept) = IF x \in kept THEN Append(Select(s, kept), x) ELSE Select(s, kept)
<1> DEFINE u == <<x>>
<1>1. u \in Seq(T) /\ Len(u) = 1 /\ u[1] = x /\ \A r \in Seq(T) : Append(r, x) = r \o u /\ r \o << >> = r
  <2>1. u \in Seq(T) /\ Len(u) = 1 /\ u[1] = x
    OBVIOUS
  <2>2. \A r \in Seq(T) : Append(r, x) = r \o u
    BY AppendIsConcat
  <2> QED BY <2>1, <2>2, ConcatEmptySeq
<1> HIDE DEF u
<1>2. Select(s, kept) \in Seq(T) /\ Select(s \o u, kept) = Select(s, kept) \o Select(u, kept)
  <2>1. u \in Seq(T)
    BY <1>1
  <2>2. \A a, b \in Seq(T) : Select(a \o b, kept) = Select(a, kept) \o Select(b, kept)
    BY SelectConcat
  <2> QED BY <2>1, <2>2, SelectTyped
<1>3. CASE x \in kept
  <2>1. \A i \in 1..Len(u) : u[i] \in kept
    BY <1>1, <1>3
  <2>2. Select(u, kept) = u
    BY <1>1, <2>1, SelectEvery
  <2> QED BY <1>1, <1>2, <1>3, <2>2
<1>4. CASE x \notin kept
  <2>1. \A i \in 1..Len(u) : u[i] \notin kept
    BY <1>1, <1>4
  <2>2. Select(u, kept) = << >>
    BY <1>1, <2>1, SelectNone
  <2> QED BY <1>1, <1>2, <1>4, <2>2
<1> QED BY <1>3, <1>4

-----------------------------------------------------------------------------
(* Sequences of numbers in order. *)

Increasing(s) == \A i, j \in 1..Len(s) : i < j => s[i] < s[j]

\* Each element is below the next one, so below all that follow.
LEMMA AscendingIsIncreasing ==
  ASSUME NEW s \in Seq(Nat), \A i \in 1..(Len(s) - 1) : s[i] < s[i + 1]
  PROVE  Increasing(s)
<1> SUFFICES ASSUME NEW i \in 1..Len(s) PROVE \A j \in 1..Len(s) : i < j => s[i] < s[j]
  BY DEF Increasing
<1> DEFINE Above == {d \in Nat : i + d + 1 <= Len(s) => s[i] < s[i + d + 1]}
           n == Len(s)
<1>1. n \in Nat /\ i \in Nat /\ i >= 1 /\ \A k \in 1..n : s[k] \in Nat
  OBVIOUS
<1>2. 0 \in Above
  BY <1>1
<1>3. \A d \in 1..n : d - 1 \in Above => d \in Above
  <2>1. SUFFICES ASSUME NEW d \in 1..n, d - 1 \in Above, i + d + 1 <= n PROVE s[i] < s[i + d + 1]
    BY <1>1
  <2>2. i + (d - 1) + 1 = i + d /\ i + d \in 1..n /\ i + d \in 1..(n - 1) /\ i + d + 1 \in 1..n
    BY <1>1, <2>1
  <2>3. s[i] < s[i + d]
    BY <2>1, <2>2
  <2>4. s[i + d] < s[i + d + 1]
    BY <2>2
  <2> QED BY <1>1, <2>2, <2>3, <2>4
<1>4. 0..n \subseteq Above
  <2> HIDE DEF Above
  <2> QED BY <1>1, <1>2, <1>3, UpTo
<1>5. ASSUME NEW j \in 1..Len(s), i < j PROVE s[i] < s[j]
  <2>1. j - i - 1 \in 0..n /\ i + (j - i - 1) + 1 = j /\ j <= Len(s)
    BY <1>1, <1>5
  <2>2. j - i - 1 \in Above
    BY <1>4, <2>1
  <2> QED BY <2>1, <2>2
<1> QED BY <1>5

LEMMA SelectIncreasing ==
  ASSUME NEW s \in Seq(Nat), NEW kept, Increasing(s)
  PROVE  Increasing(Select(s, kept))
<1>1. PICK F \in [0..Len(s) -> Seq(Nat)] : Selects(F, s, kept)
  BY SelectionsExist
<1>2. \A i \in 0..Len(s) : Holds(F[i], s, i, kept)
  BY <1>1, PrefixElements
<1> DEFINE Good == {i \in 0..Len(s) : Increasing(F[i])}
<1>3. 0 \in Good
  BY <1>1 DEF Selects, Increasing
<1>4. ASSUME NEW i \in 1..Len(s), i - 1 \in Good PROVE i \in Good
  <2> DEFINE r == F[i - 1]
             m == Len(r)
  <2>1. r \in Seq(Nat) /\ m \in Nat /\ s[i] \in Nat /\ Increasing(r) /\ i - 1 \in 0..Len(s)
    BY <1>1, <1>4
  <2>2. F[i] = IF s[i] \in kept THEN Append(r, s[i]) ELSE r
    BY <1>1 DEF Selects
  <2>3. \A k \in 1..m : r[k] < s[i]
    <3>1. TAKE k \in 1..m
    <3>2. PICK j \in 1..(i - 1) : r[k] = s[j]
      BY <1>2, <2>1 DEF Holds
    <3>3. j \in 1..Len(s) /\ j < i
      BY <3>2
    <3> QED BY <3>2, <3>3 DEF Increasing
  <2>4. CASE s[i] \in kept
    <3> HIDE DEF r
    <3> DEFINE q == Append(r, s[i])
    <3>1. Len(q) = m + 1 /\ q[m + 1] = s[i] /\ \A k \in 1..m : q[k] = r[k]
      BY <2>1
    <3> HIDE DEF q, m
    <3>2. ASSUME NEW a \in 1..(m + 1), NEW b \in 1..(m + 1), a < b PROVE q[a] < q[b]
      <4>1. a \in 1..m
        BY <2>1, <3>2
      <4>2. CASE b = m + 1
        BY <2>3, <3>1, <4>1, <4>2
      <4>3. CASE b \in 1..m
        BY <2>1, <3>1, <3>2, <4>1, <4>3 DEF Increasing, m
      <4> QED BY <2>1, <4>2, <4>3
    <3>3. Increasing(q)
      BY <3>1, <3>2 DEF Increasing
    <3>4. F[i] = q /\ i \in 0..Len(s)
      BY <2>2, <2>4 DEF q
    <3> QED BY <3>3, <3>4
  <2>5. CASE s[i] \notin kept
    BY <2>1, <2>2, <2>5
  <2> QED BY <2>4, <2>5
<1>5. 0..Len(s) \subseteq Good
  <2> HIDE DEF Good
  <2>1. Len(s) \in Nat
    OBVIOUS
  <2> QED BY <1>3, <1>4, <2>1, UpTo
<1>6. Select(s, kept) = F[Len(s)] /\ Len(s) \in 0..Len(s)
  BY <1>1, SelectIs
<1> QED BY <1>5, <1>6

\* Two sequences in order, all of the second above all of the first.
LEMMA ConcatIncreasing ==
  ASSUME NEW s \in Seq(Nat), NEW t \in Seq(Nat), Increasing(s), Increasing(t),
         \A i \in 1..Len(s), j \in 1..Len(t) : s[i] < t[j]
  PROVE  Increasing(s \o t)
<1> DEFINE n == Len(s)
           m == Len(t)
           q == s \o t
<1>1. /\ n \in Nat /\ m \in Nat /\ Len(q) = n + m
      /\ \A i \in 1..n : q[i] = s[i]
      /\ \A j \in 1..m : q[n + j] = t[j]
  OBVIOUS
<1>2. \A i \in 1..(n + m) : i \in 1..n \/ (i - n \in 1..m /\ n + (i - n) = i)
  BY <1>1
<1> HIDE DEF q
<1>3. \A i \in 1..(n + m) : i \in 1..n \/ (i - n \in 1..m /\ q[i] = t[i - n])
  BY <1>1, <1>2
<1>4. ASSUME NEW i \in 1..(n + m), NEW j \in 1..(n + m), i < j PROVE q[i] < q[j]
  <2>1. CASE j \in 1..n
    <3>1. i \in 1..n
      BY <1>1, <1>4, <2>1
    <3> QED BY <1>1, <1>4, <2>1, <3>1 DEF Increasing
  <2>2. CASE i \in 1..n /\ j - n \in 1..m /\ q[j] = t[j - n]
    BY <1>1, <2>2
  <2>3. CASE i - n \in 1..m /\ q[i] = t[i - n] /\ j - n \in 1..m /\ q[j] = t[j - n]
    <3>1. i - n < j - n
      BY <1>1, <1>4
    <3> QED BY <2>3, <3>1 DEF Increasing
  <2> QED BY <1>1, <1>3, <1>4, <2>1, <2>2, <2>3
<1> QED BY <1>1, <1>4 DEF Increasing, q

-----------------------------------------------------------------------------
(* Candles: the cache and the answers are in order, live answers are fresh. *)

LEMMA CachedSelect ==
  ASSUME NEW s, NEW kept
  PROVE  Cached!Select(s, kept) = Select(s, kept)
BY DEF Cached!Select, Select

LEMMA LastOfFacts ==
  ASSUME NEW s \in Seq(Nat), NEW n \in Nat \ {0}, Increasing(s)
  PROVE  /\ Cached!LastOf(s, n) \in Seq(Nat) /\ Increasing(Cached!LastOf(s, n))
         /\ s # << >> => Cached!LastOf(s, n) # << >> /\ Cached!Last(Cached!LastOf(s, n)) = Cached!Last(s)
<1>1. CASE Len(s) > n
  <2> DEFINE r == SubSeq(s, Len(s) - n + 1, Len(s))
  <2>1. r \in Seq(Nat) /\ Len(r) = n /\ \A i \in 1..n : r[i] = s[Len(s) - n + i]
    BY <1>1, SMTT(60)
  <2>2. Cached!LastOf(s, n) = r
    BY <1>1 DEF Cached!LastOf
  <2> HIDE DEF r
  <2>3. Increasing(r)
    <3>1. SUFFICES ASSUME NEW i \in 1..n, NEW j \in 1..n, i < j PROVE r[i] < r[j]
      BY <2>1 DEF Increasing
    <3>2. Len(s) - n + i \in 1..Len(s) /\ Len(s) - n + j \in 1..Len(s) /\ Len(s) - n + i < Len(s) - n + j
      BY <1>1, <3>1
    <3> QED BY <2>1, <3>1, <3>2 DEF Increasing
  <2>4. r # << >> /\ Cached!Last(r) = Cached!Last(s)
    BY <2>1 DEF Cached!Last
  <2> QED BY <2>1, <2>2, <2>3, <2>4
<1>2. CASE ~ (Len(s) > n)
  BY <1>2 DEF Cached!LastOf
<1> QED BY <1>1, <1>2

LEMMA SourceFacts ==
  ASSUME NEW limit \in Nat \ {0}, NEW t \in Nat, NEW late \in {0, 1}
  PROVE  LET got == Cached!SourceCandles(limit, t, late)
         IN  /\ got \in Seq(Nat) /\ Increasing(got)
             /\ Cached!Closes(1 + late) <= t => got # << >> /\ Cached!Last(got) = (t \div 2) - late
<1> DEFINE m == (t \div 2) - late
           s == [n \in 1..m |-> n]
<1>1. CASE m < 1
  <2>1. s = << >>
    BY <1>1
  <2>2. Cached!SourceCandles(limit, t, late) = << >>
    BY <2>1 DEF Cached!SourceCandles, Cached!LastOf
  <2>3. ~ (Cached!Closes(1 + late) <= t)
    BY <1>1 DEF Cached!Closes
  <2> QED BY <2>2, <2>3 DEF Increasing
<1>2. CASE m >= 1
  <2>1. m \in Nat \ {0}
    BY <1>2
  <2> HIDE DEF m
  <2>2. s \in Seq(Nat) /\ Len(s) = m /\ (\A i \in 1..m : s[i] = i) /\ s # << >>
    BY <2>1
  <2> HIDE DEF s
  <2>3. Increasing(s) /\ Cached!Last(s) = m
    BY <2>1, <2>2 DEF Increasing, Cached!Last
  <2>4. Cached!SourceCandles(limit, t, late) = Cached!LastOf(s, limit)
    BY DEF Cached!SourceCandles, s, m
  <2> QED BY <2>2, <2>3, <2>4, LastOfFacts DEF m
<1> QED BY <1>1, <1>2 DEF m

CallType ==
  [pc : {"idle", "fetch", "put", "done"}, limit : Nat, end : Nat, asked : Nat, got : Seq(Nat), late : {0, 1}, hit : BOOLEAN]

\* What a live call will answer with ends with the newest candle of its time.
FreshCall(k) ==
  k.pc \in {"put", "done"} /\ k.end = 0 /\ Cached!Closes(1 + k.late) <= k.asked
    => k.got # << >> /\ Cached!Last(k.got) >= (k.asked \div 2) - k.late

GoodCall(k) ==
  /\ k \in CallType /\ Increasing(k.got) /\ FreshCall(k)
  /\ k.pc = "fetch" => k.limit # 0 /\ k.end <= now /\ k.asked <= now /\ k.late = 0

CachedInv ==
  /\ now \in Nat /\ cache \in [candles : Seq(Nat), limit : Nat] /\ Increasing(cache.candles)
  /\ DOMAIN calls = Callers /\ \A c \in Callers : GoodCall(calls[c])

LEMMA PutCandlesFacts ==
  ASSUME cache \in [candles : Seq(Nat), limit : Nat], Increasing(cache.candles),
         NEW new \in Seq(Nat), Increasing(new), NEW limit \in Nat
  PROVE  LET put == Cached!PutCandles(new, limit)
         IN  put \in [candles : Seq(Nat), limit : Nat] /\ Increasing(put.candles)
<1> DEFINE old == cache.candles
           older == Select(new, {n \in Nat : n < Head(old)})
           newer == Select(new, {n \in Nat : n > Cached!Last(old)})
           both == older \o old \o newer
           max == IF limit > cache.limit THEN limit ELSE cache.limit
<1>1. old \in Seq(Nat) /\ max \in Nat
  OBVIOUS
<1>2. CASE new = << >>
  BY <1>2 DEF Cached!PutCandles
<1>3. CASE new # << >> /\ old = << >>
  <2>1. Cached!PutCandles(new, limit) = [limit |-> max, candles |-> new]
    BY <1>3 DEF Cached!PutCandles
  <2> QED BY <1>1, <2>1
<1>4. CASE new # << >> /\ old # << >>
  <2>1. Cached!PutCandles(new, limit) = [limit |-> max, candles |-> both]
    BY <1>4, CachedSelect DEF Cached!PutCandles
  <2>2. older \in Seq(Nat) /\ newer \in Seq(Nat) /\ Increasing(older) /\ Increasing(newer)
    BY SelectTyped, SelectIncreasing
  <2>3. /\ \A k \in 1..Len(older) : older[k] \in {n \in Nat : n < Head(old)}
        /\ \A k \in 1..Len(newer) : newer[k] \in {n \in Nat : n > Cached!Last(old)}
    BY SelectElements DEF Holds
  <2> HIDE DEF older, newer
  <2>4. Len(old) \in Nat \ {0} /\ Head(old) = old[1] /\ Cached!Last(old) = old[Len(old)]
    BY <1>1, <1>4 DEF Cached!Last
  <2>5. \A i \in 1..Len(old) : old[1] <= old[i] /\ old[i] <= old[Len(old)] /\ old[i] \in Nat
    <3>1. \A i \in 1..Len(old) : old[i] \in Nat
      BY <1>1
    <3> QED BY <2>4, <3>1, SMTT(60) DEF Increasing
  <2>6. \A k \in 1..Len(older), i \in 1..Len(old) : older[k] < old[i]
    BY <2>3, <2>4, <2>5, SMTT(60)
  <2>7. \A i \in 1..Len(old), k \in 1..Len(newer) : old[i] < newer[k]
    BY <2>3, <2>4, <2>5
  <2> HIDE DEF old
  <2>8. older \o old \in Seq(Nat) /\ Increasing(older \o old)
    <3>1. Increasing(old)
      BY DEF old
    <3> QED BY <1>1, <2>2, <2>6, <3>1, ConcatIncreasing
  <2>9. \A i \in 1..Len(older \o old), k \in 1..Len(newer) : (older \o old)[i] < newer[k]
    <3>1. TAKE i \in 1..Len(older \o old), k \in 1..Len(newer)
    <3>2. i \in 1..Len(older) \/ i - Len(older) \in 1..Len(old)
      <4>1. Len(older \o old) = Len(older) + Len(old) /\ Len(older) \in Nat /\ Len(old) \in Nat
        BY <1>1, <2>2
      <4> QED BY <4>1
    <3>3. CASE i \in 1..Len(older)
      <4>1. (older \o old)[i] = older[i]
        BY <1>1, <2>2, <3>3
      <4>2. older[i] \in Nat /\ newer[k] \in Nat
        BY <2>2, <3>3, SMTT(60)
      <4>3. 1 \in 1..Len(old) /\ old[1] \in Nat
        BY <1>1, <2>4
      <4>4. older[i] < old[1] /\ old[1] < newer[k]
        BY <2>6, <2>7, <3>3, <4>3
      <4> QED BY <4>1, <4>2, <4>3, <4>4, SMTT(60)
    <3>4. CASE i - Len(older) \in 1..Len(old)
      <4>1. (older \o old)[i] = old[i - Len(older)]
        BY <1>1, <2>2, <3>4
      <4> QED BY <2>7, <3>4, <4>1
    <3> QED BY <3>2, <3>3, <3>4
  <2>10. both \in Seq(Nat) /\ Increasing(both)
    <3> DEFINE front == older \o old
    <3>1. front \in Seq(Nat) /\ Increasing(front) /\ \A i \in 1..Len(front), k \in 1..Len(newer) : front[i] < newer[k]
      BY <2>8, <2>9
    <3> HIDE DEF front
    <3>2. front \o newer \in Seq(Nat) /\ Increasing(front \o newer)
      BY <2>2, <3>1, ConcatIncreasing
    <3> QED BY <3>2 DEF front
  <2> QED BY <1>1, <2>1, <2>10
<1> QED BY <1>2, <1>3, <1>4

LEMMA IdleIsGood == ASSUME now \in Nat PROVE GoodCall(Cached!Idle)
BY DEF GoodCall, CallType, FreshCall, Increasing, Cached!Idle, Cached!Live

LEMMA CachedInit == Cached!CandleCacheAssumption /\ Cached!Init => CachedInv
<1> SUFFICES ASSUME Cached!Init PROVE CachedInv
  OBVIOUS
<1>1. now = 0 /\ cache = [candles |-> << >>, limit |-> 0] /\ calls = [c \in Callers |-> Cached!Idle]
  BY DEF Cached!Init
<1>2. cache \in [candles : Seq(Nat), limit : Nat] /\ Increasing(cache.candles)
  BY <1>1 DEF Increasing
<1> QED BY <1>1, <1>2, IdleIsGood DEF CachedInv

\* One call moves, the clock and, unless it stores, the cache stand still.
LEMMA CallMoves ==
  ASSUME CachedInv, NEW c \in Callers, NEW k, calls' = [calls EXCEPT ![c] = k], now' = now, GoodCall(k),
         cache' \in [candles : Seq(Nat), limit : Nat], Increasing(cache'.candles)
  PROVE  CachedInv'
<1>1. \A d \in Callers : calls'[d] = IF d = c THEN k ELSE calls[d]
  BY DEF CachedInv
<1>2. \A d \in Callers : GoodCall(calls[d]) /\ GoodCall(k)
  BY DEF CachedInv
<1>3. \A d \in Callers : GoodCall(calls[d])'
  <2>1. TAKE d \in Callers
  <2>2. CASE d = c
    BY <1>1, <1>2, <2>2, SMTT(60) DEF GoodCall, FreshCall, CallType, Increasing
  <2>3. CASE d # c
    BY <1>1, <1>2, <2>3, SMTT(60) DEF GoodCall, FreshCall, CallType, Increasing
  <2> QED BY <2>2, <2>3
<1> QED BY <1>3 DEF CachedInv

LEMMA CachedStep ==
  ASSUME Cached!CandleCacheAssumption, CachedInv, [Cached!Next]_(Cached!vars)
  PROVE  CachedInv'
<1>1. now \in Nat /\ cache \in [candles : Seq(Nat), limit : Nat] /\ Increasing(cache.candles)
  BY DEF CachedInv
<1>2. ASSUME NEW c \in Callers, NEW limit \in CandleLimits, NEW end \in {Cached!Live} \cup CandleEnds, Cached!Ask(c, limit, end)
      PROVE  CachedInv'
  <2> DEFINE hit == Cached!CacheHit(limit, end)
             got == Cached!Cached(limit, end)
             to == IF hit THEN "done" ELSE "fetch"
             with == IF hit THEN got ELSE << >>
             k == [Cached!Idle EXCEPT !.limit = limit, !.end = end, !.asked = now, !.hit = hit, !.pc = to, !.got = with]
  <2>1. limit \in Nat \ {0} /\ end \in Nat /\ end <= now
    BY <1>2 DEF Cached!CandleCacheAssumption, Cached!Live, Cached!Ask
  <2>2. calls' = [calls EXCEPT ![c] = k] /\ now' = now /\ cache' = cache
    BY <1>2 DEF Cached!Ask
  <2>3. got \in Seq(Nat) /\ Increasing(got)
    <3> DEFINE s == IF end = Cached!Live THEN cache.candles
                    ELSE Select(cache.candles, {n \in Nat : Cached!Closes(n) <= end})
    <3>1. s \in Seq(Nat) /\ Increasing(s)
      BY <1>1, SelectTyped, SelectIncreasing
    <3>2. got = Cached!LastOf(s, limit)
      BY CachedSelect DEF Cached!Cached
    <3> HIDE DEF s
    <3> QED BY <2>1, <3>1, <3>2, LastOfFacts
  <2>4. hit \in BOOLEAN /\ (hit => got # << >> /\ (end = Cached!Live => Cached!Closes(Cached!Last(got)) >= now))
    BY DEF Cached!CacheHit
  <2>5. k \in CallType /\ k.pc = to /\ k.limit = limit /\ k.end = end /\ k.asked = now /\ k.got = with /\ k.late = 0
    <3>1. to \in {"idle", "fetch", "put", "done"} /\ with \in Seq(Nat)
      BY <2>3
    <3>2. Cached!Idle \in CallType /\ Cached!Idle.late = 0
      BY DEF Cached!Idle, Cached!Live, CallType
    <3> HIDE DEF hit, to, with
    <3> QED BY <1>1, <2>1, <2>4, <3>1, <3>2 DEF CallType
  <2> HIDE DEF hit, got, k
  <2>6. GoodCall(k)
    <3>1. CASE hit
      <4>1. k.pc = "done" /\ k.got = got /\ k.end = end /\ k.asked = now /\ k.late = 0 /\ k \in CallType
        BY <2>5, <3>1
      <4>2. FreshCall(k)
        <5>1. SUFFICES ASSUME end = 0 PROVE got # << >> /\ Cached!Last(got) >= (now \div 2) - 0
          BY <4>1 DEF FreshCall
        <5>2. got # << >> /\ 2 * Cached!Last(got) >= now
          BY <2>4, <3>1, <5>1 DEF Cached!Live, Cached!Closes
        <5>3. Cached!Last(got) \in Nat
          BY <2>3, <5>2 DEF Cached!Last
        <5> QED BY <1>1, <5>2, <5>3
      <4> QED BY <2>3, <4>1, <4>2 DEF GoodCall
    <3>2. CASE ~ hit
      <4>1. k.pc = "fetch" /\ k.got = << >> /\ k.limit = limit /\ k.end = end /\ k.asked = now /\ k.late = 0 /\ k \in CallType
        BY <2>5, <3>2
      <4> QED BY <1>1, <2>1, <4>1 DEF GoodCall, FreshCall, Increasing
    <3> QED BY <3>1, <3>2
  <2> QED BY <1>1, <2>2, <2>6, CallMoves
<1>3. ASSUME NEW c \in Callers, NEW late \in {0, 1}, Cached!Fetch(c, late) PROVE CachedInv'
  <2> DEFINE call0 == calls[c]
             t == IF call0.end = Cached!Live THEN now ELSE call0.end
             of == IF call0.end = Cached!Live THEN late ELSE 0
             got == Cached!SourceCandles(call0.limit, t, of)
             k == [call0 EXCEPT !.pc = "put", !.late = late, !.got = got]
  <2>1. GoodCall(call0) /\ call0.pc = "fetch" /\ calls' = [calls EXCEPT ![c].pc = "put", ![c].late = late, ![c].got = got]
    BY <1>3 DEF CachedInv, Cached!Fetch
  <2>2. now' = now /\ cache' = cache
    BY <1>3 DEF Cached!Fetch
  <2>3. call0 \in CallType /\ call0.limit \in Nat \ {0} /\ call0.end <= now /\ call0.asked <= now
    BY <2>1 DEF GoodCall, CallType
  <2>4. t \in Nat /\ of \in {0, 1}
    BY <1>1, <2>3 DEF CallType
  <2>5. /\ got \in Seq(Nat) /\ Increasing(got)
        /\ Cached!Closes(1 + of) <= t => got # << >> /\ Cached!Last(got) = (t \div 2) - of
    <3> HIDE DEF t, of
    <3> QED BY <2>3, <2>4, SourceFacts
  <2>6. calls' = [calls EXCEPT ![c] = k]
    <3> HIDE DEF got
    <3> QED BY <2>1
  <2> HIDE DEF got
  <2>7. k \in CallType /\ k.pc = "put" /\ k.late = late /\ k.got = got /\ k.end = call0.end /\ k.asked = call0.asked
    BY <2>3, <2>5 DEF CallType
  <2>8. FreshCall(k)
    <3>1. SUFFICES ASSUME call0.end = 0, Cached!Closes(1 + late) <= call0.asked
                   PROVE  got # << >> /\ Cached!Last(got) >= (call0.asked \div 2) - late
      <4> HIDE DEF k
      <4> QED BY <2>7 DEF FreshCall
    <3>2. t = now /\ of = late /\ call0.asked \in Nat
      BY <2>3, <3>1 DEF Cached!Live, CallType
    <3>3. Cached!Closes(1 + of) <= t /\ (call0.asked \div 2) <= (now \div 2)
      BY <1>1, <2>3, <3>1, <3>2 DEF Cached!Closes
    <3>4. got # << >> /\ Cached!Last(got) = (now \div 2) - late
      BY <2>5, <3>2, <3>3
    <3> QED BY <1>1, <3>2, <3>3, <3>4
  <2>9. GoodCall(k)
    <3> HIDE DEF k
    <3> QED BY <2>5, <2>7, <2>8 DEF GoodCall
  <2> HIDE DEF k
  <2> QED BY <1>1, <2>2, <2>6, <2>9, CallMoves
<1>4. ASSUME NEW c \in Callers, Cached!FetchFails(c) PROVE CachedInv'
  BY <1>1, <1>4, IdleIsGood, CallMoves DEF Cached!FetchFails
<1>5. ASSUME NEW c \in Callers, Cached!Put(c) PROVE CachedInv'
  <2> DEFINE k == [calls[c] EXCEPT !.pc = "done"]
  <2>1. GoodCall(calls[c]) /\ calls[c].pc = "put" /\ calls' = [calls EXCEPT ![c].pc = "done"] /\ now' = now
    BY <1>5 DEF CachedInv, Cached!Put
  <2>2. calls' = [calls EXCEPT ![c] = k]
    BY <2>1
  <2>3. k \in CallType /\ k.pc = "done" /\ k.late = calls[c].late /\ k.got = calls[c].got /\ k.end = calls[c].end /\ k.asked = calls[c].asked
    BY <2>1 DEF GoodCall, CallType
  <2> HIDE DEF k
  <2>4. GoodCall(k)
    BY <2>1, <2>3 DEF GoodCall, FreshCall
  <2>5. cache' \in [candles : Seq(Nat), limit : Nat] /\ Increasing(cache'.candles)
    <3>1. calls[c].got \in Seq(Nat) /\ Increasing(calls[c].got) /\ calls[c].limit \in Nat
      BY <2>1 DEF GoodCall, CallType
    <3>2. cache' = Cached!PutCandles(calls[c].got, calls[c].limit) \/ cache' = cache
      BY <1>5 DEF Cached!Put
    <3>3. /\ Cached!PutCandles(calls[c].got, calls[c].limit) \in [candles : Seq(Nat), limit : Nat]
          /\ Increasing(Cached!PutCandles(calls[c].got, calls[c].limit).candles)
      BY <1>1, <3>1, PutCandlesFacts
    <3> QED BY <1>1, <3>2, <3>3
  <2> QED BY <2>1, <2>2, <2>4, <2>5, CallMoves
<1>6. CASE Cached!Tick
  <2>1. now' = now + 1 /\ cache' = cache /\ calls' = calls
    BY <1>6 DEF Cached!Tick
  <2>2. \A c \in Callers : GoodCall(calls[c]) => GoodCall(calls[c])'
    <3>1. TAKE c \in Callers
    <3>2. SUFFICES ASSUME GoodCall(calls[c]) PROVE GoodCall(calls[c])'
      OBVIOUS
    <3>3. calls[c] \in CallType /\ calls'[c] = calls[c]
      BY <2>1, <3>2 DEF GoodCall
    <3>4. calls[c].end \in Nat /\ calls[c].asked \in Nat
      BY <3>3 DEF CallType
    <3> QED BY <1>1, <2>1, <3>2, <3>3, <3>4 DEF GoodCall, FreshCall, CallType, Increasing
  <2> QED BY <1>1, <2>1, <2>2 DEF CachedInv
<1>7. CASE UNCHANGED Cached!vars
  <2>1. now' = now /\ cache' = cache /\ calls' = calls
    BY <1>7 DEF Cached!vars
  <2>2. \A c \in Callers : GoodCall(calls[c]) => GoodCall(calls[c])'
    BY <2>1 DEF GoodCall, FreshCall, CallType, Increasing
  <2> QED BY <1>1, <2>1, <2>2 DEF CachedInv
<1> QED BY <1>2, <1>3, <1>4, <1>5, <1>6, <1>7 DEF Cached!Next

LEMMA FreshFromInv == CachedInv => Cached!LiveAnswersAreFresh
<1> SUFFICES ASSUME CachedInv PROVE Cached!LiveAnswersAreFresh
  OBVIOUS
<1>1. \A s \in Seq(Nat) : Increasing(s) => Cached!Ascending(s)
  <2>1. SUFFICES ASSUME NEW s \in Seq(Nat), Increasing(s), NEW i \in 1..(Len(s) - 1) PROVE s[i] < s[i + 1]
    BY DEF Cached!Ascending
  <2>2. i \in 1..Len(s) /\ i + 1 \in 1..Len(s) /\ i < i + 1
    OBVIOUS
  <2> QED BY <2>1, <2>2 DEF Increasing
<1>2. cache.candles \in Seq(Nat) /\ Increasing(cache.candles)
  BY DEF CachedInv
<1>3. \A c \in Callers : calls[c].got \in Seq(Nat) /\ Increasing(calls[c].got) /\ FreshCall(calls[c])
  BY DEF CachedInv, GoodCall, CallType
<1> QED BY <1>1, <1>2, <1>3 DEF Cached!LiveAnswersAreFresh, FreshCall, Cached!Live

-----------------------------------------------------------------------------
(* Indicators: every returned row has its values. *)

LEMMA MinOfThree ==
  ASSUME NEW a \in Int, NEW b \in Int, NEW c \in Int
  PROVE  LET m == Columns!Min({a, b, c}) IN m \in {a, b, c} /\ m <= a /\ m <= b /\ m <= c
<1>1. \E x \in {a, b, c} : \A y \in {a, b, c} : x <= y
  <2>1. CASE a <= b /\ a <= c
    BY <2>1
  <2>2. CASE b <= a /\ b <= c
    BY <2>2
  <2>3. CASE c <= a /\ c <= b
    BY <2>3
  <2> QED BY <2>1, <2>2, <2>3
<1> QED BY <1>1 DEF Columns!Min

LEMMA MaxOfThree ==
  ASSUME NEW a \in Int, NEW b \in Int, NEW c \in Int
  PROVE  LET m == Columns!Max({a, b, c}) IN m \in {a, b, c} /\ m >= a /\ m >= b /\ m >= c
<1>1. \E x \in {a, b, c} : \A y \in {a, b, c} : x >= y
  <2>1. CASE a >= b /\ a >= c
    BY <2>1
  <2>2. CASE b >= a /\ b >= c
    BY <2>2
  <2>3. CASE c >= a /\ c >= b
    BY <2>3
  <2> QED BY <2>1, <2>2, <2>3
<1> QED BY <1>1 DEF Columns!Max

Simple == {"rsi", "ema", "sma", "bbands", "atr"}

LEMMA SpecKinds ==
  ASSUME Columns!IndicatorsAssumption, NEW spec \in Columns!Specs
  PROVE  \/ spec.name \in Simple /\ spec.period \in Nat \ {0}
         \/ spec.name = "macd" /\ {spec.fast, spec.slow, spec.signal} \subseteq Nat \ {0}
         \/ spec.name = "vwap"
BY DEF Columns!Specs, Columns!IndicatorsAssumption, Simple

LEMMA WarmupFacts ==
  ASSUME Columns!IndicatorsAssumption, NEW spec \in Columns!Specs
  PROVE  Columns!specWarmup(spec) \in Nat
BY SpecKinds DEF Columns!specWarmup, Simple

\* The values of a column: none is computed from what is not there, and after `need` candles there is one.
Warm(column, n, need) ==
  \A j \in 1..n : 0 \notin column[j] /\ (j > need => column[j] # {})

LEMMA ColumnsAreWarm ==
  ASSUME Columns!IndicatorsAssumption, NEW spec \in Columns!Specs, ~ Columns!FastIsSlower(spec), NEW n \in Nat,
         NEW column \in Columns!Columns(spec, n)
  PROVE  Warm(column, n, Columns!specWarmup(spec))
<1>0. \A j \in 1..n : 1 \in 1..j /\ 0 \notin 1..j
  OBVIOUS
<1>1. CASE spec.name \in {"rsi", "atr"}
  <2>1. column = Columns!calcRSI(n, spec.period) /\ Columns!specWarmup(spec) = spec.period /\ spec.period \in Nat \ {0}
    BY <1>1, SpecKinds DEF Columns!Columns, Columns!calcATR, Columns!specWarmup, Simple
  <2>2. \A j \in 1..n : column[j] = IF j <= spec.period THEN {} ELSE 1..j
    BY <2>1 DEF Columns!calcRSI, Columns!Null
  <2> QED BY <1>0, <2>1, <2>2 DEF Warm
<1>2. CASE spec.name = "ema"
  <2>1. column = Columns!calcEMA(n, spec.period) /\ Columns!specWarmup(spec) = spec.period - 1 /\ spec.period \in Nat \ {0}
    BY <1>2, SpecKinds DEF Columns!Columns, Columns!specWarmup, Simple
  <2> DEFINE p == spec.period
  <2>2. \A j \in 1..n : column[j] = IF j < p THEN {} ELSE 1..j
    BY <2>1 DEF Columns!calcEMA, Columns!Null
  <2>3. p \in Nat \ {0} /\ Columns!specWarmup(spec) = p - 1
    BY <2>1
  <2> HIDE DEF p
  <2>4. \A j \in 1..n : 0 \notin column[j] /\ (j > p - 1 => 1 \in column[j])
    BY <1>0, <2>2, <2>3
  <2> QED BY <2>3, <2>4 DEF Warm
<1>3. CASE spec.name \in {"sma", "bbands"}
  <2>1. column = Columns!calcSMA(n, spec.period) /\ Columns!specWarmup(spec) = spec.period - 1 /\ spec.period \in Nat \ {0}
    BY <1>3, SpecKinds DEF Columns!Columns, Columns!calcBBands, Columns!specWarmup, Simple
  <2> DEFINE p == spec.period
  <2>2. \A j \in 1..n : column[j] = IF j < p THEN {} ELSE (j - p + 1)..j
    BY <2>1 DEF Columns!calcSMA, Columns!Null
  <2>3. p \in Nat \ {0} /\ Columns!specWarmup(spec) = p - 1
    BY <2>1
  <2> HIDE DEF p
  <2>4. \A j \in 1..n : j >= p => j \in (j - p + 1)..j /\ 0 \notin (j - p + 1)..j
    BY <2>3
  <2>5. \A j \in 1..n : 0 \notin column[j] /\ (j > p - 1 => j \in column[j])
    BY <2>2, <2>3, <2>4
  <2> QED BY <2>3, <2>5 DEF Warm
<1>4. CASE spec.name = "vwap"
  <2>1. column = Columns!calcVWAP(n) /\ Columns!specWarmup(spec) = 0
    BY <1>4 DEF Columns!Columns, Columns!specWarmup
  <2>2. \A j \in 1..n : column[j] = 1..j
    BY <2>1 DEF Columns!calcVWAP
  <2> QED BY <1>0, <2>1, <2>2 DEF Warm
<1>5. CASE spec.name = "macd"
  <2> DEFINE fast == spec.fast
             slow == spec.slow
             signal == spec.signal
             line == [i \in 1..n |-> IF i < slow THEN {} ELSE Columns!calcEMAFloat(n, fast)[i] \cup Columns!calcEMAFloat(n, slow)[i]]
             smoothed == [i \in 1..n |-> IF i - slow + 1 < signal THEN {} ELSE UNION {line[j] : j \in slow..i}]
  <2>1. {fast, slow, signal} \subseteq Nat \ {0} /\ fast <= slow /\ Columns!specWarmup(spec) = slow + signal
    BY <1>5, SpecKinds DEF Columns!specWarmup, Columns!FastIsSlower, Simple
  <2>2. column \in {line, smoothed}
    <3> DEFINE both == [macd |-> line, signal |-> smoothed]
    <3>1. Columns!calcMACD(n, fast, slow, signal) = both
      BY DEF Columns!calcMACD, Columns!Null
    <3>2. Columns!Columns(spec, n) = {Columns!calcMACD(n, fast, slow, signal)[p] : p \in {"macd", "signal"}}
      BY <1>5 DEF Columns!Columns
    <3>3. both["macd"] = line /\ both["signal"] = smoothed
      OBVIOUS
    <3> HIDE DEF both, line, smoothed
    <3> QED BY <3>1, <3>2, <3>3
  <2>3. \A i \in 1..n : line[i] = IF i < slow THEN {} ELSE 1..i
    <3>1. TAKE i \in 1..n
    <3>2. CASE i < slow
      BY <3>2
    <3>3. CASE ~ (i < slow)
      <4>1. Columns!calcEMAFloat(n, fast)[i] = 1..i /\ Columns!calcEMAFloat(n, slow)[i] = 1..i
        BY <2>1, <3>3 DEF Columns!calcEMAFloat
      <4> QED BY <3>3, <4>1
    <3> QED BY <3>2, <3>3
  <2> HIDE DEF line
  <2>4. Warm(line, n, slow + signal)
    BY <2>1, <2>3 DEF Warm
  <2>5. Warm(smoothed, n, slow + signal)
    <3>1. SUFFICES ASSUME NEW i \in 1..n PROVE 0 \notin smoothed[i] /\ (i > slow + signal => smoothed[i] # {})
      BY DEF Warm
    <3>2. smoothed[i] = IF i - slow + 1 < signal THEN {} ELSE UNION {line[j] : j \in slow..i}
      OBVIOUS
    <3> HIDE DEF smoothed
    <3>3. \A j \in slow..i : 0 \notin line[j]
      BY <2>1, <2>3
    <3>4. i > slow + signal => i \in slow..i /\ 1 \in line[i] /\ ~ (i - slow + 1 < signal)
      BY <2>1, <2>3
    <3> QED BY <3>2, <3>3, <3>4
  <2> HIDE DEF smoothed
  <2> QED BY <2>1, <2>2, <2>4, <2>5
<1> QED BY <1>1, <1>2, <1>3, <1>4, <1>5, SpecKinds DEF Simple

\* The columns of the answer, its last `limit` rows.
Rows ==
  [k \in 1..Len(request.specs) |->
     IF Columns!Shadowed(request.specs, k) THEN {}
     ELSE {[i \in 1..Columns!Min({Columns!Fetched, request.limit}) |->
              column[Columns!Fetched - Columns!Min({Columns!Fetched, request.limit}) + i]]
             : column \in Columns!Columns(request.specs[k], Columns!Fetched)}]

ColumnsInv ==
  /\ Len(request.specs) = 2 /\ request.specs[1] \in Columns!Specs /\ request.specs[2] \in Columns!Specs
  /\ request.limit \in CandleLimits /\ request.has \in 0..MaxCandles
  /\ answer \in {<< >>, Rows}

LEMMA ColumnsInit == Columns!Init => ColumnsInv
<1> SUFFICES ASSUME Columns!Init PROVE ColumnsInv
  OBVIOUS
<1>1. PICK limit \in CandleLimits, has \in 0..MaxCandles, first \in Columns!Specs, second \in Columns!Specs :
        request = [specs |-> <<first, second>>, limit |-> limit, has |-> has]
  BY DEF Columns!Init
<1>2. answer = << >>
  BY DEF Columns!Init
<1> QED BY <1>1, <1>2 DEF ColumnsInv

LEMMA ColumnsStep == ColumnsInv /\ [Columns!Next]_(Columns!vars) => ColumnsInv'
<1>1. ASSUME ColumnsInv, Columns!Compute PROVE ColumnsInv'
  <2>1. request' = request /\ answer' = Rows
    BY <1>1 DEF Columns!Compute, Rows
  <2>2. Rows' = Rows
    BY <2>1 DEF Rows, Columns!Fetched
  <2> QED BY <1>1, <2>1, <2>2 DEF ColumnsInv
<1>2. ASSUME ColumnsInv, UNCHANGED Columns!vars PROVE ColumnsInv'
  <2>1. request' = request /\ answer' = answer
    BY <1>2 DEF Columns!vars
  <2>2. Rows' = Rows
    BY <2>1 DEF Rows, Columns!Fetched
  <2> QED BY <1>2, <2>1, <2>2 DEF ColumnsInv
<1> QED BY <1>1, <1>2 DEF Columns!Next

LEMMA WarmFromInv == Columns!IndicatorsAssumption /\ ColumnsInv => Columns!RowsAreWarm
<1> DEFINE first == request.specs[1]
           second == request.specs[2]
           limit == request.limit
           need == Columns!WarmupNeeded({first, second})
           n == Columns!Fetched
           m == Columns!Min({n, limit})
<1> SUFFICES ASSUME Columns!IndicatorsAssumption, ColumnsInv, NEW k \in DOMAIN answer, ~ Columns!FastIsSlower(request.specs[k]),
                    NEW values \in answer[k], NEW i \in DOMAIN values
             PROVE  0 \notin values[i] /\ (Columns!Enough => values[i] # {})
  BY DEF Columns!RowsAreWarm, Columns!Unset, Columns!Null
<1>1. first \in Columns!Specs /\ second \in Columns!Specs /\ limit \in Nat \ {0} /\ request.has \in Nat /\ FetchCap \in Nat
  BY DEF ColumnsInv, Columns!IndicatorsAssumption
<1>2. need \in Nat /\ Columns!specWarmup(first) <= need /\ Columns!specWarmup(second) <= need
  <2>1. {Columns!specWarmup(x) : x \in {first, second}} \cup {0} = {Columns!specWarmup(first), Columns!specWarmup(second), 0}
    OBVIOUS
  <2>2. Columns!specWarmup(first) \in Nat /\ Columns!specWarmup(second) \in Nat
    BY <1>1, WarmupFacts
  <2>3. need = Columns!Max({Columns!specWarmup(first), Columns!specWarmup(second), 0})
    BY <2>1 DEF Columns!WarmupNeeded
  <2> DEFINE a == Columns!specWarmup(first)
             b == Columns!specWarmup(second)
             zero == 0
  <2>4. a \in Int /\ b \in Int /\ zero \in Int /\ need = Columns!Max({a, b, zero})
    BY <2>2, <2>3
  <2> HIDE DEF a, b, zero, need
  <2>5. need \in {a, b, zero} /\ need >= a /\ need >= b
    <3>1. \A x, y, z \in Int : LET most == Columns!Max({x, y, z}) IN most \in {x, y, z} /\ most >= x /\ most >= y /\ most >= z
      BY MaxOfThree
    <3>2. LET most == Columns!Max({a, b, zero}) IN most \in {a, b, zero} /\ most >= a /\ most >= b /\ most >= zero
      BY <2>4, <3>1
    <3> QED BY <2>4, <3>2
  <2> QED BY <2>2, <2>5 DEF a, b, zero
<1>3. /\ n \in Nat /\ m \in Nat /\ m <= n /\ m <= limit
      /\ Columns!Enough => n = limit + need /\ m = limit
  <2>1. n = Columns!Min({limit + need, FetchCap, request.has})
    BY DEF Columns!Fetched
  <2>2. Columns!Enough => limit + need <= FetchCap /\ limit + need <= request.has
    BY DEF Columns!Enough
  <2> HIDE DEF need, n, limit
  <2>3. limit + need \in Int /\ FetchCap \in Int /\ request.has \in Int
    BY <1>1, <1>2
  <2>4. n \in {limit + need, FetchCap, request.has} /\ n <= limit + need /\ n <= FetchCap /\ n <= request.has
    BY <2>1, <2>3, MinOfThree
  <2>5. n \in Nat /\ (Columns!Enough => n = limit + need)
    BY <1>1, <1>2, <2>2, <2>4
  <2>6. m = Columns!Min({n, limit, limit})
    <3>1. {n, limit} = {n, limit, limit}
      OBVIOUS
    <3> QED BY <3>1
  <2> HIDE DEF m
  <2>7. m \in {n, limit} /\ m <= n /\ m <= limit
    <3>1. \A x, y, z \in Int : LET least == Columns!Min({x, y, z}) IN least \in {x, y, z} /\ least <= x /\ least <= y /\ least <= z
      BY MinOfThree
    <3>2. n \in Int /\ limit \in Int
      BY <1>1, <2>5
    <3>3. LET least == Columns!Min({n, limit, limit}) IN least \in {n, limit, limit} /\ least <= n /\ least <= limit /\ least <= limit
      BY <3>1, <3>2
    <3> QED BY <2>6, <3>3
  <2> QED BY <1>1, <1>2, <2>5, <2>7
<1>4. k \in 1..2 /\ answer = Rows /\ request.specs[k] \in Columns!Specs /\ Columns!specWarmup(request.specs[k]) <= need
  <2>1. answer # << >>
    OBVIOUS
  <2>2. answer = Rows /\ Len(request.specs) = 2
    BY <2>1 DEF ColumnsInv
  <2>3. k \in 1..2
    BY <2>2 DEF Rows
  <2> HIDE DEF need
  <2> QED BY <1>1, <1>2, <2>2, <2>3
<1>5. PICK column \in Columns!Columns(request.specs[k], n) : values = [r \in 1..m |-> column[n - m + r]]
  <2>1. ~ Columns!Shadowed(request.specs, k)
    BY <1>4 DEF Rows, ColumnsInv
  <2> QED BY <1>4, <2>1 DEF Rows, ColumnsInv
<1> HIDE DEF n, m, need, limit
<1>6. Warm(column, n, Columns!specWarmup(request.specs[k]))
  BY <1>3, <1>4, <1>5, ColumnsAreWarm
<1>7. i \in 1..m /\ values[i] = column[n - m + i] /\ n - m + i \in 1..n
  BY <1>3, <1>5
<1>8. Columns!Enough => n - m + i > Columns!specWarmup(request.specs[k])
  <2>1. Columns!specWarmup(request.specs[k]) \in Nat
    BY <1>4, WarmupFacts
  <2> QED BY <1>1, <1>2, <1>3, <1>4, <1>7, <2>1
<1> QED BY <1>6, <1>7, <1>8 DEF Warm

\* get_candles and PRISM, whatever is cached, late, asked for or failing: every part of the property
\* of the run.
THEOREM MarketAnswers == Spec => []MarketAnswersAreRight
<1> DEFINE Inv == (part = "candles" => CachedInv) /\ (part = "indicators" => ColumnsInv)
<1>1. Inv => (part = "candles" => Cached!LiveAnswersAreFresh) /\ (part = "indicators" => Columns!RowsAreWarm)
  BY ServicesAssumption, FreshFromInv, WarmFromInv
<1>2. Init => Inv
  BY ServicesAssumption, CachedInit, ColumnsInit DEF Init
<1>3. Inv /\ [Next]_vars => Inv'
  BY ServicesAssumption, StepOfCached, CachedStep, StepOfColumns, ColumnsStep
<1>4. Spec => []Inv
  BY <1>2, <1>3, PTL DEF Spec
<1>5. Inv /\ (part = "prism" => Breaker!BreakerJudgesByOutcomes) => MarketAnswersAreRight
  BY <1>1 DEF MarketAnswersAreRight
<1> QED BY <1>4, <1>5, BreakerIsJust, PTL

-----------------------------------------------------------------------------
(* Sums. *)

\* f[i] is the sum of the first i numbers of s.
Sums(f, s) == f[0] = 0 /\ \A i \in 1..Len(s) : f[i] = f[i - 1] + s[i]

LEMMA SumsAgree ==
  ASSUME NEW s, Len(s) \in Nat, NEW f, NEW h, Sums(f, s), Sums(h, s)
  PROVE  \A i \in 0..Len(s) : f[i] = h[i]
<1> DEFINE Same == {i \in 0..Len(s) : f[i] = h[i]}
<1>1. 0 \in Same /\ \A i \in 1..Len(s) : i - 1 \in Same => i \in Same
  BY DEF Sums
<1> HIDE DEF Same
<1>2. 0..Len(s) \subseteq Same
  BY <1>1, UpTo
<1> QED BY <1>2 DEF Same

LEMMA SumsExist ==
  ASSUME NEW s \in Seq(Int)
  PROVE  \E f \in [0..Len(s) -> Int] : Sums(f, s)
<1> DEFINE n == Len(s)
           zero == 0
           G == [i \in 1..n |-> [v \in Int |-> v + s[i]]]
<1>1. n \in Nat /\ zero \in Int /\ \A i \in 1..n : s[i] \in Int
  OBVIOUS
<1>2. G \in [1..n -> [Int -> Int]]
  BY <1>1
<1>3. \A i \in 1..n : \A v \in Int : G[i][v] = v + s[i]
  OBVIOUS
<1> HIDE DEF G, n, zero
<1>4. PICK f \in [0..n -> Int] : f[0] = zero /\ \A i \in 1..n : f[i] = G[i][f[i - 1]]
  <2>1. \E F \in [0..n -> Int] : Recurs(F, n, zero, G)
    BY <1>1, <1>2, RecursionExists
  <2> QED BY <2>1 DEF Recurs
<1>5. \A i \in 1..n : f[i] = f[i - 1] + s[i]
  <2>1. \A i \in 1..n : f[i - 1] \in Int
    BY <1>1, <1>4
  <2> QED BY <1>3, <1>4, <2>1
<1> QED BY <1>4, <1>5 DEF Sums, n, zero

LEMMA TotalIs ==
  ASSUME NEW s \in Seq(Int), NEW f, Sums(f, s)
  PROVE  Profit!Total(s) = f[Len(s)]
<1> DEFINE n == Len(s)
           P(h) == h = [i \in 0..n |-> IF i = 0 THEN 0 ELSE h[i - 1] + s[i]]
           Sum == CHOOSE h : P(h)
<1>1. n \in Nat
  OBVIOUS
<1>2. PICK e \in [0..n -> Int] : Sums(e, s)
  BY SumsExist
<1>3. P(e)
  <2>1. \A i \in 0..n : e[i] = IF i = 0 THEN 0 ELSE e[i - 1] + s[i]
    BY <1>1, <1>2 DEF Sums
  <2> QED BY <1>2, <2>1
<1>4. P(Sum)
  <2> HIDE DEF P
  <2> QED BY <1>3
<1>5. Sums(Sum, s)
  <2> HIDE DEF Sum
  <2>1. \A i \in 0..n : Sum[i] = IF i = 0 THEN 0 ELSE Sum[i - 1] + s[i]
    BY <1>4
  <2>2. 0 \in 0..n /\ \A i \in 1..n : i \in 0..n /\ i # 0
    BY <1>1
  <2> QED BY <2>1, <2>2 DEF Sums
<1>6. Sum[n] = f[n]
  <2> HIDE DEF Sum
  <2>1. \A i \in 0..Len(s) : Sum[i] = f[i]
    BY <1>1, <1>5, SumsAgree
  <2> QED BY <1>1, <2>1
<1>7. Profit!Total(s) = Sum[n]
  BY DEF Profit!Total
<1> QED BY <1>6, <1>7

LEMMA TotalTyped ==
  ASSUME NEW s \in Seq(Int)
  PROVE  Profit!Total(s) \in Int /\ (Len(s) = 0 => Profit!Total(s) = 0)
<1>1. PICK f \in [0..Len(s) -> Int] : Sums(f, s)
  BY SumsExist
<1>2. Profit!Total(s) = f[Len(s)]
  BY <1>1, TotalIs
<1>3. Len(s) \in 0..Len(s)
  OBVIOUS
<1> QED BY <1>1, <1>2, <1>3 DEF Sums

LEMMA TotalAppend ==
  ASSUME NEW s \in Seq(Int), NEW x \in Int
  PROVE  Profit!Total(Append(s, x)) = Profit!Total(s) + x
<1> DEFINE n == Len(s)
           t == Append(s, x)
<1>1. PICK f \in [0..n -> Int] : Sums(f, s)
  BY SumsExist
<1>2. n \in Nat /\ t \in Seq(Int) /\ Len(t) = n + 1 /\ t[n + 1] = x /\ \A i \in 1..n : t[i] = s[i]
  OBVIOUS
<1> DEFINE h == [i \in 0..(n + 1) |-> IF i <= n THEN f[i] ELSE f[n] + x]
<1>3. \A i \in 0..n : h[i] = f[i]
  BY <1>2
<1>4. h[n + 1] = f[n] + x
  BY <1>2
<1> HIDE DEF h, t, n
<1>5. Sums(h, t)
  <2>1. h[0] = 0
    BY <1>1, <1>2, <1>3 DEF Sums, n
  <2>2. \A i \in 1..n : h[i] = h[i - 1] + t[i]
    <3>1. \A i \in 1..n : i - 1 \in 0..n /\ i \in 0..n
      BY <1>2
    <3> QED BY <1>1, <1>2, <1>3, <3>1 DEF Sums, n
  <2>3. h[n + 1] = h[(n + 1) - 1] + t[n + 1]
    BY <1>2, <1>3, <1>4
  <2>4. \A i \in 1..Len(t) : i \in 1..n \/ i = n + 1
    BY <1>2
  <2> QED BY <2>1, <2>2, <2>3, <2>4 DEF Sums
<1>6. Profit!Total(t) = h[n + 1] /\ Profit!Total(s) = f[n]
  BY <1>1, <1>2, <1>5, TotalIs DEF n
<1> QED BY <1>4, <1>6 DEF t

\* The sum of the sums, of two sequences of the same length.
LEMMA TotalPlus ==
  ASSUME NEW s \in Seq(Int), NEW t \in Seq(Int), NEW u \in Seq(Int),
         Len(t) = Len(s), Len(u) = Len(s), \A i \in 1..Len(s) : u[i] = s[i] + t[i]
  PROVE  Profit!Total(u) = Profit!Total(s) + Profit!Total(t)
<1> DEFINE n == Len(s)
<1>1. PICK f \in [0..n -> Int] : Sums(f, s)
  BY SumsExist
<1>2. PICK g \in [0..n -> Int] : Sums(g, t)
  BY SumsExist
<1> DEFINE h == [i \in 0..n |-> f[i] + g[i]]
<1>3. n \in Nat /\ 0 \in 0..n /\ n \in 0..n /\ \A i \in 1..n : i \in 0..n /\ i - 1 \in 0..n
  OBVIOUS
<1>4. /\ \A i \in 0..n : h[i] = f[i] + g[i]
      /\ \A i \in 0..n : f[i] \in Int
      /\ \A i \in 0..n : g[i] \in Int
  BY <1>1, <1>2
<1>5. \A i \in 1..n : s[i] \in Int /\ t[i] \in Int /\ u[i] = s[i] + t[i]
  BY <1>3
<1>6. f[0] = 0 /\ g[0] = 0 /\ \A i \in 1..n : f[i] = f[i - 1] + s[i] /\ g[i] = g[i - 1] + t[i]
  BY <1>1, <1>2 DEF Sums
<1>7. Len(u) = n /\ h[0] = f[0] + g[0]
  BY <1>3
<1> HIDE DEF h, n
<1>8. Sums(h, u)
  <2>1. h[0] = 0
    BY <1>6, <1>7
  <2>2. \A i \in 1..n : h[i] = h[i - 1] + u[i]
    <3>1. TAKE i \in 1..n
    <3>2. i \in 0..n /\ i - 1 \in 0..n
      BY <1>3
    <3>3. h[i] = f[i] + g[i] /\ h[i - 1] = f[i - 1] + g[i - 1] /\ f[i - 1] \in Int /\ g[i - 1] \in Int
      BY <1>4, <3>2
    <3>4. f[i] = f[i - 1] + s[i] /\ g[i] = g[i - 1] + t[i] /\ u[i] = s[i] + t[i] /\ s[i] \in Int /\ t[i] \in Int
      BY <1>5, <1>6
    <3> QED BY <3>3, <3>4, SMTT(60)
  <2> QED BY <1>7, <2>1, <2>2 DEF Sums
<1>9. Profit!Total(u) = h[n] /\ Profit!Total(s) = f[n] /\ Profit!Total(t) = g[n]
  BY <1>1, <1>2, <1>7, <1>8, TotalIs DEF n
<1> QED BY <1>3, <1>4, <1>9

LEMMA TotalOpposite ==
  ASSUME NEW s \in Seq(Int), NEW t \in Seq(Int), Len(t) = Len(s), \A i \in 1..Len(s) : t[i] = - s[i]
  PROVE  Profit!Total(t) = - Profit!Total(s)
<1> DEFINE n == Len(s)
           u == [i \in 1..n |-> 0]
<1>1. n \in Nat /\ u \in Seq(Int) /\ Len(u) = n /\ \A i \in 1..n : s[i] \in Int /\ u[i] = s[i] + t[i]
  OBVIOUS
<1>2. Profit!Total(u) = 0
  <2> DEFINE h == [i \in 0..n |-> 0]
  <2>1. \A i \in 0..n : h[i] = 0
    OBVIOUS
  <2>2. 0 \in 0..n /\ n \in 0..n /\ \A i \in 1..n : u[i] = 0 /\ i \in 0..n /\ i - 1 \in 0..n
    OBVIOUS
  <2> HIDE DEF h, u, n
  <2>3. Sums(h, u)
    BY <1>1, <2>1, <2>2 DEF Sums
  <2> QED BY <1>1, <2>1, <2>2, <2>3, TotalIs
<1> HIDE DEF u
<1>3. Profit!Total(u) = Profit!Total(s) + Profit!Total(t)
  BY <1>1, TotalPlus
<1>4. Profit!Total(s) \in Int /\ Profit!Total(t) \in Int
  BY TotalTyped
<1> DEFINE a == Profit!Total(s)
           b == Profit!Total(t)
<1>5. a \in Int /\ b \in Int /\ 0 = a + b
  BY <1>2, <1>3, <1>4
<1> HIDE DEF a, b
<1>6. b = - a
  BY <1>5
<1> QED BY <1>6 DEF a, b

\* When one of the numbers changes, the sum changes with it.
LEMMA TotalBent ==
  ASSUME NEW s \in Seq(Int), NEW t \in Seq(Int), Len(t) = Len(s),
         NEW k \in 1..Len(s), \A i \in 1..Len(s) : i # k => t[i] = s[i]
  PROVE  Profit!Total(t) = Profit!Total(s) + (t[k] - s[k])
<1> DEFINE n == Len(s)
           d == t[k] - s[k]
<1>1. PICK f \in [0..n -> Int] : Sums(f, s)
  BY SumsExist
<1> DEFINE h == [i \in 0..n |-> IF i < k THEN f[i] ELSE f[i] + d]
<1>2. n \in Nat /\ k \in 1..n /\ d \in Int /\ s[k] \in Int /\ t[k] = s[k] + d
  <2>1. s[k] \in Int /\ t[k] \in Int
    OBVIOUS
  <2> QED BY <2>1
<1>3. 0 \in 0..n /\ n \in 0..n /\ 0 < k /\ k <= n /\ \A i \in 1..n : i \in 0..n /\ i - 1 \in 0..n
  BY <1>2
<1>4. \A i \in 0..n : f[i] \in Int /\ h[i] = IF i < k THEN f[i] ELSE f[i] + d
  BY <1>1
<1>5. \A i \in 1..n : s[i] \in Int /\ (i # k => t[i] = s[i])
  OBVIOUS
<1>6. f[0] = 0 /\ \A i \in 1..n : f[i] = f[i - 1] + s[i]
  BY <1>1 DEF Sums
<1>7. Len(t) = n
  OBVIOUS
<1> HIDE DEF h, n, d
<1>8. Sums(h, t)
  <2>1. h[0] = 0
    BY <1>2, <1>3, <1>4, <1>6
  <2>2. \A i \in 1..n : h[i] = h[i - 1] + t[i]
    <3>1. TAKE i \in 1..n
    <3>2. CASE i < k
      BY <1>2, <1>3, <1>4, <1>5, <1>6, <3>2
    <3>3. CASE i = k
      BY <1>2, <1>3, <1>4, <1>5, <1>6, <3>3
    <3>4. CASE i > k
      <4>1. i \in 0..n /\ i - 1 \in 0..n /\ ~ (i < k) /\ ~ (i - 1 < k) /\ t[i] = s[i] /\ s[i] \in Int
        BY <1>2, <1>3, <1>5, <3>4, SMTT(60)
      <4>2. h[i] = f[i] + d /\ h[i - 1] = f[i - 1] + d /\ f[i - 1] \in Int /\ f[i] = f[i - 1] + s[i] /\ d \in Int
        BY <1>2, <1>4, <1>6, <4>1
      <4>3. t[i] = s[i] /\ s[i] \in Int
        BY <4>1
      <4> QED BY <4>2, <4>3, SMTT(60)
    <3> QED BY <1>2, <3>2, <3>3, <3>4
  <2> QED BY <1>7, <2>1, <2>2 DEF Sums
<1>9. Profit!Total(t) = h[n] /\ Profit!Total(s) = f[n]
  BY <1>1, <1>7, <1>8, TotalIs DEF n
<1>10. h[n] = f[n] + d
  BY <1>2, <1>3, <1>4
<1> QED BY <1>9, <1>10 DEF d

LEMMA TotalPositive ==
  ASSUME NEW s \in Seq(Int), Len(s) > 0, \A i \in 1..Len(s) : s[i] > 0
  PROVE  Profit!Total(s) > 0
<1> DEFINE n == Len(s)
<1>1. PICK f \in [0..n -> Int] : Sums(f, s)
  BY SumsExist
<1> DEFINE Up == {i \in 0..n : f[i] >= 0 /\ (i > 0 => f[i] > 0)}
<1>2. n \in Nat /\ n > 0 /\ n \in 0..n /\ \A i \in 1..n : s[i] \in Int /\ s[i] > 0 /\ i \in 0..n /\ i - 1 \in 0..n
  OBVIOUS
<1>3. 0 \in Up
  BY <1>1, <1>2 DEF Sums
<1>4. ASSUME NEW i \in 1..n, i - 1 \in Up PROVE i \in Up
  <2>1. f[i] = f[i - 1] + s[i] /\ f[i - 1] \in Int /\ f[i - 1] >= 0 /\ s[i] > 0 /\ s[i] \in Int
    BY <1>1, <1>2, <1>4 DEF Sums
  <2>2. f[i] > 0 /\ i \in 0..n
    BY <1>2, <2>1
  <2> QED BY <2>2
<1> HIDE DEF Up
<1>5. n \in Up
  BY <1>2, <1>3, <1>4, UpTo
<1>6. f[n] > 0
  BY <1>2, <1>5 DEF Up
<1> QED BY <1>1, <1>6, TotalIs

-----------------------------------------------------------------------------
(* Lots. *)

Lots == [qty : Int, cost : Int]

\* All of the lots are long, or all are short.
OneWay(s, up) == \A k \in 1..Len(s) : IF up THEN s[k].qty > 0 ELSE s[k].qty < 0

Quantities(s) == [k \in DOMAIN s |-> s[k].qty]
Values(s) == [k \in DOMAIN s |-> s[k].qty * s[k].cost]
Costs(s) == [k \in DOMAIN s |-> Profit!Units(s[k].qty) * s[k].cost]

\* What the lots have cost, the short ones counted negative.
BookValue(s) == Profit!Total(Values(s))

LEMMA UnitsFacts ==
  ASSUME NEW n \in Int
  PROVE  Profit!Units(n) \in Nat /\ (n > 0 => Profit!Units(n) = n) /\ (n < 0 => Profit!Units(n) = - n)
BY DEF Profit!Units

LEMMA ProductTyped == \A a, b \in Int : a * b \in Int
OBVIOUS

LEMMA LotFields ==
  ASSUME NEW s \in Seq(Lots)
  PROVE  /\ Len(s) \in Nat /\ DOMAIN s = 1..Len(s)
         /\ \A k \in 1..Len(s) : s[k].qty \in Int /\ s[k].cost \in Int /\ s[k] \in Lots
<1>1. \A k \in 1..Len(s) : s[k] \in Lots
  OBVIOUS
<1>2. \A lot \in Lots : lot.qty \in Int /\ lot.cost \in Int
  BY DEF Lots
<1> QED BY <1>1, <1>2

LEMMA NumbersOfLots ==
  ASSUME NEW s \in Seq(Lots)
  PROVE  /\ Quantities(s) \in Seq(Int) /\ Len(Quantities(s)) = Len(s)
         /\ Values(s) \in Seq(Int) /\ Len(Values(s)) = Len(s)
         /\ Costs(s) \in Seq(Int) /\ Len(Costs(s)) = Len(s)
<1>1. Len(s) \in Nat /\ DOMAIN s = 1..Len(s) /\ \A k \in 1..Len(s) : s[k].qty \in Int /\ s[k].cost \in Int
  BY LotFields
<1>2. \A k \in 1..Len(s) : s[k].qty * s[k].cost \in Int
  BY <1>1, ProductTyped
<1>3. \A k \in 1..Len(s) : Profit!Units(s[k].qty) * s[k].cost \in Int
  <2>1. \A k \in 1..Len(s) : Profit!Units(s[k].qty) \in Int
    BY <1>1, UnitsFacts
  <2> QED BY <1>1, <2>1, ProductTyped
<1>4. Quantities(s) \in Seq(Int) /\ Len(Quantities(s)) = Len(s)
  BY <1>1 DEF Quantities
<1>5. Values(s) \in Seq(Int) /\ Len(Values(s)) = Len(s)
  BY <1>1, <1>2 DEF Values
<1>6. Costs(s) \in Seq(Int) /\ Len(Costs(s)) = Len(s)
  BY <1>1, <1>3 DEF Costs
<1> QED BY <1>4, <1>5, <1>6

LEMMA ValueTyped == ASSUME NEW s \in Seq(Lots) PROVE BookValue(s) \in Int /\ Profit!Position(s) \in Int
BY NumbersOfLots, TotalTyped DEF BookValue, Profit!Position, Quantities

LEMMA ValueOfNone == BookValue(<< >>) = 0
<1> DEFINE none == << >>
<1>1. none \in Seq(Lots) /\ Len(none) = 0
  OBVIOUS
<1> HIDE DEF none
<1>2. BookValue(none) = 0
  BY <1>1, NumbersOfLots, TotalTyped DEF BookValue
<1> QED BY <1>2 DEF none

LEMMA ValueAppend ==
  ASSUME NEW s \in Seq(Lots), NEW lot \in Lots
  PROVE  Append(s, lot) \in Seq(Lots) /\ BookValue(Append(s, lot)) = BookValue(s) + lot.qty * lot.cost
<1> DEFINE n == Len(s)
           t == Append(s, lot)
           x == lot.qty * lot.cost
<1>1. n \in Nat /\ t \in Seq(Lots) /\ DOMAIN s = 1..n /\ DOMAIN t = 1..(n + 1) /\ t[n + 1] = lot /\ \A i \in 1..n : t[i] = s[i]
  OBVIOUS
<1>2. x \in Int
  BY ProductTyped DEF Lots
<1>3. Values(t) = Append(Values(s), x)
  <2>1. Values(s) \in Seq(Int) /\ Len(Values(s)) = n
    BY NumbersOfLots
  <2>2. Values(t) \in Seq(Int) /\ Len(Values(t)) = n + 1
    <3>1. Len(t) = n + 1
      OBVIOUS
    <3> HIDE DEF t
    <3> QED BY <1>1, <3>1, NumbersOfLots
  <2>3. \A i \in 1..n : Values(t)[i] = Values(s)[i]
    <3> HIDE DEF t, n
    <3> QED BY <1>1 DEF Values
  <2>4. Values(t)[n + 1] = x
    <3>1. n + 1 \in 1..(n + 1)
      BY <1>1
    <3> HIDE DEF t, n
    <3> QED BY <1>1, <3>1 DEF Values
  <2> DEFINE v == Values(s)
             w == Values(t)
  <2> HIDE DEF t, v, w, x
  <2>5. w = Append(v, x)
    <3>1. v \in Seq(Int) /\ Len(v) = n /\ w \in Seq(Int) /\ Len(w) = n + 1 /\ w[n + 1] = x /\ \A i \in 1..n : w[i] = v[i]
      BY <2>1, <2>2, <2>3, <2>4 DEF v, w
    <3>2. Append(v, x) \in Seq(Int) /\ Len(Append(v, x)) = n + 1 /\ Append(v, x)[n + 1] = x /\ \A i \in 1..n : Append(v, x)[i] = v[i]
      BY <1>1, <1>2, <3>1
    <3>3. \A i \in 1..(n + 1) : w[i] = Append(v, x)[i]
      BY <1>1, <3>1, <3>2
    <3> QED BY <3>1, <3>2, <3>3
  <2> QED BY <2>5 DEF v, w
<1>4. Values(s) \in Seq(Int)
  BY NumbersOfLots
<1>5. BookValue(t) = BookValue(s) + x
  <2> HIDE DEF t, x
  <2> QED BY <1>2, <1>3, <1>4, TotalAppend DEF BookValue
<1> QED BY <1>1, <1>5

\* The position has the sign of the lots, and is none only without lots.
LEMMA PositionSign ==
  ASSUME NEW s \in Seq(Lots), NEW up \in BOOLEAN, OneWay(s, up)
  PROVE  /\ Len(s) = 0 => Profit!Position(s) = 0
         /\ Len(s) > 0 => IF up THEN Profit!Position(s) > 0 ELSE Profit!Position(s) < 0
<1> DEFINE q == Quantities(s)
           n == Len(s)
           o == [k \in 1..n |-> - q[k]]
<1>1. q \in Seq(Int) /\ Len(q) = n /\ n \in Nat
  BY NumbersOfLots
<1>2. Profit!Position(s) = Profit!Total(q)
  BY DEF Profit!Position, Quantities
<1>3. \A k \in 1..n : q[k] = s[k].qty
  BY LotFields DEF Quantities
<1> HIDE DEF q
<1>4. \A k \in 1..n : q[k] \in Int
  BY <1>1
<1>5. o \in Seq(Int) /\ Len(o) = n /\ \A k \in 1..n : o[k] = - q[k]
  BY <1>1, <1>4
<1> HIDE DEF o
<1>6. CASE n = 0
  BY <1>1, <1>2, <1>6, TotalTyped
<1>7. CASE n > 0 /\ up
  <2>1. \A k \in 1..n : q[k] > 0
    BY <1>3, <1>7 DEF OneWay
  <2> QED BY <1>1, <1>2, <1>7, <2>1, TotalPositive
<1>8. CASE n > 0 /\ ~ up
  <2>1. \A k \in 1..n : q[k] < 0
    BY <1>3, <1>8 DEF OneWay
  <2>2. \A k \in 1..n : o[k] > 0
    BY <1>4, <1>5, <2>1
  <2>3. Profit!Total(o) > 0
    BY <1>5, <1>8, <2>2, TotalPositive
  <2>4. Profit!Total(o) = - Profit!Total(q)
    BY <1>1, <1>5, TotalOpposite
  <2>5. Profit!Total(q) \in Int
    BY <1>1, TotalTyped
  <2> QED BY <1>2, <1>8, <2>3, <2>4, <2>5
<1> QED BY <1>1, <1>6, <1>7, <1>8

LEMMA CostIsValue ==
  ASSUME NEW s \in Seq(Lots), NEW up \in BOOLEAN, OneWay(s, up)
  PROVE  Profit!TotalCost(s) = IF up THEN BookValue(s) ELSE - BookValue(s)
<1> DEFINE c == Costs(s)
           v == Values(s)
           n == Len(s)
<1>1. c \in Seq(Int) /\ Len(c) = n /\ v \in Seq(Int) /\ Len(v) = n /\ n \in Nat
  BY NumbersOfLots
<1>2. Profit!TotalCost(s) = Profit!Total(c)
  BY DEF Profit!TotalCost, Costs
<1>3. \A k \in 1..n : c[k] = Profit!Units(s[k].qty) * s[k].cost /\ v[k] = s[k].qty * s[k].cost
  BY LotFields DEF Costs, Values
<1>4. \A a, b \in Int : (- a) * b = - (a * b)
  OBVIOUS
<1> HIDE DEF c, v
<1>5. CASE up
  <2>1. \A k \in 1..n : c[k] = v[k]
    <3>1. \A k \in 1..n : Profit!Units(s[k].qty) = s[k].qty
      BY <1>5, LotFields, UnitsFacts DEF OneWay
    <3> QED BY <1>3, <3>1
  <2>2. c = v
    <3> HIDE DEF n
    <3>1. c = [k \in 1..n |-> c[k]] /\ v = [k \in 1..n |-> v[k]]
      BY <1>1
    <3> QED BY <2>1, <3>1
  <2> QED BY <1>2, <1>5, <2>2 DEF BookValue, v
<1>6. CASE ~ up
  <2>1. \A k \in 1..n : c[k] = - v[k]
    <3>1. \A k \in 1..n : Profit!Units(s[k].qty) = - s[k].qty
      BY <1>6, LotFields, UnitsFacts DEF OneWay
    <3>2. \A k \in 1..n : s[k].qty \in Int /\ s[k].cost \in Int
      BY LotFields
    <3> QED BY <1>3, <1>4, <3>1, <3>2
  <2>2. Profit!Total(c) = - Profit!Total(v)
    BY <1>1, <2>1, TotalOpposite
  <2> QED BY <1>2, <1>6, <2>2 DEF BookValue, v
<1> QED BY <1>5, <1>6

-----------------------------------------------------------------------------
(* Taking from the lots. *)

Acc == [need : Nat, cost : Int, kept : Seq(Lots), dust : Int]

\* What was taken so far, of lots that have cost v: the rest that is needed, and what is left.
Balanced(a, v, up, qty) ==
  /\ a.need <= qty
  /\ OneWay(a.kept, up)
  /\ a.need > 0 => a.kept = << >>
  /\ BookValue(a.kept) + a.dust = IF up THEN v - a.cost ELSE v + a.cost

LEMMA AccTyped ==
  ASSUME NEW need \in Nat, NEW cost \in Int, NEW kept \in Seq(Lots), NEW dust \in Int
  PROVE  [need |-> need, cost |-> cost, kept |-> kept, dust |-> dust] \in Acc
BY DEF Acc

LEMMA LotTyped ==
  ASSUME NEW q \in Int, NEW c \in Int
  PROVE  Profit!Lot(q, c) \in Lots /\ Profit!Lot(q, c).qty = q /\ Profit!Lot(q, c).cost = c
BY DEF Profit!Lot, Lots

LEMMA OneWayAppend ==
  ASSUME NEW s \in Seq(Lots), NEW up \in BOOLEAN, OneWay(s, up), NEW lot \in Lots,
         IF up THEN lot.qty > 0 ELSE lot.qty < 0
  PROVE  OneWay(Append(s, lot), up)
<1> DEFINE n == Len(s)
           t == Append(s, lot)
<1>1. n \in Nat /\ Len(t) = n + 1 /\ t[n + 1] = lot /\ \A k \in 1..n : t[k] = s[k]
  OBVIOUS
<1> HIDE DEF t
<1>2. \A k \in 1..Len(t) : k \in 1..n \/ k = n + 1
  BY <1>1
<1> QED BY <1>1, <1>2 DEF OneWay, t

LEMMA TakenKeeps ==
  ASSUME DustThreshold \in Nat, NEW up \in BOOLEAN, NEW qty \in Nat, NEW a \in Acc, NEW lot \in Lots,
         IF up THEN lot.qty > 0 ELSE lot.qty < 0, NEW v \in Int, Balanced(a, v, up, qty)
  PROVE  Profit!Taken(a, lot) \in Acc /\ Balanced(Profit!Taken(a, lot), v + lot.qty * lot.cost, up, qty)
<1> DEFINE units == Profit!Units(lot.qty)
           used == Profit!Least(units, a.need)
           rest == Profit!Lot(IF lot.qty < 0 THEN lot.qty + used ELSE lot.qty - used, lot.cost)
           gone == a.need > 0 /\ Profit!Units(rest.qty) <= DustThreshold
           t == Profit!Taken(a, lot)
           worth == lot.qty * lot.cost
           paid == used * lot.cost
           left == rest.qty * lot.cost
<1>1. a.need \in Nat /\ a.cost \in Int /\ a.kept \in Seq(Lots) /\ a.dust \in Int /\ lot.qty \in Int /\ lot.cost \in Int
  BY DEF Acc, Lots
<1>2. t = [need |-> a.need - used, cost |-> a.cost + paid,
           kept |-> IF gone THEN a.kept ELSE Append(a.kept, rest),
           dust |-> IF gone THEN a.dust + rest.qty * lot.cost ELSE a.dust]
  BY DEF Profit!Taken
<1>3. /\ t.need = a.need - used /\ t.cost = a.cost + paid
      /\ t.kept = IF gone THEN a.kept ELSE Append(a.kept, rest)
      /\ t.dust = IF gone THEN a.dust + left ELSE a.dust
  BY <1>2
<1>14. t = [need |-> t.need, cost |-> t.cost, kept |-> t.kept, dust |-> t.dust]
  <2> HIDE DEF gone, used, paid, rest, left
  <2> QED BY <1>2
<1>4. units \in Nat /\ (up => units = lot.qty) /\ (~ up => units = - lot.qty)
  BY <1>1, UnitsFacts
<1>5. used \in Nat /\ used <= units /\ used <= a.need /\ (used < a.need => used = units)
  <2> HIDE DEF units
  <2> QED BY <1>1, <1>4 DEF Profit!Least
<1>6. rest \in Lots /\ rest.cost = lot.cost /\ rest.qty = IF up THEN lot.qty - used ELSE lot.qty + used
  <2> HIDE DEF used, units
  <2>1. (IF lot.qty < 0 THEN lot.qty + used ELSE lot.qty - used) \in Int
    BY <1>1, <1>5
  <2>2. (IF lot.qty < 0 THEN lot.qty + used ELSE lot.qty - used) = IF up THEN lot.qty - used ELSE lot.qty + used
    BY <1>1
  <2> QED BY <1>1, <2>1, <2>2, LotTyped
<1>7. rest.qty \in Int /\ (up => rest.qty >= 0) /\ (~ up => rest.qty <= 0)
  <2> HIDE DEF used, units, rest
  <2> QED BY <1>1, <1>4, <1>5, <1>6 DEF Lots
<1>8. worth \in Int /\ paid \in Int /\ left \in Int /\ left = IF up THEN worth - paid ELSE worth + paid
  <2>1. \A x, y, z \in Int : (x - y) * z = x * z - y * z /\ (x + y) * z = x * z + y * z
    OBVIOUS
  <2>2. used \in Int
    BY <1>5
  <2> HIDE DEF used, rest, units
  <2>3. left = IF up THEN worth - paid ELSE worth + paid
    BY <1>1, <1>6, <2>1, <2>2
  <2> QED BY <1>1, <1>7, <2>2, <2>3, ProductTyped
<1>15. v \in Int
  OBVIOUS
<1> HIDE DEF t, worth, paid, left, used, units
<1>9. BookValue(a.kept) \in Int /\ BookValue(a.kept) + a.dust = IF up THEN v - a.cost ELSE v + a.cost
  BY <1>1, ValueTyped DEF Balanced
<1>10. a.need <= qty /\ OneWay(a.kept, up) /\ (a.need > 0 => a.kept = << >>)
  BY DEF Balanced
<1>11. t.need \in Nat /\ t.need <= qty /\ t.cost \in Int
  BY <1>1, <1>3, <1>5, <1>8, <1>10, SMTT(60)
<1>12. CASE gone
  <2> HIDE DEF rest
  <2>1. t.kept = a.kept /\ t.dust = a.dust + left
    BY <1>3, <1>12
  <2>2. t.need > 0 => t.kept = << >>
    BY <1>10, <1>12, <2>1
  <2>3. BookValue(t.kept) + t.dust = IF up THEN (v + worth) - t.cost ELSE (v + worth) + t.cost
    <3>1. BookValue(t.kept) = BookValue(a.kept)
      BY <2>1
    <3>2. t.cost = a.cost + paid
      BY <1>3
    <3> DEFINE b == BookValue(a.kept)
    <3>3. b \in Int /\ a.dust \in Int /\ a.cost \in Int
      BY <1>1, <1>9
    <3>4. CASE up
      <4>1. b + a.dust = v - a.cost /\ left = worth - paid
        BY <1>8, <1>9, <3>4
      <4> HIDE DEF b
      <4>2. (b + left) + a.dust = (v + worth) - (a.cost + paid)
        BY <1>8, <1>15, <3>3, <4>1
      <4> QED BY <1>8, <3>3, <3>4, <4>2, <1>15, <2>1, <3>1, <3>2 DEF b
    <3>5. CASE ~ up
      <4>1. b + a.dust = v + a.cost /\ left = worth + paid
        BY <1>8, <1>9, <3>5
      <4> HIDE DEF b
      <4>2. (b + left) + a.dust = (v + worth) + (a.cost + paid)
        BY <1>8, <1>15, <3>3, <4>1
      <4> QED BY <1>8, <3>3, <3>5, <4>2, <1>15, <2>1, <3>1, <3>2 DEF b
    <3> QED BY <3>4, <3>5
  <2>4. t.dust \in Int
    BY <1>1, <1>8, <2>1
  <2>5. Balanced(t, v + worth, up, qty)
    BY <1>10, <1>11, <2>1, <2>2, <2>3 DEF Balanced
  <2>6. t \in Acc
    <3>1. [need |-> t.need, cost |-> t.cost, kept |-> t.kept, dust |-> t.dust] \in Acc
      BY <1>1, <1>11, <2>1, <2>4, AccTyped
    <3> QED BY <1>14, <3>1, Zenon
  <2> QED BY <2>5, <2>6 DEF t, worth
<1>13. CASE ~ gone
  <2>1. a.need = 0 \/ Profit!Units(rest.qty) > 0
    <3> HIDE DEF rest
    <3>1. Profit!Units(rest.qty) \in Nat
      BY <1>7, UnitsFacts
    <3> QED BY <1>1, <1>13, <3>1
  <2> HIDE DEF gone
  <2>2. t.kept = Append(a.kept, rest) /\ t.dust = a.dust
    BY <1>3, <1>13
  <2> HIDE DEF rest
  <2>3. rest.qty # 0
    <3>1. CASE a.need = 0
      BY <1>1, <1>4, <1>5, <1>6, <3>1
    <3>2. CASE Profit!Units(rest.qty) > 0
      BY <1>7, <3>2 DEF Profit!Units
    <3> QED BY <2>1, <3>1, <3>2
  <2>4. t.need = 0
    BY <1>1, <1>3, <1>4, <1>5, <1>6, <2>3
  <2>5. IF up THEN rest.qty > 0 ELSE rest.qty < 0
    BY <1>7, <2>3
  <2>6. OneWay(t.kept, up)
    BY <1>1, <1>6, <1>10, <2>2, <2>5, OneWayAppend
  <2>7. t.kept \in Seq(Lots) /\ BookValue(t.kept) = BookValue(a.kept) + left
    BY <1>1, <1>6, <2>2, ValueAppend DEF left
  <2>8. BookValue(t.kept) + t.dust = IF up THEN (v + worth) - t.cost ELSE (v + worth) + t.cost
    <3>1. t.cost = a.cost + paid
      BY <1>3
    <3> DEFINE b == BookValue(a.kept)
    <3>3. b \in Int /\ a.dust \in Int /\ a.cost \in Int
      BY <1>1, <1>9
    <3>4. CASE up
      <4>1. b + a.dust = v - a.cost /\ left = worth - paid
        BY <1>8, <1>9, <3>4
      <4> HIDE DEF b
      <4>2. (b + left) + a.dust = (v + worth) - (a.cost + paid)
        BY <1>8, <1>15, <3>3, <4>1
      <4> QED BY <1>8, <3>3, <3>4, <4>2, <1>15, <2>2, <2>7, <3>1 DEF b
    <3>5. CASE ~ up
      <4>1. b + a.dust = v + a.cost /\ left = worth + paid
        BY <1>8, <1>9, <3>5
      <4> HIDE DEF b
      <4>2. (b + left) + a.dust = (v + worth) + (a.cost + paid)
        BY <1>8, <1>15, <3>3, <4>1
      <4> QED BY <1>8, <3>3, <3>5, <4>2, <1>15, <2>2, <2>7, <3>1 DEF b
    <3> QED BY <3>4, <3>5
  <2>9. Balanced(t, v + worth, up, qty)
    BY <1>11, <2>4, <2>6, <2>8 DEF Balanced
  <2>10. t \in Acc
    <3>1. [need |-> t.need, cost |-> t.cost, kept |-> t.kept, dust |-> t.dust] \in Acc
      BY <1>1, <1>11, <2>2, <2>7, AccTyped
    <3> QED BY <1>14, <3>1, Zenon
  <2> QED BY <2>9, <2>10 DEF t, worth
<1> QED BY <1>12, <1>13

LEMMA ConsumeFacts ==
  ASSUME DustThreshold \in Nat, NEW s \in Seq(Lots), NEW up \in BOOLEAN, OneWay(s, up), NEW qty \in Nat
  PROVE  Profit!Consume(s, qty) \in Acc /\ Balanced(Profit!Consume(s, qty), BookValue(s), up, qty)
<1> DEFINE n == Len(s)
           base == [need |-> qty, cost |-> 0, kept |-> << >>, dust |-> 0]
           P(h) == h = [i \in 0..n |-> IF i = 0 THEN base ELSE Profit!Taken(h[i - 1], s[i])]
           Run == CHOOSE h : P(h)
           G == [i \in 1..n |-> [a \in Acc |-> IF Profit!Taken(a, s[i]) \in Acc THEN Profit!Taken(a, s[i]) ELSE a]]
           vals == Values(s)
<1>1. n \in Nat /\ n \in 0..n /\ \A i \in 1..n : s[i] \in Lots /\ i # 0 /\ i \in 0..n /\ i - 1 \in 0..n
  <2>1. \A i \in 1..n : s[i] \in Lots
    BY LotFields
  <2> QED BY <2>1
<1>2. base \in Acc /\ base.need = qty /\ base.cost = 0 /\ base.kept = << >> /\ base.dust = 0
  <2>1. \A r : r = [need |-> qty, cost |-> 0, kept |-> << >>, dust |-> 0]
                 => r.need = qty /\ r.cost = 0 /\ r.kept = << >> /\ r.dust = 0
    OBVIOUS
  <2>2. << >> \in Seq(Lots) /\ 0 \in Int
    OBVIOUS
  <2>3. base \in Acc
    BY <2>2, AccTyped
  <2> QED BY <2>1, <2>3
<1> HIDE DEF base
<1>3. Balanced(base, 0, up, qty)
  <2>1. OneWay(<< >>, up)
    BY DEF OneWay
  <2> QED BY <1>2, <2>1, ValueOfNone DEF Balanced
<1>4. G \in [1..n -> [Acc -> Acc]]
  OBVIOUS
<1>5. \A i \in 1..n : \A a \in Acc : G[i][a] = IF Profit!Taken(a, s[i]) \in Acc THEN Profit!Taken(a, s[i]) ELSE a
  OBVIOUS
<1> HIDE DEF G, n
<1>6. PICK e \in [0..n -> Acc] : e[0] = base /\ \A i \in 1..n : e[i] = G[i][e[i - 1]]
  <2>1. \E F \in [0..n -> Acc] : Recurs(F, n, base, G)
    BY <1>1, <1>2, <1>4, RecursionExists
  <2> QED BY <2>1 DEF Recurs
<1>7. vals \in Seq(Int) /\ Len(vals) = n /\ \A i \in 1..n : vals[i] = s[i].qty * s[i].cost
  BY NumbersOfLots, LotFields DEF Values, n
<1> HIDE DEF vals
<1>8. PICK f \in [0..n -> Int] : Sums(f, vals)
  BY <1>7, SumsExist
<1>9. f[0] = 0 /\ \A i \in 1..n : f[i] = f[i - 1] + s[i].qty * s[i].cost
  BY <1>7, <1>8 DEF Sums
<1>10. ASSUME NEW i \in 1..n, Balanced(e[i - 1], f[i - 1], up, qty)
       PROVE  e[i] = Profit!Taken(e[i - 1], s[i]) /\ Balanced(e[i], f[i], up, qty)
  <2>1. e[i - 1] \in Acc /\ s[i] \in Lots /\ f[i - 1] \in Int
    BY <1>1, <1>6, <1>8
  <2>2. IF up THEN s[i].qty > 0 ELSE s[i].qty < 0
    BY <1>10 DEF OneWay, n
  <2>3. Profit!Taken(e[i - 1], s[i]) \in Acc /\ Balanced(Profit!Taken(e[i - 1], s[i]), f[i - 1] + s[i].qty * s[i].cost, up, qty)
    BY <1>10, <2>1, <2>2, TakenKeeps
  <2>4. e[i] = Profit!Taken(e[i - 1], s[i])
    BY <1>5, <1>6, <2>1, <2>3
  <2>5. f[i] = f[i - 1] + s[i].qty * s[i].cost
    BY <1>9
  <2> QED BY <2>3, <2>4, <2>5
<1>11. \A i \in 0..n : Balanced(e[i], f[i], up, qty)
  <2> DEFINE Well == {i \in 0..n : Balanced(e[i], f[i], up, qty)}
  <2>1. 0 \in Well
    BY <1>1, <1>3, <1>6, <1>9
  <2>2. \A i \in 1..n : i - 1 \in Well => i \in Well
    BY <1>1, <1>10
  <2> HIDE DEF Well
  <2>3. 0..n \subseteq Well
    BY <1>1, <2>1, <2>2, UpTo
  <2> QED BY <2>3 DEF Well
<1>12. \A i \in 1..n : e[i] = Profit!Taken(e[i - 1], s[i])
  BY <1>1, <1>10, <1>11
<1>13. P(e)
  <2> DEFINE B(i) == IF i = 0 THEN base ELSE Profit!Taken(e[i - 1], s[i])
  <2>1. e = [i \in 0..n |-> e[i]]
    BY <1>6
  <2>2. e[0] = B(0)
    BY <1>6
  <2>3. \A i \in 1..n : e[i] = B(i)
    BY <1>1, <1>12
  <2> HIDE DEF B
  <2>4. \A i \in 0..n : i = 0 \/ i \in 1..n
    BY <1>1
  <2>5. \A i \in 0..n : e[i] = B(i)
    BY <2>2, <2>3, <2>4
  <2>6. e = [i \in 0..n |-> B(i)]
    BY <2>1, <2>5
  <2> QED BY <2>6 DEF B
<1>14. P(Run)
  <2> HIDE DEF P
  <2> QED BY <1>13
<1>15. Run[0] = base /\ \A i \in 1..n : Run[i] = Profit!Taken(Run[i - 1], s[i])
  <2> HIDE DEF Run
  <2>1. \A i \in 0..n : Run[i] = IF i = 0 THEN base ELSE Profit!Taken(Run[i - 1], s[i])
    BY <1>14
  <2>2. 0 \in 0..n
    BY <1>1
  <2>3. Run[0] = base
    BY <2>1, <2>2
  <2>4. \A i \in 1..n : Run[i] = Profit!Taken(Run[i - 1], s[i])
    BY <1>1, <2>1
  <2> QED BY <2>3, <2>4
<1> HIDE DEF Run
<1>16. \A i \in 0..n : Run[i] = e[i]
  <2> DEFINE Same == {i \in 0..n : Run[i] = e[i]}
  <2>1. 0 \in Same
    BY <1>1, <1>6, <1>15
  <2>2. \A i \in 1..n : i - 1 \in Same => i \in Same
    BY <1>1, <1>12, <1>15
  <2> HIDE DEF Same
  <2>3. 0..n \subseteq Same
    BY <1>1, <2>1, <2>2, UpTo
  <2> QED BY <2>3 DEF Same
<1>17. f[n] = BookValue(s)
  BY <1>7, <1>8, TotalIs DEF BookValue, vals
<1>18. Profit!Consume(s, qty) = Run[n]
  BY DEF Profit!Consume, Run, n, base
<1>19. Profit!Consume(s, qty) = e[n]
  BY <1>1, <1>16, <1>18
<1> QED BY <1>1, <1>6, <1>11, <1>17, <1>19

-----------------------------------------------------------------------------
(* Trades. *)

\* What a trade that costs paid (or brings, if that is negative) makes of the lots: its profit is
\* what the lots are worth more, less what was paid.
Traded(s, tr, paid) ==
  /\ tr.lots \in Seq(Lots) /\ \E up \in BOOLEAN : OneWay(tr.lots, up)
  /\ tr.pnl \in Int /\ tr.dust \in Int
  /\ tr.pnl = ((BookValue(tr.lots) - BookValue(s)) + tr.dust) - paid

LEMMA FeeTyped == ASSUME FeePct \in Nat, NEW cost \in Int PROVE Profit!Fee(cost) \in Int
<1>1. cost * FeePct \in Int
  BY ProductTyped
<1>2. \A a \in Int : a \div 100 \in Int
  OBVIOUS
<1> QED BY <1>1, <1>2 DEF Profit!Fee

LEMMA NothingFacts ==
  ASSUME NEW s \in Seq(Lots), NEW up \in BOOLEAN, OneWay(s, up)
  PROVE  Traded(s, Profit!Nothing(s), 0)
<1> DEFINE tr == Profit!Nothing(s)
<1>1. tr.lots = s /\ tr.pnl = 0 /\ tr.dust = 0
  BY DEF Profit!Nothing
<1>2. BookValue(s) \in Int
  BY ValueTyped
<1> HIDE DEF tr
<1>3. Traded(s, tr, 0)
  BY <1>1, <1>2 DEF Traded
<1> QED BY <1>3 DEF tr

LEMMA OpenedFacts ==
  ASSUME NEW s \in Seq(Lots), NEW up \in BOOLEAN, OneWay(s, up), NEW q \in Int, NEW unit \in Int,
         IF up THEN q > 0 ELSE q < 0
  PROVE  Traded(s, Profit!Opened(s, q, unit), q * unit)
<1> DEFINE tr == Profit!Opened(s, q, unit)
           lot == Profit!Lot(q, unit)
           paid == q * unit
<1>1. tr.lots = Append(s, lot) /\ tr.pnl = 0 /\ tr.dust = 0
  BY DEF Profit!Opened
<1>2. lot \in Lots /\ lot.qty = q /\ lot.cost = unit
  BY LotTyped
<1> HIDE DEF tr, lot
<1>3. tr.lots \in Seq(Lots) /\ BookValue(tr.lots) = BookValue(s) + paid
  BY <1>1, <1>2, ValueAppend
<1>4. OneWay(tr.lots, up)
  BY <1>1, <1>2, OneWayAppend
<1>5. BookValue(s) \in Int /\ paid \in Int
  BY ValueTyped, ProductTyped
<1> HIDE DEF paid
<1>6. tr.pnl = ((BookValue(tr.lots) - BookValue(s)) + tr.dust) - paid
  BY <1>1, <1>3, <1>5
<1>7. Traded(s, tr, paid)
  BY <1>1, <1>3, <1>4, <1>6 DEF Traded
<1> QED BY <1>7 DEF tr, paid

\* The lots that are left when more may have been needed: for the rest a lot the other way.
Reversed(tr, c, up, qty, unit) ==
  /\ tr.lots = IF c.need = 0 THEN c.kept ELSE Append(c.kept, Profit!Lot(IF up THEN - c.need ELSE c.need, unit))
  /\ tr.pnl = IF up THEN (qty - c.need) * unit - c.cost ELSE c.cost - (qty - c.need) * unit
  /\ tr.dust = c.dust

LEMMA ReversedFacts ==
  ASSUME NEW s \in Seq(Lots), NEW up \in BOOLEAN, NEW qty \in Nat, NEW c \in Acc, Balanced(c, BookValue(s), up, qty),
         NEW unit \in Int, NEW tr, Reversed(tr, c, up, qty, unit)
  PROVE  Traded(s, tr, IF up THEN - (qty * unit) ELSE qty * unit)
<1> DEFINE b == BookValue(s)
           k == BookValue(c.kept)
           rest == c.need * unit
           all == qty * unit
           done == (qty - c.need) * unit
           paid == IF up THEN - all ELSE all
<1>1. c.need \in Nat /\ c.cost \in Int /\ c.kept \in Seq(Lots) /\ c.dust \in Int
  BY DEF Acc
<1>2. c.need <= qty /\ OneWay(c.kept, up) /\ (c.need > 0 => c.kept = << >>) /\ k + c.dust = IF up THEN b - c.cost ELSE b + c.cost
  BY DEF Balanced
<1>3. b \in Int /\ k \in Int
  BY <1>1, ValueTyped
<1>4. rest \in Int /\ all \in Int /\ done \in Int /\ done = all - rest
  <2>1. \A x, y, z \in Int : (x - y) * z = x * z - y * z
    OBVIOUS
  <2>2. qty - c.need \in Int /\ c.need \in Int /\ qty \in Int
    BY <1>1
  <2> QED BY <2>1, <2>2, ProductTyped
<1>5. tr.pnl = (IF up THEN done - c.cost ELSE c.cost - done) /\ tr.dust = c.dust
  BY DEF Reversed
<1>8. c.need # 0 => tr.lots = Append(c.kept, Profit!Lot(IF up THEN - c.need ELSE c.need, unit))
  BY DEF Reversed
<1>6. CASE c.need = 0
  <2>1. tr.lots = c.kept
    BY <1>6 DEF Reversed
  <2>2. rest = 0
    BY <1>6
  <2> DEFINE t == BookValue(tr.lots)
  <2>3. t = k
    BY <2>1
  <2> HIDE DEF b, k, rest, all, done, t
  <2>4. tr.pnl \in Int /\ tr.dust \in Int /\ tr.pnl = ((t - b) + tr.dust) - paid
    <3>1. CASE up
      <4>1. tr.pnl = done - c.cost /\ tr.dust = c.dust
        BY <1>5, <3>1
      <4>2. k + c.dust = b - c.cost
        BY <1>2, <3>1
      <4>3. t \in Int /\ t = k - rest
        BY <1>3, <2>2, <2>3
      <4>4. paid = - all
        BY <3>1
      <4> HIDE DEF paid
      <4>5. c.dust \in Int /\ c.cost \in Int
        BY <1>1
      <4> QED BY <1>3, <1>4, <4>1, <4>2, <4>3, <4>4, <4>5, SMTT(60)
    <3>2. CASE ~ up
      <4>1. tr.pnl = c.cost - done /\ tr.dust = c.dust
        BY <1>5, <3>2
      <4>2. k + c.dust = b + c.cost
        BY <1>2, <3>2
      <4>3. t \in Int /\ t = k + rest
        BY <1>3, <2>2, <2>3
      <4>4. paid = all
        BY <3>2
      <4> HIDE DEF paid
      <4>5. c.dust \in Int /\ c.cost \in Int
        BY <1>1
      <4> QED BY <1>3, <1>4, <4>1, <4>2, <4>3, <4>4, <4>5, SMTT(60)
    <3> QED BY <3>1, <3>2
  <2> QED BY <1>1, <1>2, <2>1, <2>4 DEF Traded, t, b, all
<1>7. CASE c.need > 0
  <2> DEFINE q == IF up THEN - c.need ELSE c.need
             lot == Profit!Lot(q, unit)
             t == BookValue(tr.lots)
  <2>1. q \in Int /\ (IF up THEN q < 0 ELSE q > 0) /\ q * unit = IF up THEN - rest ELSE rest
    <3>1. \A x, y \in Int : (- x) * y = - (x * y)
      OBVIOUS
    <3>2. CASE up
      <4>1. q = - c.need
        BY <3>2
      <4> HIDE DEF q
      <4>2. q \in Int /\ q < 0 /\ q * unit = - rest
        <5>1. c.need \in Int /\ c.need > 0 /\ (- c.need) * unit = - (c.need * unit)
          BY <1>1, <1>7, <3>1
        <5> QED BY <4>1, <5>1 DEF rest
      <4> QED BY <3>2, <4>2
    <3>3. CASE ~ up
      <4>1. q = c.need
        BY <3>3
      <4> HIDE DEF q
      <4>2. q \in Int /\ q > 0 /\ q * unit = rest
        BY <1>1, <1>7, <4>1
      <4> QED BY <3>3, <4>2
    <3> QED BY <3>2, <3>3
  <2> HIDE DEF q
  <2>2. lot \in Lots /\ lot.qty = q /\ lot.cost = unit
    BY <2>1, LotTyped
  <2>3. tr.lots = Append(c.kept, lot)
    <3>1. c.need # 0
      BY <1>1, <1>7
    <3> QED BY <1>8, <3>1 DEF q
  <2> HIDE DEF lot
  <2>4. k = 0 /\ OneWay(c.kept, ~ up)
    <3>1. c.kept = << >>
      BY <1>2, <1>7
    <3>2. OneWay(<< >>, ~ up)
      BY DEF OneWay
    <3> QED BY <3>1, <3>2, ValueOfNone
  <2>5. tr.lots \in Seq(Lots) /\ t = k + q * unit
    BY <1>1, <2>2, <2>3, ValueAppend
  <2>6. OneWay(tr.lots, ~ up) /\ (~ up) \in BOOLEAN
    <3>1. (~ up) \in BOOLEAN
      OBVIOUS
    <3>2. IF ~ up THEN lot.qty > 0 ELSE lot.qty < 0
      BY <2>1, <2>2
    <3>3. OneWay(Append(c.kept, lot), ~ up)
      BY <1>1, <2>2, <2>4, <3>1, <3>2, OneWayAppend
    <3> QED BY <2>3, <3>1, <3>3
  <2>7. t = IF up THEN - rest ELSE rest
    BY <1>4, <2>1, <2>4, <2>5
  <2> HIDE DEF b, k, rest, all, done, t
  <2>8. tr.pnl \in Int /\ tr.dust \in Int /\ tr.pnl = ((t - b) + tr.dust) - paid
    <3>1. CASE up
      <4>1. tr.pnl = done - c.cost /\ tr.dust = c.dust
        BY <1>5, <3>1
      <4>2. k + c.dust = b - c.cost
        BY <1>2, <3>1
      <4>3. t \in Int /\ t = k - rest
        BY <1>4, <2>4, <2>7, <3>1
      <4>4. paid = - all
        BY <3>1
      <4> HIDE DEF paid
      <4>5. c.dust \in Int /\ c.cost \in Int
        BY <1>1
      <4> QED BY <1>3, <1>4, <4>1, <4>2, <4>3, <4>4, <4>5, SMTT(60)
    <3>2. CASE ~ up
      <4>1. tr.pnl = c.cost - done /\ tr.dust = c.dust
        BY <1>5, <3>2
      <4>2. k + c.dust = b + c.cost
        BY <1>2, <3>2
      <4>3. t \in Int /\ t = k + rest
        BY <1>4, <2>4, <2>7, <3>2
      <4>4. paid = all
        BY <3>2
      <4> HIDE DEF paid
      <4>5. c.dust \in Int /\ c.cost \in Int
        BY <1>1
      <4> QED BY <1>3, <1>4, <4>1, <4>2, <4>3, <4>4, <4>5, SMTT(60)
    <3> QED BY <3>1, <3>2
  <2> QED BY <2>5, <2>6, <2>8 DEF Traded, t, b, all
<1> QED BY <1>1, <1>6, <1>7

LEMMA BuyFacts ==
  ASSUME DustThreshold \in Nat, FeePct \in Nat, NEW s \in Seq(Lots), NEW up \in BOOLEAN, OneWay(s, up),
         NEW qty \in Nat, NEW cost \in Int
  PROVE  Traded(s, Profit!Buy(s, qty, cost), qty * (cost + Profit!Fee(cost)))
<1> DEFINE unit == cost + Profit!Fee(cost)
           c == Profit!Consume(s, qty)
           tr == Profit!Buy(s, qty, cost)
<1>1. unit \in Int
  BY FeeTyped
<1>2. tr = IF qty = 0 THEN Profit!Nothing(s)
           ELSE IF Profit!Position(s) >= 0 THEN Profit!Opened(s, qty, unit)
           ELSE [lots |-> IF c.need = 0 THEN c.kept ELSE Append(c.kept, Profit!Lot(c.need, unit)),
                 pnl |-> c.cost - (qty - c.need) * unit, dust |-> c.dust]
  BY DEF Profit!Buy
<1>3. c \in Acc /\ Balanced(c, BookValue(s), up, qty)
  BY ConsumeFacts
<1> HIDE DEF unit, c, tr
<1>4. Len(s) \in Nat
  OBVIOUS
<1>5. CASE qty = 0
  <2>1. tr = Profit!Nothing(s)
    BY <1>2, <1>5
  <2>2. qty * unit = 0
    BY <1>1, <1>5
  <2> QED BY <2>1, <2>2, NothingFacts DEF tr, unit
<1>6. CASE qty # 0 /\ Profit!Position(s) >= 0
  <2>1. tr = Profit!Opened(s, qty, unit)
    BY <1>2, <1>6
  <2>2. OneWay(s, TRUE)
    <3>1. CASE Len(s) = 0
      BY <3>1 DEF OneWay
    <3>2. CASE Len(s) > 0
      <4>1. Profit!Position(s) \in Int
        BY ValueTyped
      <4>2. up
        BY <1>6, <3>2, <4>1, PositionSign
      <4> QED BY <4>2 DEF OneWay
    <3>3. Len(s) = 0 \/ Len(s) > 0
      BY <1>4
    <3> QED BY <3>1, <3>2, <3>3, Zenon
  <2>3. qty \in Int /\ qty > 0
    BY <1>6
  <2> QED BY <1>1, <2>1, <2>2, <2>3, OpenedFacts DEF tr, unit
<1>7. CASE qty # 0 /\ ~ (Profit!Position(s) >= 0)
  <2>1. tr = [lots |-> IF c.need = 0 THEN c.kept ELSE Append(c.kept, Profit!Lot(c.need, unit)),
              pnl |-> c.cost - (qty - c.need) * unit, dust |-> c.dust]
    BY <1>2, <1>7
  <2>2. ~ up
    <3>1. Profit!Position(s) \in Int
      BY ValueTyped
    <3>2. Profit!Position(s) < 0
      BY <1>7, <3>1
    <3>3. Len(s) = 0 => Profit!Position(s) = 0
      BY PositionSign
    <3>4. Len(s) > 0
      BY <1>4, <3>2, <3>3
    <3> QED BY <3>2, <3>1, <3>4, PositionSign
  <2>3. /\ tr.lots = IF c.need = 0 THEN c.kept ELSE Append(c.kept, Profit!Lot(IF up THEN - c.need ELSE c.need, unit))
        /\ tr.pnl = IF up THEN (qty - c.need) * unit - c.cost ELSE c.cost - (qty - c.need) * unit
        /\ tr.dust = c.dust
    BY <2>1, <2>2
  <2>4. Traded(s, tr, IF up THEN - (qty * unit) ELSE qty * unit)
    <3>1. Reversed(tr, c, up, qty, unit)
      BY <2>3 DEF Reversed
    <3> QED BY <1>1, <1>3, <3>1, ReversedFacts
  <2> QED BY <2>2, <2>4 DEF tr, unit
<1> QED BY <1>5, <1>6, <1>7

LEMMA SellFacts ==
  ASSUME DustThreshold \in Nat, FeePct \in Nat, NEW s \in Seq(Lots), NEW up \in BOOLEAN, OneWay(s, up),
         NEW qty \in Nat, NEW cost \in Int
  PROVE  Traded(s, Profit!Sell(s, qty, cost), - (qty * (cost - Profit!Fee(cost))))
<1> DEFINE unit == cost - Profit!Fee(cost)
           c == Profit!Consume(s, qty)
           tr == Profit!Sell(s, qty, cost)
<1>1. unit \in Int
  BY FeeTyped
<1>2. tr = IF qty = 0 THEN Profit!Nothing(s)
           ELSE IF Profit!Position(s) <= 0 THEN Profit!Opened(s, - qty, unit)
           ELSE [lots |-> IF c.need = 0 THEN c.kept ELSE Append(c.kept, Profit!Lot(- c.need, unit)),
                 pnl |-> (qty - c.need) * unit - c.cost, dust |-> c.dust]
  BY DEF Profit!Sell
<1>3. c \in Acc /\ Balanced(c, BookValue(s), up, qty)
  BY ConsumeFacts
<1> HIDE DEF unit, c, tr
<1>4. Len(s) \in Nat
  OBVIOUS
<1>5. CASE qty = 0
  <2>1. tr = Profit!Nothing(s)
    BY <1>2, <1>5
  <2>2. - (qty * unit) = 0
    BY <1>1, <1>5
  <2> QED BY <2>1, <2>2, NothingFacts DEF tr, unit
<1>6. CASE qty # 0 /\ Profit!Position(s) <= 0
  <2>1. tr = Profit!Opened(s, - qty, unit)
    BY <1>2, <1>6
  <2>2. OneWay(s, FALSE)
    <3>1. CASE Len(s) = 0
      BY <3>1 DEF OneWay
    <3>2. CASE Len(s) > 0
      <4>1. Profit!Position(s) \in Int
        BY ValueTyped
      <4>2. ~ up
        BY <1>6, <3>2, <4>1, PositionSign
      <4> QED BY <4>2 DEF OneWay
    <3>3. Len(s) = 0 \/ Len(s) > 0
      BY <1>4
    <3> QED BY <3>1, <3>2, <3>3, Zenon
  <2>3. - qty \in Int /\ - qty < 0 /\ (- qty) * unit = - (qty * unit)
    <3>1. \A x, y \in Int : (- x) * y = - (x * y)
      OBVIOUS
    <3> QED BY <1>1, <1>6, <3>1
  <2>4. Traded(s, tr, (- qty) * unit)
    BY <1>1, <2>1, <2>2, <2>3, OpenedFacts
  <2> QED BY <2>3, <2>4 DEF tr, unit
<1>7. CASE qty # 0 /\ ~ (Profit!Position(s) <= 0)
  <2>1. tr = [lots |-> IF c.need = 0 THEN c.kept ELSE Append(c.kept, Profit!Lot(- c.need, unit)),
              pnl |-> (qty - c.need) * unit - c.cost, dust |-> c.dust]
    BY <1>2, <1>7
  <2>2. up
    <3>1. Profit!Position(s) \in Int
      BY ValueTyped
    <3>2. Profit!Position(s) > 0
      BY <1>7, <3>1
    <3>3. Len(s) = 0 => Profit!Position(s) = 0
      BY PositionSign
    <3>4. Len(s) > 0
      BY <1>4, <3>2, <3>3
    <3> QED BY <3>2, <3>1, <3>4, PositionSign
  <2>3. /\ tr.lots = IF c.need = 0 THEN c.kept ELSE Append(c.kept, Profit!Lot(IF up THEN - c.need ELSE c.need, unit))
        /\ tr.pnl = IF up THEN (qty - c.need) * unit - c.cost ELSE c.cost - (qty - c.need) * unit
        /\ tr.dust = c.dust
    BY <2>1, <2>2
  <2>4. Traded(s, tr, IF up THEN - (qty * unit) ELSE qty * unit)
    <3>1. Reversed(tr, c, up, qty, unit)
      BY <2>3 DEF Reversed
    <3> QED BY <1>1, <1>3, <3>1, ReversedFacts
  <2> QED BY <2>2, <2>4 DEF tr, unit
<1> QED BY <1>5, <1>6, <1>7

-----------------------------------------------------------------------------
(* Sums over the pairs. *)

AllPairs == DOMAIN PairCandles
Size == Cardinality(AllPairs)

\* Each pair has its place in the order.
OrderInv ==
  /\ Size \in Nat /\ DOMAIN Profit!Order = 1..Size
  /\ \A k \in 1..Size : Profit!Order[k] \in AllPairs
  /\ \A p \in AllPairs : \E k \in 1..Size : Profit!Order[k] = p
  /\ \A j, k \in 1..Size : Profit!Order[j] = Profit!Order[k] => j = k

LEMMA OrderFacts == Profit!ProfitsAssumption => OrderInv
<1> SUFFICES ASSUME Profit!ProfitsAssumption PROVE OrderInv
  OBVIOUS
<1> DEFINE B == Bijection(1..Size, AllPairs)
           order == CHOOSE f \in B : TRUE
<1>1. IsFiniteSet(AllPairs)
  BY DEF Profit!ProfitsAssumption, Profit!Pairs, AllPairs, Profit!IsFiniteSet, IsFiniteSet
<1>2. Size \in Nat /\ B # {}
  BY <1>1, FS_CardinalityType DEF Size, ExistsBijection
<1>3. Profit!Order = order
  <2>1. Profit!Cardinality(AllPairs) = Size
    BY DEF Profit!Cardinality, Cardinality, Size
  <2>2. Profit!Bijection(1..Size, AllPairs) = B
    BY DEF Profit!Bijection, Profit!Injection, Profit!Surjection, Bijection, Injection, Surjection, Profit!IsInjective, IsInjective
  <2> QED BY <2>1, <2>2 DEF Profit!Order, Profit!Pairs, AllPairs
<1> HIDE DEF B
<1>4. order \in B
  BY <1>2
<1> HIDE DEF order
<1>5. order \in Bijection(1..Size, AllPairs)
  BY <1>4 DEF B
<1>6. /\ order \in [1..Size -> AllPairs]
      /\ \A p \in AllPairs : \E k \in 1..Size : order[k] = p
      /\ \A j, k \in 1..Size : order[j] = order[k] => j = k
  BY <1>5 DEF Bijection, Injection, Surjection, IsInjective
<1> QED BY <1>2, <1>3, <1>6 DEF OrderInv

Ordered(f) == [k \in 1..Size |-> f[Profit!Order[k]]]

LEMMA OrderedFacts ==
  ASSUME OrderInv, NEW f \in [AllPairs -> Int]
  PROVE  /\ Profit!OfPairs(f) = Profit!Total(Ordered(f))
         /\ Ordered(f) \in Seq(Int) /\ Len(Ordered(f)) = Size
         /\ \A k \in 1..Size : Ordered(f)[k] = f[Profit!Order[k]]
<1>1. Profit!OfPairs(f) = Profit!Total(Ordered(f))
  BY DEF OrderInv, Profit!OfPairs, Ordered
<1>2. \A k \in 1..Size : f[Profit!Order[k]] \in Int
  BY DEF OrderInv
<1>3. Ordered(f) \in Seq(Int) /\ Len(Ordered(f)) = Size
  BY <1>2 DEF Ordered, OrderInv
<1> QED BY <1>1, <1>3 DEF Ordered

LEMMA PairsTyped == ASSUME OrderInv, NEW f \in [AllPairs -> Int] PROVE Profit!OfPairs(f) \in Int
BY OrderedFacts, TotalTyped

LEMMA PairsPlus ==
  ASSUME OrderInv, NEW f \in [AllPairs -> Int], NEW g \in [AllPairs -> Int], NEW h \in [AllPairs -> Int],
         \A p \in AllPairs : h[p] = f[p] + g[p]
  PROVE  Profit!OfPairs(h) = Profit!OfPairs(f) + Profit!OfPairs(g)
<1> DEFINE s == Ordered(f)
           t == Ordered(g)
           u == Ordered(h)
<1>1. /\ s \in Seq(Int) /\ Len(s) = Size /\ Profit!OfPairs(f) = Profit!Total(s)
      /\ t \in Seq(Int) /\ Len(t) = Size /\ Profit!OfPairs(g) = Profit!Total(t)
      /\ u \in Seq(Int) /\ Len(u) = Size /\ Profit!OfPairs(h) = Profit!Total(u)
  BY OrderedFacts
<1>2. \A k \in 1..Size : s[k] = f[Profit!Order[k]] /\ t[k] = g[Profit!Order[k]] /\ u[k] = h[Profit!Order[k]]
  BY OrderedFacts
<1>3. \A k \in 1..Size : u[k] = s[k] + t[k]
  BY <1>2 DEF OrderInv
<1> HIDE DEF s, t, u
<1> QED BY <1>1, <1>3, TotalPlus

LEMMA PairsBent ==
  ASSUME OrderInv, NEW f \in [AllPairs -> Int], NEW g \in [AllPairs -> Int], NEW p \in AllPairs,
         \A q \in AllPairs : q # p => g[q] = f[q]
  PROVE  Profit!OfPairs(g) = Profit!OfPairs(f) + (g[p] - f[p])
<1> DEFINE s == Ordered(f)
           t == Ordered(g)
<1>1. /\ s \in Seq(Int) /\ Len(s) = Size /\ Profit!OfPairs(f) = Profit!Total(s)
      /\ t \in Seq(Int) /\ Len(t) = Size /\ Profit!OfPairs(g) = Profit!Total(t)
  BY OrderedFacts
<1>2. \A k \in 1..Size : s[k] = f[Profit!Order[k]] /\ t[k] = g[Profit!Order[k]]
  BY OrderedFacts
<1>3. PICK k \in 1..Size : Profit!Order[k] = p
  BY DEF OrderInv
<1>4. \A j \in 1..Size : j # k => t[j] = s[j]
  BY <1>2, <1>3 DEF OrderInv
<1>5. s[k] = f[p] /\ t[k] = g[p]
  BY <1>2, <1>3
<1> HIDE DEF s, t
<1>6. s \in Seq(Int) /\ t \in Seq(Int) /\ Len(t) = Len(s) /\ k \in 1..Len(s) /\ \A j \in 1..Len(s) : j # k => t[j] = s[j]
  BY <1>1, <1>4
<1>7. Profit!Total(t) = Profit!Total(s) + (t[k] - s[k])
  BY <1>6, TotalBent
<1> QED BY <1>1, <1>5, <1>7

-----------------------------------------------------------------------------
(* The profits agree with the wealth. *)

Worths(lots) == [p \in AllPairs |-> BookValue(lots[p])]

CalcTyped ==
  /\ calc = [lots |-> calc.lots, cash |-> calc.cash, realized |-> calc.realized, fees |-> calc.fees,
             n |-> calc.n, dust |-> calc.dust]
  /\ calc.lots \in [AllPairs -> Seq(Lots)]
  /\ calc.cash \in Int /\ calc.realized \in Int /\ calc.dust \in Int

\* Lots are all one way, and only of pairs that have candles.
LotsInv ==
  \A p \in AllPairs : /\ \E up \in BOOLEAN : OneWay(calc.lots[p], up)
                      /\ calc.lots[p] # << >> => PairCandles[p] # << >>

\* What was realized is what the cash and the lots have gained, at what the lots have cost.
GainInv == calc.realized = ((calc.cash - Profit!InitialCash) + Profit!OfPairs(Worths(calc.lots))) + calc.dust

WealthInv == CalcTyped /\ LotsInv /\ GainInv

LEMMA WorthsTyped ==
  ASSUME NEW lots \in [AllPairs -> Seq(Lots)]
  PROVE  Worths(lots) \in [AllPairs -> Int] /\ \A p \in AllPairs : Worths(lots)[p] = BookValue(lots[p])
<1>1. \A p \in AllPairs : BookValue(lots[p]) \in Int
  BY ValueTyped
<1> QED BY <1>1 DEF Worths

LEMMA PriceFacts ==
  ASSUME Profit!ProfitsAssumption, NEW p \in AllPairs, NEW ts
  PROVE  Profit!getPrice(p, ts) \in Nat /\ (Profit!getPrice(p, ts) > 0 => PairCandles[p] # << >>)
<1> DEFINE s == PairCandles[p]
           at == {k \in DOMAIN s : s[k].t >= ts}
           best == IF at # {} THEN CHOOSE k \in at : \A j \in at : k <= j ELSE Len(s)
<1>1. s \in Seq([t : Int, price : Nat])
  BY DEF Profit!ProfitsAssumption, Profit!Pairs, AllPairs
<1> HIDE DEF s
<1>2. Len(s) \in Nat /\ DOMAIN s = 1..Len(s) /\ \A k \in 1..Len(s) : s[k].price \in Nat
  <2> DEFINE R == [t : Int, price : Nat]
  <2>1. \A r \in R : r.price \in Nat
    OBVIOUS
  <2>2. s \in Seq(R)
    BY <1>1
  <2> HIDE DEF R
  <2>3. Len(s) \in Nat /\ DOMAIN s = 1..Len(s) /\ \A k \in 1..Len(s) : s[k] \in R
    BY <2>2
  <2> QED BY <2>1, <2>3
<1>3. best = 0 \/ best \in 1..Len(s)
  <2>1. CASE at # {}
    <3>1. at \subseteq 1..Len(s) /\ at \subseteq Nat
      BY <1>2
    <3> HIDE DEF at
    <3>2. \E k \in at : \A j \in at : k <= j
      BY <2>1, <3>1, LeastOf
    <3>3. best \in at
      BY <2>1, <3>2
    <3> QED BY <3>1, <3>3
  <2>2. CASE at = {}
    BY <1>2, <2>2
  <2> QED BY <2>1, <2>2
<1>4. Profit!getPrice(p, ts) = IF best = 0 \/ Profit!Units(s[best].t - ts) > 10 THEN 0 ELSE s[best].price
  BY DEF Profit!getPrice, s
<1> HIDE DEF best
<1>5. Profit!getPrice(p, ts) \in Nat
  BY <1>2, <1>3, <1>4
<1>6. ASSUME Profit!getPrice(p, ts) > 0 PROVE s # << >>
  BY <1>2, <1>3, <1>4, <1>6
<1> QED BY <1>5, <1>6 DEF s

LEMMA WealthInit == Profit!ProfitsAssumption /\ Profit!Init => WealthInv
<1> SUFFICES ASSUME Profit!ProfitsAssumption, Profit!Init PROVE WealthInv
  OBVIOUS
<1> DEFINE lots == [p \in AllPairs |-> << >>]
           w == Worths(lots)
<1>1. calc = [lots |-> lots, cash |-> Profit!InitialCash, realized |-> 0, fees |-> 0, n |-> 0, dust |-> 0]
  BY DEF Profit!Init, Profit!Pairs, AllPairs
<1>2. lots \in [AllPairs -> Seq(Lots)] /\ \A p \in AllPairs : lots[p] = << >>
  OBVIOUS
<1> HIDE DEF lots
<1>3. calc.lots = lots /\ calc.cash = Profit!InitialCash /\ calc.realized = 0 /\ calc.dust = 0 /\ calc.fees = 0 /\ calc.n = 0
  BY <1>1
<1>4. Profit!InitialCash \in Int
  BY DEF Profit!InitialCash
<1>5. CalcTyped
  BY <1>1, <1>2, <1>3, <1>4 DEF CalcTyped
<1>6. LotsInv
  <2>1. OneWay(<< >>, TRUE)
    BY DEF OneWay
  <2> QED BY <1>2, <1>3, <2>1 DEF LotsInv
<1>7. w \in [AllPairs -> Int] /\ \A p \in AllPairs : w[p] = 0
  BY <1>2, WorthsTyped, ValueOfNone
<1> HIDE DEF w
<1>8. Profit!OfPairs(w) = Profit!OfPairs(w) + Profit!OfPairs(w)
  <2>1. \A p \in AllPairs : w[p] = w[p] + w[p]
    BY <1>7
  <2> QED BY <1>7, <2>1, OrderFacts, PairsPlus
<1>9. Profit!OfPairs(w) \in Int
  BY <1>7, OrderFacts, PairsTyped
<1>10. Profit!OfPairs(w) = 0
  <2>1. \A x \in Int : x = x + x => x = 0
    OBVIOUS
  <2> DEFINE x == Profit!OfPairs(w)
  <2> HIDE DEF x
  <2>2. x \in Int /\ x = x + x
    BY <1>8, <1>9 DEF x
  <2>3. x = 0
    BY <2>1, <2>2
  <2> QED BY <2>3 DEF x
<1>11. GainInv
  <2>1. Profit!OfPairs(Worths(calc.lots)) = 0
    BY <1>3, <1>10 DEF w
  <2> QED BY <1>3, <1>4, <2>1 DEF GainInv
<1> QED BY <1>5, <1>6, <1>11 DEF WealthInv

\* After an intent that is booked: one pair's lots are traded for what was paid.
BookedTo(p, tr, paid) ==
  /\ calc'.lots = [calc.lots EXCEPT ![p] = tr.lots]
  /\ calc'.cash = calc.cash - paid /\ calc'.realized = calc.realized + tr.pnl /\ calc'.dust = calc.dust + tr.dust
  /\ calc' = [lots |-> calc'.lots, cash |-> calc'.cash, realized |-> calc'.realized, fees |-> calc'.fees,
              n |-> calc'.n, dust |-> calc'.dust]

LEMMA GainKept ==
  ASSUME NEW r \in Int, NEW c \in Int, NEW base \in Int, NEW f \in Int, NEW d \in Int, NEW a \in Int, NEW b \in Int,
         NEW gain \in Int, NEW lost \in Int, NEW paid \in Int,
         r = ((c - base) + f) + d, gain = ((b - a) + lost) - paid
  PROVE  r + gain = (((c - paid) - base) + (f + (b - a))) + (d + lost)
OBVIOUS

LEMMA BookedKeeps ==
  ASSUME OrderInv, WealthInv, NEW p \in AllPairs, PairCandles[p] # << >>, NEW tr, NEW paid \in Int,
         Traded(calc.lots[p], tr, paid), BookedTo(p, tr, paid)
  PROVE  WealthInv'
<1> DEFINE old == calc.lots
           new == calc'.lots
           v == Worths(old)
           w == Worths(new)
<1>1. old \in [AllPairs -> Seq(Lots)] /\ calc.cash \in Int /\ calc.realized \in Int /\ calc.dust \in Int
  BY DEF WealthInv, CalcTyped
<1>2. tr.lots \in Seq(Lots) /\ tr.pnl \in Int /\ tr.dust \in Int /\ \E up \in BOOLEAN : OneWay(tr.lots, up)
  BY DEF Traded
<1>3. new = [old EXCEPT ![p] = tr.lots]
  BY DEF BookedTo
<1>4. new \in [AllPairs -> Seq(Lots)] /\ new[p] = tr.lots /\ \A q \in AllPairs : q # p => new[q] = old[q]
  BY <1>1, <1>2, <1>3
<1>5. calc'.cash \in Int /\ calc'.realized \in Int /\ calc'.dust \in Int
  BY <1>1, <1>2 DEF BookedTo
<1>6. CalcTyped'
  <2>1. calc'.lots \in [AllPairs -> Seq(Lots)]
    BY <1>4
  <2> QED BY <1>5, <2>1 DEF CalcTyped, BookedTo
<1>7. LotsInv'
  <2>1. \A q \in AllPairs : (\E up \in BOOLEAN : OneWay(new[q], up)) /\ (new[q] # << >> => PairCandles[q] # << >>)
    <3> HIDE DEF new
    <3> QED BY <1>2, <1>4 DEF WealthInv, LotsInv
  <2> QED BY <2>1 DEF LotsInv
<1>8. /\ v \in [AllPairs -> Int] /\ \A q \in AllPairs : v[q] = BookValue(old[q])
      /\ w \in [AllPairs -> Int] /\ \A q \in AllPairs : w[q] = BookValue(new[q])
  <2> HIDE DEF old, new
  <2> QED BY <1>1, <1>4, WorthsTyped
<1>9. calc'.realized = ((calc'.cash - Profit!InitialCash) + Profit!OfPairs(w)) + calc'.dust
  <2> HIDE DEF v, w, new
  <2>1. Profit!OfPairs(w) = Profit!OfPairs(v) + (w[p] - v[p])
    <3>1. \A q \in AllPairs : q # p => w[q] = v[q]
      BY <1>4, <1>8
    <3> QED BY <1>8, <3>1, PairsBent
  <2>2. tr.pnl = ((w[p] - v[p]) + tr.dust) - paid
    BY <1>4, <1>8 DEF Traded
  <2>3. calc.realized = ((calc.cash - Profit!InitialCash) + Profit!OfPairs(v)) + calc.dust
    BY DEF WealthInv, GainInv, v
  <2>4. Profit!OfPairs(v) \in Int /\ v[p] \in Int /\ w[p] \in Int /\ Profit!InitialCash \in Int
    BY <1>8, PairsTyped DEF Profit!InitialCash
  <2>5. calc'.cash = calc.cash - paid /\ calc'.realized = calc.realized + tr.pnl /\ calc'.dust = calc.dust + tr.dust
    BY DEF BookedTo
  <2> DEFINE r == calc.realized
             c == calc.cash
             base == Profit!InitialCash
             d == calc.dust
             f == Profit!OfPairs(v)
             a == v[p]
             b == w[p]
             gain == tr.pnl
             lost == tr.dust
  <2>6. /\ r \in Int /\ c \in Int /\ base \in Int /\ d \in Int /\ f \in Int /\ a \in Int /\ b \in Int
        /\ gain \in Int /\ lost \in Int
    BY <1>1, <1>2, <2>4
  <2>7. r = ((c - base) + f) + d /\ gain = ((b - a) + lost) - paid
    BY <2>2, <2>3
  <2>8. Profit!OfPairs(w) = f + (b - a) /\ calc'.cash = c - paid /\ calc'.realized = r + gain /\ calc'.dust = d + lost
    BY <2>1, <2>5
  <2> HIDE DEF r, c, d, f, a, b, gain, lost, base
  <2>9. r + gain = (((c - paid) - base) + (f + (b - a))) + (d + lost)
    BY <2>6, <2>7, GainKept
  <2> QED BY <2>8, <2>9 DEF base
<1>10. GainInv'
  BY <1>9 DEF GainInv
<1> QED BY <1>6, <1>7, <1>10 DEF WealthInv

LEMMA WealthBook ==
  ASSUME Profit!ProfitsAssumption, WealthInv, NEW i \in Intents, Profit!Book(i)
  PROVE  WealthInv'
<1> DEFINE p == i.pair
           cost == Profit!getPrice(p, i.ts)
           qty == i.amount \div cost
           fee == qty * Profit!Fee(cost)
           paid == IF i.action = "BUY" THEN qty * cost + fee ELSE fee - qty * cost
           s == calc.lots[p]
           tr == IF i.action = "BUY" THEN Profit!Buy(s, qty, cost) ELSE Profit!Sell(s, qty, cost)
<1>1. p \in AllPairs /\ i.amount \in Nat /\ DustThreshold \in Nat /\ FeePct \in Nat
  BY DEF Profit!ProfitsAssumption, Profit!Pairs, AllPairs
<1>2. cost \in Nat /\ cost > 0 /\ PairCandles[p] # << >>
  <2>1. cost > 0
    BY DEF Profit!Book, Profit!Counts
  <2> QED BY <1>1, <2>1, PriceFacts
<1>3. calc' = [calc EXCEPT !.lots[p] = tr.lots, !.realized = @ + tr.pnl, !.fees = @ + fee,
                  !.cash = @ - paid, !.n = @ + 1, !.dust = @ + tr.dust]
  BY DEF Profit!Book
<1> HIDE DEF cost
<1>4. qty \in Nat
  BY <1>1, <1>2
<1>5. Profit!Fee(cost) \in Int
  BY <1>1, <1>2, FeeTyped
<1> HIDE DEF qty
<1>6. qty * cost \in Int /\ fee \in Int
  BY <1>2, <1>4, <1>5, ProductTyped
<1>7. /\ qty * (cost + Profit!Fee(cost)) = qty * cost + fee
      /\ - (qty * (cost - Profit!Fee(cost))) = fee - qty * cost
  <2>1. \A x, y, z \in Int : x * (y + z) = x * y + x * z
    OBVIOUS
  <2>2. \A x, y, z \in Int : - (x * (y - z)) = x * z - x * y
    OBVIOUS
  <2>3. qty \in Int /\ cost \in Int
    BY <1>2, <1>4
  <2> QED BY <1>5, <2>1, <2>2, <2>3
<1>8. s \in Seq(Lots) /\ \E up \in BOOLEAN : OneWay(s, up)
  BY <1>1 DEF WealthInv, CalcTyped, LotsInv
<1> HIDE DEF s, fee
<1>9. Traded(s, tr, paid)
  <2>1. PICK up \in BOOLEAN : OneWay(s, up)
    BY <1>8
  <2>2. CASE i.action = "BUY"
    <3>1. Traded(s, Profit!Buy(s, qty, cost), qty * (cost + Profit!Fee(cost)))
      BY <1>1, <1>2, <1>4, <1>8, <2>1, BuyFacts
    <3> QED BY <1>7, <2>2, <3>1
  <2>3. CASE i.action # "BUY"
    <3>1. Traded(s, Profit!Sell(s, qty, cost), - (qty * (cost - Profit!Fee(cost))))
      BY <1>1, <1>2, <1>4, <1>8, <2>1, SellFacts
    <3> QED BY <1>7, <2>3, <3>1
  <2> QED BY <2>2, <2>3
<1>10. paid \in Int
  BY <1>6
<1> HIDE DEF tr, paid
<1>11. BookedTo(p, tr, paid)
  <2>1. calc = [lots |-> calc.lots, cash |-> calc.cash, realized |-> calc.realized, fees |-> calc.fees,
                n |-> calc.n, dust |-> calc.dust]
    BY DEF WealthInv, CalcTyped
  <2>2. calc' = [lots |-> [calc.lots EXCEPT ![p] = tr.lots], cash |-> calc.cash - paid,
                 realized |-> calc.realized + tr.pnl, fees |-> calc.fees + fee, n |-> calc.n + 1,
                 dust |-> calc.dust + tr.dust]
    BY <1>3, <2>1
  <2> QED BY <2>2 DEF BookedTo
<1> QED BY <1>1, <1>2, <1>9, <1>10, <1>11, OrderFacts, BookedKeeps DEF s

LEMMA WealthStep == Profit!ProfitsAssumption /\ WealthInv /\ [Profit!Next]_calc => WealthInv'
<1> SUFFICES ASSUME Profit!ProfitsAssumption, WealthInv, [Profit!Next]_calc PROVE WealthInv'
  OBVIOUS
<1>1. ASSUME calc'.lots = calc.lots, calc'.cash = calc.cash, calc'.realized = calc.realized, calc'.dust = calc.dust,
             calc' = [lots |-> calc'.lots, cash |-> calc'.cash, realized |-> calc'.realized, fees |-> calc'.fees,
                      n |-> calc'.n, dust |-> calc'.dust]
      PROVE  WealthInv'
  BY <1>1 DEF WealthInv, CalcTyped, LotsInv, GainInv
<1>2. calc = [lots |-> calc.lots, cash |-> calc.cash, realized |-> calc.realized, fees |-> calc.fees,
              n |-> calc.n, dust |-> calc.dust]
  BY DEF WealthInv, CalcTyped
<1>3. CASE UNCHANGED calc
  BY <1>1, <1>2, <1>3
<1>4. ASSUME NEW i \in Intents, Profit!Skip(i) PROVE WealthInv'
  <2>1. calc' = [calc EXCEPT !.n = @ + 1]
    BY <1>4 DEF Profit!Skip
  <2>2. calc' = [lots |-> calc.lots, cash |-> calc.cash, realized |-> calc.realized, fees |-> calc.fees,
                 n |-> calc.n + 1, dust |-> calc.dust]
    BY <1>2, <2>1
  <2> QED BY <1>1, <2>2
<1>5. ASSUME NEW i \in Intents, Profit!Book(i) PROVE WealthInv'
  BY <1>5, WealthBook
<1> QED BY <1>3, <1>4, <1>5 DEF Profit!Next

\* A pair with candles has a last price.
LastPricesKnown == \A p \in AllPairs : PairCandles[p] # << >> => Profit!LastPrice(p) > 0

\* The profit that is not realized is what the lots are worth more at the last price than they cost.
LEMMA UnrealizedIs ==
  ASSUME Profit!ProfitsAssumption, LastPricesKnown, WealthInv, NEW p \in AllPairs
  PROVE  /\ Profit!LastPrice(p) \in Int /\ Profit!Position(calc.lots[p]) \in Int
         /\ Profit!Unrealized(p) = Profit!Position(calc.lots[p]) * Profit!LastPrice(p) - BookValue(calc.lots[p])
<1> DEFINE s == calc.lots[p]
           last == Profit!LastPrice(p)
           pos == Profit!Position(s)
           cost == Profit!TotalCost(s)
           worth == Profit!Units(pos) * last
<1>1. s \in Seq(Lots) /\ (s # << >> => PairCandles[p] # << >>)
  BY DEF WealthInv, CalcTyped, LotsInv
<1>2. PICK up \in BOOLEAN : OneWay(s, up)
  BY DEF WealthInv, LotsInv
<1>3. last \in Int /\ (s # << >> => last > 0)
  <2>1. PairCandles[p] \in Seq([t : Int, price : Nat])
    BY DEF Profit!ProfitsAssumption, Profit!Pairs, AllPairs
  <2> DEFINE x == PairCandles[p]
  <2>2. last = IF x = << >> THEN 0 ELSE x[Len(x)].price
    BY DEF Profit!LastPrice
  <2> DEFINE R == [t : Int, price : Nat]
  <2>3. \A r \in R : r.price \in Int
    OBVIOUS
  <2> HIDE DEF x, last, R
  <2>4. last \in Int
    <3>1. x \in Seq(R)
      BY <2>1 DEF x, R
    <3>2. x # << >> => Len(x) \in 1..Len(x)
      BY <3>1
    <3>3. x # << >> => x[Len(x)] \in R
      BY <3>1, <3>2
    <3> QED BY <2>2, <2>3, <3>3
  <2> QED BY <1>1, <2>4 DEF LastPricesKnown, last
<1>4. Profit!Unrealized(p) = IF pos = 0 \/ last = 0 THEN 0
                             ELSE IF pos > 0 THEN worth - cost ELSE cost - worth
  BY DEF Profit!Unrealized
<1> HIDE DEF s, last
<1>5. pos \in Int /\ BookValue(s) \in Int
  BY <1>1, ValueTyped
<1>6. cost = IF up THEN BookValue(s) ELSE - BookValue(s)
  BY <1>1, <1>2, CostIsValue
<1>7. /\ Len(s) = 0 => pos = 0
      /\ Len(s) > 0 => IF up THEN pos > 0 ELSE pos < 0
  BY <1>1, <1>2, PositionSign
<1>8. /\ pos > 0 => worth = pos * last
      /\ pos < 0 => worth = - (pos * last)
  <2>1. \A a, b \in Int : (- a) * b = - (a * b)
    OBVIOUS
  <2> HIDE DEF pos
  <2>2. (pos > 0 => Profit!Units(pos) = pos) /\ (pos < 0 => Profit!Units(pos) = - pos)
    BY <1>5, UnitsFacts
  <2> QED BY <1>3, <1>5, <2>1, <2>2
<1>9. pos * last \in Int
  BY <1>3, <1>5, ProductTyped
<1>10. CASE s = << >>
  <2>1. pos = 0 /\ BookValue(s) = 0
    BY <1>7, <1>10, ValueOfNone
  <2>2. Profit!Unrealized(p) = 0
    BY <1>4, <2>1
  <2> HIDE DEF pos
  <2>3. pos * last = 0
    BY <1>3, <2>1
  <2>4. Profit!Unrealized(p) = pos * last - BookValue(s)
    BY <2>1, <2>2, <2>3
  <2> QED BY <1>3, <1>5, <2>4 DEF s, last, pos
<1>11. CASE s # << >>
  <2>1. Len(s) > 0 /\ last > 0
    BY <1>1, <1>3, <1>11
  <2> DEFINE product == pos * last
  <2> HIDE DEF pos, worth, cost, product
  <2>2. ASSUME up PROVE Profit!Unrealized(p) = product - BookValue(s)
    <3>1. pos > 0 /\ cost = BookValue(s)
      BY <1>6, <1>7, <2>1, <2>2
    <3>2. Profit!Unrealized(p) = worth - cost /\ worth = product
      BY <1>3, <1>4, <1>5, <1>8, <2>1, <3>1 DEF product
    <3> QED BY <3>1, <3>2
  <2>3. ASSUME ~ up PROVE Profit!Unrealized(p) = product - BookValue(s)
    <3>1. pos < 0 /\ cost = - BookValue(s)
      BY <1>6, <1>7, <2>1, <2>3
    <3>2. Profit!Unrealized(p) = cost - worth /\ worth = - product
      BY <1>3, <1>4, <1>5, <1>8, <2>1, <3>1 DEF product
    <3>3. product \in Int
      BY <1>9 DEF product
    <3> QED BY <1>5, <3>1, <3>2, <3>3
  <2>4. Profit!Unrealized(p) = product - BookValue(s)
    BY <2>2, <2>3
  <2> QED BY <1>3, <1>5, <2>4 DEF s, last, pos, product
<1> QED BY <1>10, <1>11

LEMMA ProfitFollows ==
  ASSUME Profit!ProfitsAssumption, LastPricesKnown, WealthInv
  PROVE  Profit!ProfitIsChangeOfWealth
<1> DEFINE f == [p \in AllPairs |-> Profit!Unrealized(p)]
           g == Worths(calc.lots)
           h == [p \in AllPairs |-> Profit!Position(calc.lots[p]) * Profit!LastPrice(p)]
<1>1. /\ g \in [AllPairs -> Int] /\ \A p \in AllPairs : g[p] = BookValue(calc.lots[p])
      /\ calc.realized \in Int /\ calc.cash \in Int /\ calc.dust \in Int
  BY WorthsTyped DEF WealthInv, CalcTyped
<1>2. ASSUME NEW p \in AllPairs PROVE f[p] \in Int /\ h[p] \in Int /\ h[p] = f[p] + g[p]
  <2> DEFINE worth == Profit!Position(calc.lots[p]) * Profit!LastPrice(p)
  <2>1. worth \in Int
    BY UnrealizedIs, ProductTyped
  <2>2. Profit!Unrealized(p) = worth - g[p]
    BY <1>1, UnrealizedIs
  <2>3. f[p] = Profit!Unrealized(p) /\ h[p] = worth
    OBVIOUS
  <2>4. g[p] \in Int
    BY <1>1
  <2> HIDE DEF f, g, h, worth
  <2> QED BY <2>1, <2>2, <2>3, <2>4
<1>3. f \in [AllPairs -> Int] /\ h \in [AllPairs -> Int]
  <2>1. (\A p \in AllPairs : f[p] \in Int) /\ (\A p \in AllPairs : h[p] \in Int)
    BY <1>2
  <2>2. f = [p \in AllPairs |-> f[p]] /\ h = [p \in AllPairs |-> h[p]]
    OBVIOUS
  <2> HIDE DEF f, h
  <2> QED BY <2>1, <2>2
<1>4. Profit!NetPnL = calc.realized + Profit!OfPairs(f)
  BY DEF Profit!NetPnL, Profit!Pairs, AllPairs
<1>5. Profit!ProfitIsChangeOfWealth <=> Profit!NetPnL = calc.cash + Profit!OfPairs(h) - Profit!InitialCash + calc.dust
  BY DEF Profit!ProfitIsChangeOfWealth, Profit!Pairs, AllPairs
<1>6. calc.realized = ((calc.cash - Profit!InitialCash) + Profit!OfPairs(g)) + calc.dust
  BY DEF WealthInv, GainInv
<1> HIDE DEF f, g, h
<1>7. Profit!OfPairs(h) = Profit!OfPairs(f) + Profit!OfPairs(g)
  BY <1>1, <1>2, <1>3, OrderFacts, PairsPlus
<1> DEFINE x == Profit!OfPairs(f)
           y == Profit!OfPairs(g)
<1>8. x \in Int /\ y \in Int /\ Profit!InitialCash \in Int
  BY <1>1, <1>3, OrderFacts, PairsTyped DEF Profit!InitialCash
<1> HIDE DEF x, y
<1>9. calc.realized + x = calc.cash + (x + y) - Profit!InitialCash + calc.dust
  BY <1>1, <1>6, <1>8 DEF y
<1> QED BY <1>4, <1>5, <1>7, <1>9 DEF x, y

LEMMA LotsFollow == ASSUME WealthInv PROVE Profit!LotsAgree
<1>1. SUFFICES ASSUME NEW p \in AllPairs, NEW j \in DOMAIN calc.lots[p], NEW k \in DOMAIN calc.lots[p]
               PROVE  calc.lots[p][j].qty * calc.lots[p][k].qty > 0
  BY DEF Profit!LotsAgree, Profit!Pairs, AllPairs
<1> DEFINE s == calc.lots[p]
           a == s[j].qty
           b == s[k].qty
<1>2. s \in Seq(Lots)
  BY DEF WealthInv, CalcTyped
<1>3. PICK up \in BOOLEAN : OneWay(s, up)
  BY DEF WealthInv, LotsInv
<1> HIDE DEF s
<1>4. j \in 1..Len(s) /\ k \in 1..Len(s)
  BY <1>2, LotFields DEF s
<1>5. a \in Int /\ b \in Int
  BY <1>2, <1>4, LotFields
<1>6. (a > 0 /\ b > 0) \/ (a < 0 /\ b < 0)
  BY <1>3, <1>4 DEF OneWay
<1>7. \A x, y \in Int : (x > 0 /\ y > 0) \/ (x < 0 /\ y < 0) => x * y > 0
  <2>1. \A x, y \in Nat : x > 0 /\ y > 0 => x * y > 0
    OBVIOUS
  <2>2. \A x, y \in Int : x < 0 /\ y < 0 => x * y > 0
    OBVIOUS
  <2> QED BY <2>1, <2>2
<1> HIDE DEF a, b
<1>8. a * b > 0
  BY <1>5, <1>6, <1>7
<1> QED BY <1>8 DEF a, b, s

\* What calculateAgent reports as profit (agentintel/pnl.go, with the lots of fifo.go) is the change
\* of the agent's wealth up to what was dropped as dust, and the lots of a pair are all long or all
\* short, after any intents at any prices, when no pair's last price is 0; and the peak that a
\* drawdown is measured from loses no raise (NoRaiseIsLost).
THEOREM WealthMeasured ==
  ASSUME \A p \in DOMAIN PairCandles : PairCandles[p] # << >> => Profit!LastPrice(p) > 0
  PROVE  Spec => []WealthIsMeasured
<1> DEFINE Inv == (part = "profits" => WealthInv) /\ (part = "drawdown" => PeakInv)
<1>1. LastPricesKnown
  BY DEF LastPricesKnown, AllPairs
<1>2. PeakInv => Peak!HighestIsKept
  BY DEF PeakInv, PeakTyped, Remembered, Peak!HighestIsKept
<1>3. Inv => WealthIsMeasured
  BY <1>1, <1>2, ServicesAssumption, ProfitFollows, LotsFollow DEF WealthIsMeasured
<1>4. Init => Inv
  BY ServicesAssumption, WealthInit, PeakInit DEF Init
<1>5. Inv /\ [Next]_vars => Inv'
  BY ServicesAssumption, StepOfProfit, WealthStep, StepOfPeak, PeakStep
<1> QED BY <1>3, <1>4, <1>5, PTL DEF Spec
=============================================================================
