---------------------- MODULE ConditionalOrdersProofs ----------------------
(***************************************************************************)
(* An alert has one sale, a failed alert stays failed, the orders beside a *)
(* sale that fires stand down, and every firing reaches an end, for any    *)
(* numbers of servers, calls, alerts, faults and price moves.              *)
(*                                                                         *)
(* The lock of an alert is its status: a poller that finds it active makes *)
(* it exhausted in one statement, and has then claimed it, until the sale  *)
(* it starts has ended without selling.  No statement of the others turns  *)
(* an alert that is claimed back into an active one.                       *)
(*                                                                         *)
(* A group has one fate: its orders leave "active" together, before a sale *)
(* begins, and only the failure of a sale, which it records on its alert,  *)
(* brings the rest back.                                                   *)
(***************************************************************************)
EXTENDS ConditionalOrders, SequenceTheorems, TLAPS

\* A sequence, whatever its elements are.
IsSequence(s) == \E S : s \in Seq(S)

Rows == IsSequence(alerts) /\ \A a \in DOMAIN alerts : "st" \in DOMAIN alerts[a]

\* The alert has fired: it is neither active nor one that a restored group brings back.
Taken(a) == a \in DOMAIN alerts /\ alerts[a].st \in {"exhausted", "failed"}

Tick == [pc : {"idle", "price", "scan", "oco"}, todo : SUBSET Nat, alert : Nat]
SaleFields == [alert : Nat, server : Alerters, attempt : Int,
               pc : {"sell", "sweep", "ack", "void", "fail", "restore", "end", "killed"},
               late : BOOLEAN, sold : BOOLEAN, firedAt : Nat]
Sale == {r \in SaleFields : r.sold => r.pc \in {"sweep", "ack", "end", "killed"}}

\* The claims on an alert: a poller about to start its sale, and a sale that runs or has sold.
Fires(s) == tick[s].pc = "oco"
Claims(i) == Running(i) \/ sales[i].sold

\* Claimed alerts are taken, and no alert is claimed twice.
ClaimInv ==
  /\ Rows /\ tick \in [Alerters -> Tick] /\ sales \in Seq(Sale)
  /\ \A s \in Alerters : tick[s].todo \subseteq DOMAIN alerts
  /\ \A s \in Alerters : Fires(s) => Taken(tick[s].alert)
  /\ \A i \in DOMAIN sales : Claims(i) => Taken(sales[i].alert)
  /\ \A s, t \in Alerters : Fires(s) /\ Fires(t) /\ tick[s].alert = tick[t].alert => s = t
  /\ \A s \in Alerters, i \in DOMAIN sales : Fires(s) /\ Claims(i) => tick[s].alert # sales[i].alert
  /\ OneSalePerAlert

-----------------------------------------------------------------------------
(* What the statements do to the alerts table. *)

\* Rows stay, failed alerts stay failed, and those outside A stay taken.
TableStep(A) ==
  /\ Rows' /\ DOMAIN alerts \subseteq DOMAIN alerts'
  /\ \A a \in DOMAIN alerts : alerts[a].st = "failed" => alerts'[a].st = "failed"
  /\ \A a : a \notin A /\ Taken(a) => Taken(a)'

LEMMA RowsAreNumbered ==
  ASSUME Rows
  PROVE  DOMAIN alerts = 1..Len(alerts) /\ Len(alerts) \in Nat
<1>1. PICK S : alerts \in Seq(S)
  BY Zenon DEF Rows, IsSequence
<1> QED BY <1>1, LenProperties

\* A statement that updates rows in place.
LEMMA UpdateKeepsRows ==
  ASSUME Rows, alerts' = [a \in DOMAIN alerts |-> alerts'[a]],
         \A a \in DOMAIN alerts : "st" \in DOMAIN alerts'[a]
  PROVE  Rows' /\ DOMAIN alerts' = DOMAIN alerts
<1>1. DOMAIN alerts = 1..Len(alerts) /\ Len(alerts) \in Nat
  BY RowsAreNumbered
<1> DEFINE S == {alerts'[a] : a \in DOMAIN alerts}
<1>2. \A a \in 1..Len(alerts) : alerts'[a] \in S
  BY <1>1
<1>3. [a \in 1..Len(alerts) |-> alerts'[a]] \in Seq(S)
  <2> HIDE DEF S
  <2> QED BY <1>1, <1>2, SeqDef
<1>4. alerts' \in Seq(S)
  BY <1>1, <1>3
<1>5. IsSequence(alerts')
  BY <1>4, Zenon DEF IsSequence
<1>6. DOMAIN alerts' = DOMAIN alerts
  OBVIOUS
<1> QED BY <1>5, <1>6 DEF Rows

LEMMA SetStatusStep ==
  ASSUME Rows, NEW A, NEW st, SetStatus(A, st), \A a \in A \cap DOMAIN alerts : alerts[a].st # "failed"
  PROVE  TableStep(A)
<1>1. \A a \in DOMAIN alerts : "st" \in DOMAIN alerts'[a] /\ (a \notin A => alerts'[a] = alerts[a])
  BY DEF SetStatus, Rows
<1>2. alerts' = [a \in DOMAIN alerts |-> alerts'[a]]
  BY DEF SetStatus
<1>3. Rows' /\ DOMAIN alerts' = DOMAIN alerts
  BY <1>1, <1>2, UpdateKeepsRows
<1> QED BY <1>1, <1>3 DEF TableStep, Taken

LEMMA SetStatusOfActive ==
  ASSUME Rows, NEW A, NEW st, SetStatus(A, st), \A a \in A : alerts[a].st = "active"
  PROVE  TableStep({})
<1>1. TableStep(A)
  BY SetStatusStep
<1> QED BY <1>1 DEF TableStep, Taken

LEMMA MarkStep ==
  ASSUME Rows, NEW a, alerts[a].st = "active", MarkAlertTriggered(a)
  PROVE  TableStep({}) /\ (a \in DOMAIN alerts => Taken(a)')
<1>1. \A b \in DOMAIN alerts : /\ "st" \in DOMAIN alerts'[b]
                               /\ b # a => alerts'[b].st = alerts[b].st
                               /\ b = a => alerts'[b].st = "exhausted"
  BY DEF MarkAlertTriggered, Rows
<1>2. alerts' = [b \in DOMAIN alerts |-> alerts'[b]]
  BY DEF MarkAlertTriggered
<1>3. Rows' /\ DOMAIN alerts' = DOMAIN alerts
  BY <1>1, <1>2, UpdateKeepsRows
<1> QED BY <1>1, <1>3 DEF TableStep, Taken

LEMMA FailStep ==
  ASSUME Rows, NEW a, FailAlert(a)
  PROVE  TableStep({})
<1>1. \A b \in DOMAIN alerts : /\ "st" \in DOMAIN alerts'[b]
                               /\ b # a => alerts'[b].st = alerts[b].st
                               /\ b = a => alerts'[b].st = "failed"
  BY DEF FailAlert, Rows
<1>2. alerts' = [b \in DOMAIN alerts |-> alerts'[b]]
  BY DEF FailAlert
<1>3. Rows' /\ DOMAIN alerts' = DOMAIN alerts
  BY <1>1, <1>2, UpdateKeepsRows
<1> QED BY <1>1, <1>3 DEF TableStep, Taken

LEMMA RestoreStep ==
  ASSUME Rows, NEW a, RestoreCancelledSiblings(a)
  PROVE  TableStep({})
<1>1. \A b \in DOMAIN alerts : /\ "st" \in DOMAIN alerts'[b]
                               /\ alerts[b].st # "cancelled" => alerts'[b] = alerts[b]
  BY DEF RestoreCancelledSiblings, WithStatus, Rows
<1>2. alerts' = [b \in DOMAIN alerts |-> alerts'[b]]
  BY DEF RestoreCancelledSiblings
<1>3. Rows' /\ DOMAIN alerts' = DOMAIN alerts
  BY <1>1, <1>2, UpdateKeepsRows
<1> QED BY <1>1, <1>3 DEF TableStep, Taken

LEMMA AckStep ==
  ASSUME Rows, NEW A, AckTriggeredAlerts(A)
  PROVE  TableStep({})
<1>1. \A b \in DOMAIN alerts : "st" \in DOMAIN alerts'[b] /\ alerts'[b].st = alerts[b].st
  BY DEF AckTriggeredAlerts, Rows
<1>2. alerts' = [b \in DOMAIN alerts |-> alerts'[b]]
  BY DEF AckTriggeredAlerts
<1>3. Rows' /\ DOMAIN alerts' = DOMAIN alerts
  BY <1>1, <1>2, UpdateKeepsRows
<1> QED BY <1>1, <1>3 DEF TableStep, Taken

LEMMA InsertStep ==
  ASSUME Rows, NEW kind, NEW group, UpsertAlert(kind, group)
  PROVE  TableStep({})
<1> DEFINE row == [kind |-> kind, group |-> group, st |-> "active", notice |-> FALSE]
<1>1. PICK S : alerts \in Seq(S)
  BY Zenon DEF Rows, IsSequence
<1>2. alerts' = Append(alerts, row) /\ "st" \in DOMAIN row
  BY DEF UpsertAlert
<1> HIDE DEF row
<1> DEFINE T == S \cup {row}
<1>3. alerts \in Seq(T) /\ row \in T
  BY <1>1, SeqMonotonic
<1> HIDE DEF T
<1>4. /\ alerts' \in Seq(T) /\ Len(alerts') = Len(alerts) + 1
      /\ \A i \in 1..Len(alerts) : alerts'[i] = alerts[i]
      /\ alerts'[Len(alerts) + 1] = row
  BY <1>2, <1>3, AppendProperties
<1>5. /\ DOMAIN alerts = 1..Len(alerts) /\ Len(alerts) \in Nat
      /\ DOMAIN alerts' = 1..(Len(alerts) + 1)
  BY <1>1, <1>4, LenProperties
<1>6. IsSequence(alerts')
  BY <1>4, Zenon DEF IsSequence
<1>7. \A a \in DOMAIN alerts' : "st" \in DOMAIN alerts'[a]
  BY <1>2, <1>4, <1>5 DEF Rows
<1> QED BY <1>4, <1>5, <1>6, <1>7 DEF TableStep, Taken, Rows

LEMMA NoStatement ==
  ASSUME Rows, UNCHANGED alerts
  PROVE  TableStep({})
BY DEF TableStep, Taken, Rows

-----------------------------------------------------------------------------
(* What becomes of the claims. *)

TickShrinks ==
  /\ tick' \in [Alerters -> Tick]
  /\ \A s \in Alerters : /\ tick'[s].todo \subseteq DOMAIN alerts
                         /\ Fires(s)' => Fires(s) /\ tick'[s].alert = tick[s].alert

SalesShrink ==
  /\ sales' \in Seq(Sale) /\ DOMAIN sales' = DOMAIN sales
  /\ \A i \in DOMAIN sales : sales'[i].alert = sales[i].alert /\ (Claims(i)' => Claims(i))

LEMMA SalesAreNumbered ==
  ASSUME sales \in Seq(Sale)
  PROVE  /\ DOMAIN sales = 1..Len(sales) /\ Len(sales) \in Nat
         /\ \A i \in DOMAIN sales : sales[i] \in Sale
BY LenProperties, ElementOfSeq

\* Claims that are given up, or stay: enough when the table keeps what is still claimed.
LEMMA ShrinkStep ==
  ASSUME ClaimInv, TickShrinks, SalesShrink, NEW A, TableStep(A),
         \A s \in Alerters : Fires(s)' => tick[s].alert \notin A,
         \A i \in DOMAIN sales : Claims(i)' => sales[i].alert \notin A
  PROVE  ClaimInv'
<1>1. \A s \in Alerters : Fires(s)' => Taken(tick[s].alert)'
  BY DEF ClaimInv, TickShrinks, TableStep
<1>2. \A i \in DOMAIN sales' : Claims(i)' => Taken(sales[i].alert)'
  BY DEF ClaimInv, SalesShrink, TableStep
<1>3. \A s, t \in Alerters : Fires(s)' /\ Fires(t)' /\ tick'[s].alert = tick'[t].alert => s = t
  BY DEF ClaimInv, TickShrinks
<1>4. \A s \in Alerters, i \in DOMAIN sales' : Fires(s)' /\ Claims(i)' => tick'[s].alert # sales'[i].alert
  BY DEF ClaimInv, TickShrinks, SalesShrink
<1>5. OneSalePerAlert'
  BY DEF ClaimInv, SalesShrink, OneSalePerAlert, Claims
<1> QED BY <1>1, <1>2, <1>3, <1>4, <1>5 DEF ClaimInv, TickShrinks, SalesShrink, TableStep

LEMMA TicksStay == ASSUME ClaimInv, UNCHANGED tick PROVE TickShrinks
BY DEF ClaimInv, TickShrinks, Fires

LEMMA SalesStay == ASSUME ClaimInv, UNCHANGED sales PROVE SalesShrink
BY DEF ClaimInv, SalesShrink, Claims, Running

\* A poller that does not go on with an alert.
LEMMA TickMoves ==
  ASSUME ClaimInv, NEW s \in Alerters, NEW r \in Tick, r.pc # "oco",
         r.todo \subseteq DOMAIN alerts, tick' = [tick EXCEPT ![s] = r]
  PROVE  TickShrinks
BY DEF ClaimInv, TickShrinks, Fires

\* A sale that takes a step.
LEMMA SaleMoves ==
  ASSUME ClaimInv, NEW i \in DOMAIN sales, Running(i), NEW r \in Sale, r.alert = sales[i].alert,
         sales' = [sales EXCEPT ![i] = r]
  PROVE  SalesShrink /\ sales'[i] = r /\ \A j \in DOMAIN sales : j # i => sales'[j] = sales[j]
<1>1. i \in 1..Len(sales) /\ sales \in Seq(Sale)
  BY SalesAreNumbered DEF ClaimInv
<1>2. /\ sales' \in Seq(Sale) /\ DOMAIN sales' = DOMAIN sales
      /\ \A j \in DOMAIN sales : sales'[j] = IF j = i THEN r ELSE sales[j]
  BY <1>1, ExceptSeq
<1> QED BY <1>2 DEF SalesShrink, Claims, Running

-----------------------------------------------------------------------------
(* Actions and the alerts table. *)

LEMMA CreateTable ==
  ASSUME Rows, NEW todo, NEW group, NEW kind, CreateNext(todo, group, kind)
  PROVE  TableStep({})
<1>1. CASE UpsertAlert(kind, group)
  BY <1>1, InsertStep
<1>2. CASE UNCHANGED alerts
  BY <1>2, NoStatement
<1> QED BY <1>1, <1>2 DEF CreateNext

LEMMA SweepTable == ASSUME Rows, CancelActiveAlertsForPair PROVE TableStep({})
<1>1. \A a \in WithStatus("active") : alerts[a].st = "active"
  BY DEF WithStatus
<1> QED BY <1>1, SetStatusOfActive DEF CancelActiveAlertsForPair

LEMMA GroupTable == ASSUME Rows, NEW a, CancelAlertsByGroup(a) PROVE TableStep({})
<1>1. \A b \in Siblings(a) \cap WithStatus("active") : alerts[b].st = "active"
  BY DEF WithStatus
<1> QED BY <1>1, SetStatusOfActive DEF CancelAlertsByGroup

LEMMA CancelTable == ASSUME Rows, NEW a, CancelAlert(a) PROVE TableStep({a})
<1> DEFINE A == {a} \cap (WithStatus("active") \cup WithStatus("exhausted"))
<1>1. \A b \in A : alerts[b].st # "failed"
  BY DEF WithStatus
<1>2. TableStep(A)
  BY <1>1, SetStatusStep DEF CancelAlert
<1> QED BY <1>2 DEF TableStep, Taken

\* Only cancel_conditional touches alerts that are taken.
LEMMA CallTable ==
  ASSUME Rows, NEW c \in Calls, CallStep(c)
  PROVE  TableStep({}) \/ (c \in Cancels /\ \E A : TableStep(A))
<1>1. CASE Buy(c)
  BY <1>1, NoStatement DEF Buy
<1>2. CASE CreateConditionalOrder(c)
  BY <1>2, CreateTable DEF CreateConditionalOrder
<1>3. CASE Sell(c)
  BY <1>3, NoStatement DEF Sell
<1>4. CASE Sweep(c)
  BY <1>4, SweepTable, NoStatement DEF Sweep
<1>5. CASE SetConditional(c)
  BY <1>5, InsertStep, NoStatement DEF SetConditional
<1>6. CASE CancelConditional(c)
  BY <1>6, CancelTable DEF CancelConditional
<1> QED BY <1>1, <1>2, <1>3, <1>4, <1>5, <1>6 DEF CallStep

LEMMA AlerterTable ==
  ASSUME Rows, NEW s \in Alerters, CheckPositionAlerts(s)
  PROVE  TableStep({})
<1>1. CASE ReadAlerts(s)
  BY <1>1, NoStatement DEF ReadAlerts
<1>2. CASE ReadPrices(s)
  BY <1>2, NoStatement DEF ReadPrices
<1>3. ASSUME NEW a \in tick[s].todo, TriggerAlert(s, a) PROVE TableStep({})
  BY <1>3, MarkStep, NoStatement DEF TriggerAlert
<1>4. CASE CancelSiblings(s)
  BY <1>4, GroupTable, NoStatement DEF CancelSiblings
<1> QED BY <1>1, <1>2, <1>3, <1>4 DEF CheckPositionAlerts

LEMMA ProtectorTable ==
  ASSUME Rows, NEW s \in Protectors, CheckPositionProtection(s)
  PROVE  TableStep({}) /\ UNCHANGED <<tick, sales>>
<1>1. CASE CheckPosition(s)
  BY <1>1, NoStatement DEF CheckPosition
<1>2. CASE CheckActive(s)
  BY <1>2, NoStatement DEF CheckActive
<1>3. CASE CheckFailed(s)
  BY <1>3, NoStatement DEF CheckFailed
<1>4. CASE CheckParams(s)
  BY <1>4, NoStatement DEF CheckParams
<1>5. CASE Recreate(s)
  BY <1>5, CreateTable DEF Recreate
<1> QED BY <1>1, <1>2, <1>3, <1>4, <1>5 DEF CheckPositionProtection

LEMMA SaleTable ==
  ASSUME Rows, NEW i \in DOMAIN sales, SaleStep(i)
  PROVE  TableStep({}) \/ (CancelVoid(i) /\ TableStep({sales[i].alert}))
<1>1. CASE TryAutoSell(i)
  BY <1>1, NoStatement DEF TryAutoSell
<1>2. CASE SweepAfterSale(i)
  BY <1>2, SweepTable, NoStatement DEF SweepAfterSale, Statement
<1>3. CASE AckSilently(i)
  BY <1>3, AckStep, NoStatement DEF AckSilently, Statement
<1>4. CASE CancelVoid(i)
  BY <1>4, CancelTable, NoStatement DEF CancelVoid, Statement
<1>5. CASE FailSale(i)
  BY <1>5, FailStep, NoStatement DEF FailSale, Statement
<1>6. CASE RestoreSiblings(i)
  BY <1>6, RestoreStep, NoStatement DEF RestoreSiblings, Statement
<1> QED BY <1>1, <1>2, <1>3, <1>4, <1>5, <1>6 DEF SaleStep

LEMMA ReaderTable ==
  ASSUME Rows, NEW r \in Readers, ReadTriggered(r) \/ AckTriggered(r)
  PROVE  TableStep({}) /\ UNCHANGED <<tick, sales>>
<1>1. CASE ReadTriggered(r)
  BY <1>1, NoStatement DEF ReadTriggered
<1>2. CASE AckTriggered(r)
  BY <1>2, AckStep, NoStatement DEF AckTriggered
<1> QED BY <1>1, <1>2

LEMMA RowsStay == Rows /\ [Next]_vars => Rows' /\ \E A : TableStep(A)
<1> SUFFICES ASSUME Rows, [Next]_vars PROVE \E A : TableStep(A)
  BY DEF TableStep
<1>1. ASSUME NEW c \in Calls, CallStep(c) PROVE \E A : TableStep(A)
  BY <1>1, CallTable
<1>2. ASSUME NEW s \in Alerters, CheckPositionAlerts(s) PROVE \E A : TableStep(A)
  BY <1>2, AlerterTable
<1>3. ASSUME NEW s \in Protectors, CheckPositionProtection(s) PROVE \E A : TableStep(A)
  BY <1>3, ProtectorTable
<1>4. ASSUME NEW s \in Servers, Crash(s) PROVE \E A : TableStep(A)
  BY <1>4, NoStatement DEF Crash
<1>5. ASSUME NEW i \in DOMAIN sales, SaleStep(i) PROVE \E A : TableStep(A)
  BY <1>5, SaleTable
<1>6. ASSUME NEW i \in DOMAIN sales, Expire(i) PROVE \E A : TableStep(A)
  BY <1>6, NoStatement DEF Expire
<1>7. ASSUME NEW r \in Readers, ReadTriggered(r) \/ AckTriggered(r) PROVE \E A : TableStep(A)
  BY <1>7, ReaderTable
<1>8. CASE Reconcile \/ MovePrice \/ UNCHANGED vars
  BY <1>8, NoStatement DEF Reconcile, MovePrice, vars
<1> QED BY <1>1, <1>2, <1>3, <1>4, <1>5, <1>6, <1>7, <1>8 DEF Next

LEMMA RowsInit == Init => Rows
<1> SUFFICES ASSUME Init PROVE Rows
  OBVIOUS
<1>1. << >> \in Seq({})
  BY EmptySeq
<1>2. IsSequence(<< >>)
  BY <1>1, Zenon DEF IsSequence
<1> QED BY <1>1, <1>2 DEF Init, Rows

\* A failed alert stays failed: of the statements of service.go and pgx_repository.go that write
\* alerts, each looks for another status, or fails the alert itself.
THEOREM FailuresAreFinal == Spec => FailedIsFinal
<1>1. Rows /\ [Next]_vars => [\A a \in DOMAIN alerts : alerts[a].st = "failed" => alerts'[a].st = "failed"]_alerts
  BY RowsStay DEF TableStep
<1> QED BY <1>1, RowsInit, RowsStay, PTL DEF Spec, FailedIsFinal

-----------------------------------------------------------------------------
(* Actions and the claims. *)

LEMMA ScanShrinks ==
  ASSUME ClaimInv, NEW s \in Alerters, NEW todo, todo \subseteq tick[s].todo, Scan(s, todo)
  PROVE  TickShrinks
<1>1. todo \subseteq DOMAIN alerts /\ todo \in SUBSET Nat
  BY DEF ClaimInv, Tick
<1>2. CASE todo = {}
  <2>1. NewTick \in Tick /\ NewTick.pc # "oco" /\ NewTick.todo \subseteq DOMAIN alerts
    BY DEF NewTick, Tick
  <2>2. tick' = [tick EXCEPT ![s] = NewTick]
    BY <1>2 DEF Scan
  <2> QED BY <2>1, <2>2, TickMoves
<1>3. CASE todo # {}
  BY <1>1, <1>3, TickMoves DEF Scan, Tick
<1> QED BY <1>2, <1>3

\* The poller that finds the alert active claims it.
LEMMA TriggerStep ==
  ASSUME ClaimInv, NEW s \in Alerters, NEW a \in tick[s].todo, alerts[a].st = "active", MarkAlertTriggered(a),
         tick' = [tick EXCEPT ![s] = [pc |-> "oco", todo |-> @.todo \ {a}, alert |-> a]], UNCHANGED sales
  PROVE  ClaimInv'
<1>1. a \in DOMAIN alerts /\ a \in Nat
  BY DEF ClaimInv, Tick
<1>2. TableStep({}) /\ Taken(a)'
  BY <1>1, MarkStep DEF ClaimInv
<1>3. ~Taken(a)
  BY DEF Taken
<1>4. /\ tick' \in [Alerters -> Tick]
      /\ tick'[s].alert = a /\ Fires(s)' /\ tick'[s].todo \subseteq tick[s].todo
      /\ \A t \in Alerters : t # s => tick'[t] = tick[t] /\ (Fires(t)' <=> Fires(t))
  BY <1>1 DEF ClaimInv, Tick, Fires
<1>5. \A t \in Alerters : Fires(t)' => Taken(tick[t].alert)'
  BY <1>2, <1>4 DEF ClaimInv, TableStep
<1>6. \A i \in DOMAIN sales : Claims(i)' <=> Claims(i)
  BY DEF Claims, Running
<1>7. \A i \in DOMAIN sales' : Claims(i)' => Taken(sales[i].alert)'
  BY <1>2, <1>6 DEF ClaimInv, TableStep
<1>8. \A t, u \in Alerters : Fires(t)' /\ Fires(u)' /\ tick'[t].alert = tick'[u].alert => t = u
  BY <1>3, <1>4 DEF ClaimInv
<1>9. \A t \in Alerters, i \in DOMAIN sales' : Fires(t)' /\ Claims(i)' => tick'[t].alert # sales'[i].alert
  BY <1>3, <1>4, <1>6 DEF ClaimInv
<1>10. OneSalePerAlert'
  BY DEF ClaimInv, OneSalePerAlert, Running
<1>11. \A t \in Alerters : tick'[t].todo \subseteq DOMAIN alerts'
  BY <1>2, <1>4 DEF ClaimInv, TableStep
<1> QED BY <1>2, <1>4, <1>5, <1>7, <1>8, <1>9, <1>10, <1>11 DEF ClaimInv, TableStep

\* The claim passes from the poller to the sale that it starts.
LEMMA StartSale ==
  ASSUME ClaimInv, NEW s \in Alerters, CancelSiblings(s)
  PROVE  ClaimInv'
<1> DEFINE new == [alert |-> tick[s].alert, server |-> s, pc |-> "sell", attempt |-> 1,
                   late |-> FALSE, sold |-> FALSE, firedAt |-> Len(alerts)]
           n == Len(sales) + 1
<1>1. Fires(s) /\ TableStep({})
  BY AlerterTable DEF CancelSiblings, CheckPositionAlerts, Fires, ClaimInv
<1>2. TickShrinks
  BY ScanShrinks DEF CancelSiblings
<1>3. ~Fires(s)'
  BY DEF CancelSiblings, Scan, NewTick, Fires, ClaimInv
<1>4. new \in Sale
  BY RowsAreNumbered DEF ClaimInv, Tick, Sale, SaleFields
<1>5. /\ sales' \in Seq(Sale) /\ DOMAIN sales' = 1..n /\ DOMAIN sales = 1..Len(sales) /\ Len(sales) \in Nat
      /\ sales'[n].alert = tick[s].alert
      /\ \A i \in DOMAIN sales : sales'[i] = sales[i] /\ (Claims(i)' <=> Claims(i))
  <2>1. sales' = Append(sales, new) /\ sales \in Seq(Sale)
    BY DEF CancelSiblings, ClaimInv
  <2>2. new.alert = tick[s].alert
    OBVIOUS
  <2> HIDE DEF new
  <2>3. /\ sales' \in Seq(Sale) /\ Len(sales') = n /\ sales'[n] = new
        /\ \A i \in 1..Len(sales) : sales'[i] = sales[i]
    BY <1>4, <2>1, AppendProperties
  <2>4. DOMAIN sales' = 1..n /\ DOMAIN sales = 1..Len(sales) /\ Len(sales) \in Nat
    BY <2>1, <2>3, LenProperties
  <2> QED BY <2>2, <2>3, <2>4 DEF Claims, Running
<1> HIDE DEF new
<1>6. \A i \in DOMAIN sales' : i = n \/ i \in DOMAIN sales
  BY <1>5
<1> HIDE DEF n
<1>7. \A t \in Alerters : Fires(t)' => Taken(tick[t].alert)'
  BY <1>1, <1>2 DEF ClaimInv, TickShrinks, TableStep
<1>8. \A i \in DOMAIN sales' : Claims(i)' => Taken(sales[i].alert)'
  BY <1>1, <1>5, <1>6 DEF ClaimInv, TableStep
<1>9. \A t, u \in Alerters : Fires(t)' /\ Fires(u)' /\ tick'[t].alert = tick'[u].alert => t = u
  BY <1>2 DEF ClaimInv, TickShrinks
<1>10. \A t \in Alerters, i \in DOMAIN sales' : Fires(t)' /\ Claims(i)' => tick'[t].alert # sales'[i].alert
  <2>1. ASSUME NEW t \in Alerters, Fires(t)' PROVE tick'[t].alert # tick[s].alert
    BY <1>1, <1>2, <1>3, <2>1 DEF ClaimInv, TickShrinks
  <2> QED BY <1>2, <1>5, <1>6, <2>1 DEF ClaimInv, TickShrinks
<1>11. \A i \in DOMAIN sales : sales[i].alert = tick[s].alert => ~Claims(i)
  BY <1>1 DEF ClaimInv
<1>12. OneSalePerAlert'
  <2>1. ASSUME NEW i \in DOMAIN sales', NEW j \in DOMAIN sales', sales'[i].alert = sales'[j].alert, i < j
        PROVE  ~Claims(i)'
    <3>1. i \in DOMAIN sales
      BY <1>5, <1>6, <2>1 DEF n
    <3>2. CASE j = n
      BY <1>5, <1>11, <2>1, <3>1, <3>2
    <3>3. CASE j \in DOMAIN sales
      BY <1>5, <2>1, <3>1, <3>3 DEF ClaimInv, OneSalePerAlert, Claims
    <3> QED BY <1>6, <3>2, <3>3
  <2> QED BY <2>1 DEF OneSalePerAlert, Claims
<1>13. \A t \in Alerters : tick'[t].todo \subseteq DOMAIN alerts'
  BY <1>1, <1>2 DEF TickShrinks, TableStep
<1> QED BY <1>1, <1>2, <1>5, <1>7, <1>8, <1>9, <1>10, <1>12, <1>13 DEF ClaimInv, TickShrinks,
    TableStep

\* A sale that finds nothing to sell: its alert may be cancelled, as the claim ends with it.
LEMMA VoidStep ==
  ASSUME ClaimInv, NEW i \in DOMAIN sales, CancelVoid(i)
  PROVE  ClaimInv'
<1> DEFINE r == [sales[i] EXCEPT !.pc = "end"]
<1>1. /\ sales[i] \in Sale /\ sales[i].pc = "void" /\ ~sales[i].sold /\ Running(i)
      /\ UNCHANGED tick
  BY SalesAreNumbered DEF ClaimInv, CancelVoid, SaleGoes, Sale, Running
<1>2. r \in Sale /\ r.alert = sales[i].alert /\ r.pc = "end" /\ ~r.sold
  BY <1>1 DEF Sale, SaleFields
<1>3. sales' = [sales EXCEPT ![i] = r]
  BY DEF CancelVoid, SaleGoes
<1> HIDE DEF r
<1>4. SalesShrink /\ sales'[i] = r
  BY <1>1, <1>2, <1>3, SaleMoves
<1>5. TickShrinks
  BY <1>1, TicksStay
<1>6. ~Claims(i)'
  BY <1>2, <1>4 DEF Claims, Running
<1>7. \A s \in Alerters : Fires(s)' => tick[s].alert \notin {sales[i].alert}
  BY <1>1, <1>5 DEF ClaimInv, TickShrinks, Claims
<1>8. \A j \in DOMAIN sales : Claims(j)' => sales[j].alert \notin {sales[i].alert}
  <2>1. ASSUME NEW j \in DOMAIN sales, Claims(j)', sales[j].alert = sales[i].alert PROVE FALSE
    <3>1. j # i /\ Claims(j) /\ Claims(i)
      BY <1>1, <1>4, <1>6, <2>1 DEF SalesShrink, Claims
    <3>2. DOMAIN sales = 1..Len(sales) /\ Len(sales) \in Nat
      BY SalesAreNumbered DEF ClaimInv
    <3>3. i < j \/ j < i
      BY <3>1, <3>2
    <3> QED BY <2>1, <3>1, <3>3 DEF ClaimInv, OneSalePerAlert, Claims
  <2> QED BY <2>1
<1>9. TableStep({}) \/ TableStep({sales[i].alert})
  BY SaleTable DEF ClaimInv, SaleStep
<1> QED BY <1>4, <1>5, <1>7, <1>8, <1>9, ShrinkStep

\* The record of a sale after a step of it.
LEMMA SaleRecords ==
  ASSUME NEW r \in Sale
  PROVE  /\ \A pc \in {"sell", "sweep", "ack", "void", "fail", "restore", "end", "killed"} :
              ~r.sold \/ pc \in {"sweep", "ack", "end", "killed"} =>
                [r EXCEPT !.pc = pc] \in Sale /\ [r EXCEPT !.pc = pc].alert = r.alert
         /\ [r EXCEPT !.attempt = @ + 1] \in Sale /\ [r EXCEPT !.attempt = @ + 1].alert = r.alert
         /\ [r EXCEPT !.late = TRUE] \in Sale /\ [r EXCEPT !.late = TRUE].alert = r.alert
         /\ [r EXCEPT !.pc = "sweep", !.sold = TRUE] \in Sale
         /\ [r EXCEPT !.pc = "sweep", !.sold = TRUE].alert = r.alert
         /\ [r EXCEPT !.pc = "sweep", !.sold = TRUE, !.late = TRUE] \in Sale
         /\ [r EXCEPT !.pc = "sweep", !.sold = TRUE, !.late = TRUE].alert = r.alert
<1>1. r \in SaleFields /\ (r.sold => r.pc \in {"sweep", "ack", "end", "killed"})
  BY DEF Sale
<1>2. ASSUME NEW pc \in {"sell", "sweep", "ack", "void", "fail", "restore", "end", "killed"},
             ~r.sold \/ pc \in {"sweep", "ack", "end", "killed"}
      PROVE  [r EXCEPT !.pc = pc] \in Sale /\ [r EXCEPT !.pc = pc].alert = r.alert
  <2> DEFINE q == [r EXCEPT !.pc = pc]
  <2>1. q \in SaleFields /\ q.alert = r.alert /\ q.sold = r.sold /\ q.pc = pc
    BY <1>1 DEF SaleFields
  <2> QED BY <1>2, <2>1 DEF Sale
<1>3. [r EXCEPT !.attempt = @ + 1] \in Sale /\ [r EXCEPT !.attempt = @ + 1].alert = r.alert
  <2> DEFINE q == [r EXCEPT !.attempt = @ + 1]
  <2>1. q \in SaleFields /\ q.alert = r.alert /\ q.sold = r.sold /\ q.pc = r.pc
    BY <1>1 DEF SaleFields
  <2> QED BY <1>1, <2>1 DEF Sale
<1>4. [r EXCEPT !.late = TRUE] \in Sale /\ [r EXCEPT !.late = TRUE].alert = r.alert
  <2> DEFINE q == [r EXCEPT !.late = TRUE]
  <2>1. q \in SaleFields /\ q.alert = r.alert /\ q.sold = r.sold /\ q.pc = r.pc
    BY <1>1 DEF SaleFields
  <2> QED BY <1>1, <2>1 DEF Sale
<1>5. /\ [r EXCEPT !.pc = "sweep", !.sold = TRUE] \in Sale
      /\ [r EXCEPT !.pc = "sweep", !.sold = TRUE].alert = r.alert
  <2> DEFINE q == [r EXCEPT !.pc = "sweep", !.sold = TRUE]
  <2>1. q \in SaleFields /\ q.alert = r.alert /\ q.pc = "sweep"
    BY <1>1 DEF SaleFields
  <2> QED BY <2>1 DEF Sale
<1>6. /\ [r EXCEPT !.pc = "sweep", !.sold = TRUE, !.late = TRUE] \in Sale
      /\ [r EXCEPT !.pc = "sweep", !.sold = TRUE, !.late = TRUE].alert = r.alert
  <2> DEFINE q == [r EXCEPT !.pc = "sweep", !.sold = TRUE, !.late = TRUE]
  <2>1. q \in SaleFields /\ q.alert = r.alert /\ q.pc = "sweep"
    BY <1>1 DEF SaleFields
  <2> QED BY <2>1 DEF Sale
<1> QED BY <1>2, <1>3, <1>4, <1>5, <1>6

LEMMA SaleGoesShrinks ==
  ASSUME ClaimInv, NEW i \in DOMAIN sales,
         NEW from \in {"sell", "sweep", "ack", "void", "fail", "restore"},
         NEW to \in {"sell", "sweep", "ack", "void", "fail", "restore", "end"},
         from \in {"sweep", "ack"} => to \in {"sweep", "ack", "end"}, SaleGoes(i, from, to)
  PROVE  SalesShrink
<1>1. sales[i] \in Sale /\ sales[i].pc = from /\ Running(i)
  BY SalesAreNumbered DEF ClaimInv, SaleGoes, Running
<1>2. ~sales[i].sold \/ to \in {"sweep", "ack", "end", "killed"}
  BY <1>1 DEF Sale
<1> DEFINE r == [sales[i] EXCEPT !.pc = to]
<1>3. r \in Sale /\ r.alert = sales[i].alert
  BY <1>1, <1>2, SaleRecords, ZenonT(60)
<1>4. sales' = [sales EXCEPT ![i] = r]
  BY DEF SaleGoes
<1> HIDE DEF r
<1> QED BY <1>1, <1>3, <1>4, SaleMoves

LEMMA TransientShrinks ==
  ASSUME ClaimInv, NEW i \in DOMAIN sales, sales[i].pc = "sell", AfterTransient(i)
  PROVE  SalesShrink
<1>1. sales[i] \in Sale /\ Running(i) /\ ~sales[i].sold
  BY SalesAreNumbered DEF ClaimInv, Running, Sale
<1>2. CASE sales' = [sales EXCEPT ![i].attempt = @ + 1]
  <2> DEFINE r == [sales[i] EXCEPT !.attempt = @ + 1]
  <2>1. r \in Sale /\ r.alert = sales[i].alert
    BY <1>1, SaleRecords
  <2>2. sales' = [sales EXCEPT ![i] = r]
    BY <1>2
  <2> HIDE DEF r
  <2> QED BY <1>1, <2>1, <2>2, SaleMoves
<1>3. CASE sales' = [sales EXCEPT ![i].pc = "fail"]
  BY <1>3, SaleGoesShrinks DEF SaleGoes
<1> QED BY <1>2, <1>3 DEF AfterTransient

LEMMA AttemptShrinks ==
  ASSUME ClaimInv, NEW i \in DOMAIN sales, TryAutoSell(i)
  PROVE  SalesShrink
<1>1. sales[i] \in Sale /\ sales[i].pc = "sell" /\ Running(i)
  BY SalesAreNumbered DEF ClaimInv, Running, TryAutoSell
<1>2. CASE AfterTransient(i)
  BY <1>1, <1>2, TransientShrinks
<1>3. CASE SaleGoes(i, "sell", "void") \/ SaleGoes(i, "sell", "fail")
  BY <1>3, SaleGoesShrinks
<1>4. CASE sales' = [sales EXCEPT ![i].pc = "sweep", ![i].sold = TRUE]
  <2> DEFINE r == [sales[i] EXCEPT !.pc = "sweep", !.sold = TRUE]
  <2>1. r \in Sale /\ r.alert = sales[i].alert
    BY <1>1, SaleRecords
  <2>2. sales' = [sales EXCEPT ![i] = r]
    BY <1>4
  <2> HIDE DEF r
  <2> QED BY <1>1, <2>1, <2>2, SaleMoves
<1>5. CASE sales' = [sales EXCEPT ![i].pc = "sweep", ![i].sold = TRUE, ![i].late = TRUE]
  <2> DEFINE r == [sales[i] EXCEPT !.pc = "sweep", !.sold = TRUE, !.late = TRUE]
  <2>1. r \in Sale /\ r.alert = sales[i].alert
    BY <1>1, SaleRecords
  <2>2. sales' = [sales EXCEPT ![i] = r]
    BY <1>5
  <2> HIDE DEF r
  <2> QED BY <1>1, <2>1, <2>2, SaleMoves
<1> QED BY <1>2, <1>3, <1>4, <1>5 DEF TryAutoSell

-----------------------------------------------------------------------------
(* The invariant. *)

\* Steps that leave what is claimed in the table alone.
LEMMA QuietStep == ASSUME ClaimInv, TickShrinks, SalesShrink, TableStep({}) PROVE ClaimInv'
BY ShrinkStep

LEMMA SaleSteps ==
  ASSUME ClaimInv, NEW i \in DOMAIN sales, SaleStep(i)
  PROVE  ClaimInv'
<1>1. CASE TryAutoSell(i)
  <2>1. TableStep({}) /\ UNCHANGED tick
    BY <1>1, NoStatement DEF TryAutoSell, ClaimInv
  <2> QED BY <1>1, <2>1, AttemptShrinks, TicksStay, QuietStep
<1>2. CASE SweepAfterSale(i)
  <2>1. TableStep({}) /\ UNCHANGED tick
    BY <1>2, SweepTable, NoStatement DEF SweepAfterSale, Statement, ClaimInv
  <2>2. SaleGoes(i, "sweep", "end") \/ SaleGoes(i, "sweep", "ack")
    BY <1>2 DEF SweepAfterSale
  <2> QED BY <2>1, <2>2, SaleGoesShrinks, TicksStay, QuietStep
<1>3. CASE AckSilently(i)
  <2>1. TableStep({}) /\ UNCHANGED tick
    BY <1>3, AckStep, NoStatement DEF AckSilently, Statement, ClaimInv
  <2> QED BY <1>3, <2>1, SaleGoesShrinks, TicksStay, QuietStep DEF AckSilently
<1>4. CASE CancelVoid(i)
  BY <1>4, VoidStep
<1>5. CASE FailSale(i)
  <2>1. TableStep({}) /\ UNCHANGED tick
    BY <1>5, FailStep, NoStatement DEF FailSale, Statement, ClaimInv
  <2>2. SaleGoes(i, "fail", "end") \/ SaleGoes(i, "fail", "restore")
    BY <1>5 DEF FailSale
  <2> QED BY <2>1, <2>2, SaleGoesShrinks, TicksStay, QuietStep
<1>6. CASE RestoreSiblings(i)
  <2>1. TableStep({}) /\ UNCHANGED tick
    BY <1>6, RestoreStep, NoStatement DEF RestoreSiblings, Statement, ClaimInv
  <2> QED BY <1>6, <2>1, SaleGoesShrinks, TicksStay, QuietStep DEF RestoreSiblings
<1> QED BY <1>1, <1>2, <1>3, <1>4, <1>5, <1>6 DEF SaleStep

LEMMA AlerterSteps ==
  ASSUME ClaimInv, NEW s \in Alerters, CheckPositionAlerts(s)
  PROVE  ClaimInv'
<1>1. TableStep({})
  BY AlerterTable DEF ClaimInv
<1>2. CASE ReadAlerts(s)
  <2> DEFINE r == [pc |-> "price", todo |-> WithStatus("active"), alert |-> 0]
  <2>1. WithStatus("active") \subseteq DOMAIN alerts /\ WithStatus("active") \subseteq Nat
    BY RowsAreNumbered DEF WithStatus, ClaimInv
  <2>2. r \in Tick /\ r.pc # "oco" /\ r.todo \subseteq DOMAIN alerts
    BY <2>1 DEF Tick
  <2>3. tick' = [tick EXCEPT ![s] = r] /\ UNCHANGED sales
    BY <1>2 DEF ReadAlerts
  <2> HIDE DEF r
  <2> QED BY <1>1, <2>2, <2>3, TickMoves, SalesStay, QuietStep
<1>3. CASE ReadPrices(s)
  <2>1. CASE Scan(s, {a \in tick[s].todo : Met(alerts[a].kind, price)})
    BY <1>1, <1>3, <2>1, ScanShrinks, SalesStay, QuietStep DEF ReadPrices
  <2>2. CASE tick' = [tick EXCEPT ![s] = NewTick]
    <3>1. NewTick \in Tick /\ NewTick.pc # "oco" /\ NewTick.todo \subseteq DOMAIN alerts
      BY DEF NewTick, Tick
    <3> QED BY <1>1, <1>3, <2>2, <3>1, TickMoves, SalesStay, QuietStep DEF ReadPrices
  <2> QED BY <1>3, <2>1, <2>2 DEF ReadPrices
<1>4. ASSUME NEW a \in tick[s].todo, TriggerAlert(s, a) PROVE ClaimInv'
  <2>1. CASE Scan(s, tick[s].todo \ {a})
    BY <1>1, <1>4, <2>1, ScanShrinks, SalesStay, QuietStep DEF TriggerAlert
  <2>2. CASE /\ alerts[a].st = "active" /\ MarkAlertTriggered(a)
             /\ tick' = [tick EXCEPT ![s] = [pc |-> "oco", todo |-> @.todo \ {a}, alert |-> a]]
    BY <1>4, <2>2, TriggerStep DEF TriggerAlert
  <2> QED BY <1>4, <2>1, <2>2 DEF TriggerAlert
<1>5. CASE CancelSiblings(s)
  BY <1>5, StartSale
<1> QED BY <1>2, <1>3, <1>4, <1>5 DEF CheckPositionAlerts

LEMMA CrashStep ==
  ASSUME ClaimInv, NEW s \in Servers, Crash(s)
  PROVE  ClaimInv'
<1>1. TableStep({})
  BY NoStatement DEF Crash, ClaimInv
<1>2. TickShrinks
  <2>1. NewTick \in Tick /\ NewTick.pc # "oco" /\ NewTick.todo = {}
    BY DEF NewTick, Tick
  <2> QED BY <2>1 DEF Crash, ClaimInv, TickShrinks, Fires
<1>3. DOMAIN sales = 1..Len(sales) /\ Len(sales) \in Nat /\ \A i \in DOMAIN sales : sales[i] \in Sale
  BY SalesAreNumbered DEF ClaimInv
<1>4. \A i \in DOMAIN sales : /\ sales'[i] \in Sale /\ sales'[i].alert = sales[i].alert
                              /\ Claims(i)' => Claims(i)
  <2> SUFFICES ASSUME NEW i \in DOMAIN sales
               PROVE  sales'[i] \in Sale /\ sales'[i].alert = sales[i].alert /\ (Claims(i)' => Claims(i))
    OBVIOUS
  <2> DEFINE r == [sales[i] EXCEPT !.pc = "killed"]
  <2>1. sales'[i] = r \/ sales'[i] = sales[i]
    BY DEF Crash
  <2>2. r \in Sale /\ r.alert = sales[i].alert
    BY <1>3, SaleRecords
  <2>3. r.pc = "killed" /\ r.sold = sales[i].sold
    BY <1>3 DEF Sale, SaleFields
  <2> HIDE DEF r
  <2> QED BY <1>3, <2>1, <2>2, <2>3 DEF Claims, Running
<1>5. sales' \in Seq(Sale) /\ DOMAIN sales' = DOMAIN sales
  <2>1. sales' \in [1..Len(sales) -> Sale]
    BY <1>3, <1>4 DEF Crash
  <2> QED BY <1>3, <2>1, SeqDef
<1>6. SalesShrink
  BY <1>4, <1>5 DEF SalesShrink
<1> QED BY <1>1, <1>2, <1>6, QuietStep

LEMMA ExpireStep ==
  ASSUME ClaimInv, NEW i \in DOMAIN sales, Expire(i)
  PROVE  ClaimInv'
<1> DEFINE r == [sales[i] EXCEPT !.late = TRUE]
<1>1. sales[i] \in Sale /\ Running(i)
  BY SalesAreNumbered DEF ClaimInv, Expire, Running
<1>2. r \in Sale /\ r.alert = sales[i].alert
  BY <1>1, SaleRecords
<1>3. sales' = [sales EXCEPT ![i] = r] /\ UNCHANGED <<alerts, tick>>
  BY DEF Expire
<1> HIDE DEF r
<1>4. SalesShrink
  BY <1>1, <1>2, <1>3, SaleMoves
<1>5. TableStep({})
  BY <1>3, NoStatement DEF ClaimInv
<1> QED BY <1>3, <1>4, <1>5, TicksStay, QuietStep

LEMMA ClaimStep == Cancels = {} /\ ClaimInv /\ [Next]_vars => ClaimInv'
<1> SUFFICES ASSUME Cancels = {}, ClaimInv, [Next]_vars PROVE ClaimInv'
  OBVIOUS
<1>1. ASSUME NEW c \in Calls, CallStep(c) PROVE ClaimInv'
  <2>1. TableStep({})
    BY <1>1, CallTable DEF ClaimInv
  <2>2. UNCHANGED <<tick, sales>>
    BY <1>1 DEF CallStep, Buy, CreateConditionalOrder, Sell, Sweep, SetConditional,
        CancelConditional
  <2> QED BY <2>1, <2>2, TicksStay, SalesStay, QuietStep
<1>2. ASSUME NEW s \in Alerters, CheckPositionAlerts(s) PROVE ClaimInv'
  BY <1>2, AlerterSteps
<1>3. ASSUME NEW s \in Protectors, CheckPositionProtection(s) PROVE ClaimInv'
  BY <1>3, ProtectorTable, TicksStay, SalesStay, QuietStep DEF ClaimInv
<1>4. ASSUME NEW s \in Servers, Crash(s) PROVE ClaimInv'
  BY <1>4, CrashStep
<1>5. ASSUME NEW i \in DOMAIN sales, SaleStep(i) PROVE ClaimInv'
  BY <1>5, SaleSteps
<1>6. ASSUME NEW i \in DOMAIN sales, Expire(i) PROVE ClaimInv'
  BY <1>6, ExpireStep
<1>7. ASSUME NEW r \in Readers, ReadTriggered(r) \/ AckTriggered(r) PROVE ClaimInv'
  BY <1>7, ReaderTable, TicksStay, SalesStay, QuietStep DEF ClaimInv
<1>8. CASE Reconcile \/ MovePrice \/ UNCHANGED vars
  <2>1. UNCHANGED <<alerts, tick, sales>>
    BY <1>8 DEF Reconcile, MovePrice, vars
  <2>2. TableStep({})
    BY <2>1, NoStatement DEF ClaimInv
  <2> QED BY <2>1, <2>2, TicksStay, SalesStay, QuietStep
<1> QED BY <1>1, <1>2, <1>3, <1>4, <1>5, <1>6, <1>7, <1>8 DEF Next

LEMMA ClaimInit == Init => ClaimInv
<1> SUFFICES ASSUME Init PROVE ClaimInv
  OBVIOUS
<1>1. Rows
  BY RowsInit
<1>2. sales \in Seq(Sale) /\ DOMAIN sales = {}
  BY EmptySeq DEF Init
<1>3. tick \in [Alerters -> Tick] /\ \A s \in Alerters : ~Fires(s) /\ tick[s].todo = {}
  BY DEF Init, NewTick, Tick, Fires
<1> QED BY <1>1, <1>2, <1>3 DEF ClaimInv, OneSalePerAlert

\* The sales of an alert follow one another, and none follows one that has sold, whatever the
\* pollers of any number of servers, the restoration of groups, crashes and timeouts do, while the
\* agent does not cancel alerts by cancel_conditional: a fired alert that it cancels can be restored
\* with its group beside its running sale.
THEOREM AlertsSellOnce == Cancels = {} /\ Spec => []OneSalePerAlert
<1>1. ClaimInv => OneSalePerAlert
  BY DEF ClaimInv
<1> SUFFICES ASSUME Cancels = {} PROVE Spec => []OneSalePerAlert
  OBVIOUS
<1>2. Init => ClaimInv
  BY ClaimInit
<1>3. ClaimInv /\ [Next]_vars => ClaimInv'
  BY ClaimStep
<1> QED BY <1>1, <1>2, <1>3, PTL DEF Spec

-----------------------------------------------------------------------------
(* Groups: what the statements do to the orders of a group. *)

Grouped == Rows /\ \A a \in DOMAIN alerts : "group" \in DOMAIN alerts[a]

\* Groups and failures stay; an order becomes exhausted only when it is one of M, and active
\* again only when it is one of R.
Fate(M, R) ==
  /\ Grouped' /\ DOMAIN alerts \subseteq DOMAIN alerts'
  /\ \A a \in DOMAIN alerts :
       /\ alerts'[a].group = alerts[a].group
       /\ alerts'[a].st = "exhausted" => alerts[a].st = "exhausted" \/ a \in M
       /\ alerts'[a].st = "active" => alerts[a].st = "active" \/ a \in R
       /\ alerts[a].st = "failed" => alerts'[a].st = "failed"

LEMMA UpdateKeepsGroups ==
  ASSUME Grouped, alerts' = [a \in DOMAIN alerts |-> alerts'[a]],
         \A a \in DOMAIN alerts : {"st", "group"} \subseteq DOMAIN alerts'[a]
  PROVE  Grouped' /\ DOMAIN alerts' = DOMAIN alerts
<1>1. Rows' /\ DOMAIN alerts' = DOMAIN alerts
  BY UpdateKeepsRows DEF Grouped
<1> QED BY <1>1 DEF Grouped

LEMMA StatusFate ==
  ASSUME Grouped, NEW A, NEW st, st \notin {"active", "exhausted"}, SetStatus(A, st),
         \A a \in A \cap DOMAIN alerts : alerts[a].st # "failed"
  PROVE  Fate({}, {}) /\ \A a \in A \cap DOMAIN alerts : alerts'[a].st = st
<1>1. \A a \in DOMAIN alerts :
        /\ {"st", "group"} \subseteq DOMAIN alerts'[a] /\ alerts'[a].group = alerts[a].group
        /\ a \notin A => alerts'[a] = alerts[a]
        /\ a \in A => alerts'[a].st = st
  BY DEF SetStatus, Grouped, Rows
<1>2. alerts' = [a \in DOMAIN alerts |-> alerts'[a]]
  BY DEF SetStatus
<1>3. Grouped' /\ DOMAIN alerts' = DOMAIN alerts
  BY <1>1, <1>2, UpdateKeepsGroups
<1> QED BY <1>1, <1>3 DEF Fate

LEMMA MarkFate ==
  ASSUME Grouped, NEW a, alerts[a].st = "active", MarkAlertTriggered(a)
  PROVE  Fate({a}, {})
<1>1. \A b \in DOMAIN alerts :
        /\ {"st", "group"} \subseteq DOMAIN alerts'[b] /\ alerts'[b].group = alerts[b].group
        /\ b # a => alerts'[b].st = alerts[b].st
        /\ b = a => alerts'[b].st = "exhausted"
  BY DEF MarkAlertTriggered, Grouped, Rows
<1>2. alerts' = [b \in DOMAIN alerts |-> alerts'[b]]
  BY DEF MarkAlertTriggered
<1>3. Grouped' /\ DOMAIN alerts' = DOMAIN alerts
  BY <1>1, <1>2, UpdateKeepsGroups
<1> QED BY <1>1, <1>3 DEF Fate

LEMMA FailFate ==
  ASSUME Grouped, NEW a, FailAlert(a)
  PROVE  Fate({}, {}) /\ (a \in DOMAIN alerts => alerts'[a].st = "failed")
<1>1. \A b \in DOMAIN alerts :
        /\ {"st", "group"} \subseteq DOMAIN alerts'[b] /\ alerts'[b].group = alerts[b].group
        /\ b # a => alerts'[b].st = alerts[b].st
        /\ b = a => alerts'[b].st = "failed"
  BY DEF FailAlert, Grouped, Rows
<1>2. alerts' = [b \in DOMAIN alerts |-> alerts'[b]]
  BY DEF FailAlert
<1>3. Grouped' /\ DOMAIN alerts' = DOMAIN alerts
  BY <1>1, <1>2, UpdateKeepsGroups
<1> QED BY <1>1, <1>3 DEF Fate

LEMMA RestoreFate ==
  ASSUME Grouped, NEW a, RestoreCancelledSiblings(a)
  PROVE  Fate({}, Siblings(a))
<1>1. \A b \in DOMAIN alerts :
        /\ {"st", "group"} \subseteq DOMAIN alerts'[b] /\ alerts'[b].group = alerts[b].group
        /\ b \notin Siblings(a) \/ alerts[b].st # "cancelled" => alerts'[b] = alerts[b]
        /\ b \in Siblings(a) /\ alerts[b].st = "cancelled" => alerts'[b].st = "active"
  BY DEF RestoreCancelledSiblings, WithStatus, Grouped, Rows
<1>2. alerts' = [b \in DOMAIN alerts |-> alerts'[b]]
  BY DEF RestoreCancelledSiblings
<1>3. Grouped' /\ DOMAIN alerts' = DOMAIN alerts
  BY <1>1, <1>2, UpdateKeepsGroups
<1> QED BY <1>1, <1>3 DEF Fate

LEMMA AckFate ==
  ASSUME Grouped, NEW A, AckTriggeredAlerts(A)
  PROVE  Fate({}, {})
<1>1. \A b \in DOMAIN alerts :
        /\ {"st", "group"} \subseteq DOMAIN alerts'[b] /\ alerts'[b].group = alerts[b].group
        /\ alerts'[b].st = alerts[b].st
  BY DEF AckTriggeredAlerts, Grouped, Rows
<1>2. alerts' = [b \in DOMAIN alerts |-> alerts'[b]]
  BY DEF AckTriggeredAlerts
<1>3. Grouped' /\ DOMAIN alerts' = DOMAIN alerts
  BY <1>1, <1>2, UpdateKeepsGroups
<1> QED BY <1>1, <1>3 DEF Fate

LEMMA InsertFate ==
  ASSUME Grouped, NEW kind, NEW group, UpsertAlert(kind, group)
  PROVE  Fate({}, {})
<1> DEFINE row == [kind |-> kind, group |-> group, st |-> "active", notice |-> FALSE]
<1>1. PICK S : alerts \in Seq(S)
  BY Zenon DEF Grouped, Rows, IsSequence
<1>2. alerts' = Append(alerts, row) /\ {"st", "group"} \subseteq DOMAIN row
  BY DEF UpsertAlert
<1> HIDE DEF row
<1> DEFINE T == S \cup {row}
<1>3. alerts \in Seq(T) /\ row \in T
  BY <1>1, SeqMonotonic
<1> HIDE DEF T
<1>4. /\ alerts' \in Seq(T) /\ Len(alerts') = Len(alerts) + 1
      /\ \A i \in 1..Len(alerts) : alerts'[i] = alerts[i]
      /\ alerts'[Len(alerts) + 1] = row
  BY <1>2, <1>3, AppendProperties
<1>5. /\ DOMAIN alerts = 1..Len(alerts) /\ Len(alerts) \in Nat
      /\ DOMAIN alerts' = 1..(Len(alerts) + 1)
  BY <1>1, <1>4, LenProperties
<1>6. Rows'
  BY InsertStep DEF Grouped, TableStep
<1>7. \A a \in DOMAIN alerts' : "group" \in DOMAIN alerts'[a]
  BY <1>2, <1>4, <1>5 DEF Grouped
<1> QED BY <1>4, <1>5, <1>6, <1>7 DEF Fate, Grouped

LEMMA NoFate == ASSUME Grouped, UNCHANGED alerts PROVE Fate({}, {})
BY DEF Fate, Grouped, Rows

LEMMA CreateFate ==
  ASSUME Grouped, NEW todo, NEW group, NEW kind, CreateNext(todo, group, kind)
  PROVE  Fate({}, {})
<1>1. CASE UpsertAlert(kind, group)
  BY <1>1, InsertFate
<1>2. CASE UNCHANGED alerts
  BY <1>2, NoFate
<1> QED BY <1>1, <1>2 DEF CreateNext

LEMMA SweepFate == ASSUME Grouped, CancelActiveAlertsForPair PROVE Fate({}, {})
<1>1. \A a \in WithStatus("active") : alerts[a].st = "active"
  BY DEF WithStatus
<1> QED BY <1>1, StatusFate DEF CancelActiveAlertsForPair

\* No sibling is left active.
LEMMA GroupFate ==
  ASSUME Grouped, NEW a, CancelAlertsByGroup(a)
  PROVE  Fate({}, {}) /\ \A b \in Siblings(a) : alerts'[b].st # "active"
<1> DEFINE A == Siblings(a) \cap WithStatus("active")
<1>1. \A b \in A : alerts[b].st = "active"
  BY DEF WithStatus
<1>2. Fate({}, {}) /\ \A b \in A \cap DOMAIN alerts : alerts'[b].st = "cancelled"
  BY <1>1, StatusFate DEF CancelAlertsByGroup
<1> QED BY <1>2 DEF Fate, Siblings, WithStatus

LEMMA CancelFate ==
  ASSUME Grouped, NEW a, CancelAlert(a)
  PROVE  Fate({}, {}) /\ (a \in DOMAIN alerts => alerts'[a].st # "exhausted")
<1> DEFINE A == {a} \cap (WithStatus("active") \cup WithStatus("exhausted"))
<1>1. \A b \in A : alerts[b].st # "failed"
  BY DEF WithStatus
<1>2. Fate({}, {}) /\ \A b \in A \cap DOMAIN alerts : alerts'[b].st = "cancelled"
  BY <1>1, StatusFate DEF CancelAlert
<1> QED BY <1>2 DEF Fate, WithStatus

-----------------------------------------------------------------------------
(* The invariant of groups and conclusions. *)

\* A sale that restores a group belongs to one; only a sale that sold sweeps and acknowledges.
OrderInv ==
  /\ Grouped /\ tick \in [Alerters -> Tick] /\ sales \in Seq(SaleFields)
  /\ \A s \in Alerters : /\ tick[s].todo \subseteq DOMAIN alerts
                         /\ Fires(s) => tick[s].alert \in DOMAIN alerts
  /\ \A i \in DOMAIN sales : /\ sales[i].alert \in DOMAIN alerts /\ sales[i].firedAt \in 0..Len(alerts)
                             /\ sales[i].pc = "restore" => alerts[sales[i].alert].group # 0
                             /\ sales[i].pc \in {"sweep", "ack"} => sales[i].sold

\* Whoever restores a group in time has failed its alert before.
RestoresFailed ==
  \A i \in DOMAIN sales : sales[i].pc = "restore" /\ ~sales[i].late => alerts[sales[i].alert].st = "failed"
DownInv == RestoresFailed /\ SiblingsStandDown

InTime == \A i \in DOMAIN sales : ~sales[i].late
DoneInv == InTime /\ FiredAlertsConclude

\* What goes wrong, where the properties hold.
Stored == "database" \notin FaultKinds
Undisturbed == FaultKinds \cap {"database", "deadline", "crash"} = {}

FiringInv == OrderInv /\ (Stored => DownInv) /\ (Undisturbed => DoneInv)

TickMove ==
  /\ tick' \in [Alerters -> Tick]
  /\ \A s \in Alerters : /\ tick'[s].todo \subseteq DOMAIN alerts
                         /\ Fires(s)' => tick'[s].alert \in DOMAIN alerts

\* Sales go on, and none begins.
SaleMove ==
  /\ sales' \in Seq(SaleFields) /\ DOMAIN sales' = DOMAIN sales
  /\ \A i \in DOMAIN sales :
       /\ sales'[i].alert = sales[i].alert /\ sales'[i].firedAt = sales[i].firedAt
       /\ sales[i].late => sales'[i].late
       /\ sales[i].sold => sales'[i].sold
       /\ ~Running(i) => sales'[i] = sales[i]
       /\ sales'[i].pc = "restore" => alerts[sales[i].alert].group # 0
       /\ sales'[i].pc \in {"sweep", "ack"} => sales'[i].sold

LEMMA TableSize ==
  ASSUME Grouped, Grouped', DOMAIN alerts \subseteq DOMAIN alerts'
  PROVE  /\ DOMAIN alerts = 1..Len(alerts) /\ Len(alerts) \in Nat
         /\ DOMAIN alerts' = 1..Len(alerts') /\ Len(alerts') \in Nat /\ Len(alerts) <= Len(alerts')
<1>1. DOMAIN alerts = 1..Len(alerts) /\ Len(alerts) \in Nat
  BY RowsAreNumbered DEF Grouped
<1>2. \E S : alerts' \in Seq(S)
  BY Zenon DEF Grouped, Rows, IsSequence
<1>3. DOMAIN alerts' = 1..Len(alerts') /\ Len(alerts') \in Nat
  BY <1>2, LenProperties
<1>4. Len(alerts) <= Len(alerts')
  <2>1. CASE Len(alerts) = 0
    BY <1>3, <2>1
  <2>2. CASE Len(alerts) > 0
    <3>1. Len(alerts) \in 1..Len(alerts')
      BY <1>1, <1>3, <2>2
    <3> QED BY <3>1
  <2> QED BY <1>1, <2>1, <2>2
<1> QED BY <1>1, <1>3, <1>4

LEMMA OrderKept ==
  ASSUME OrderInv, NEW M, NEW R, Fate(M, R), TickMove, SaleMove
  PROVE  OrderInv'
<1>1. Len(alerts) \in Nat /\ Len(alerts') \in Nat /\ Len(alerts) <= Len(alerts')
  BY TableSize DEF OrderInv, Fate
<1>2. \A i \in DOMAIN sales' : sales'[i].alert \in DOMAIN alerts' /\ sales'[i].firedAt \in 0..Len(alerts')
  BY <1>1 DEF OrderInv, SaleMove, Fate
<1>3. \A i \in DOMAIN sales' : /\ sales'[i].pc = "restore" => alerts'[sales'[i].alert].group # 0
                               /\ sales'[i].pc \in {"sweep", "ack"} => sales'[i].sold
  BY DEF OrderInv, SaleMove, Fate
<1>4. \A s \in Alerters : tick'[s].todo \subseteq DOMAIN alerts' /\ (Fires(s)' => tick'[s].alert \in DOMAIN alerts')
  BY DEF TickMove, Fate
<1> QED BY <1>2, <1>3, <1>4 DEF OrderInv, SaleMove, TickMove, Fate

\* Orders come back only where a sale of their group has failed.
LEMMA DownKept ==
  ASSUME OrderInv, DownInv, NEW M, NEW R, Fate(M, R), SaleMove,
         \A i \in DOMAIN sales : sales'[i].pc = "restore" /\ ~sales'[i].late =>
           sales[i].pc = "restore" \/ alerts'[sales[i].alert].st = "failed",
         \A b \in R : \E a \in WithStatus("failed") : SameGroup(a, b)
  PROVE  DownInv'
<1>1. RestoresFailed'
  <2> SUFFICES ASSUME NEW i \in DOMAIN sales', sales'[i].pc = "restore", ~sales'[i].late
               PROVE  alerts'[sales'[i].alert].st = "failed"
    BY DEF RestoresFailed
  <2>1. i \in DOMAIN sales /\ sales'[i].alert = sales[i].alert /\ sales[i].alert \in DOMAIN alerts /\ ~sales[i].late
    BY DEF SaleMove, OrderInv
  <2>2. CASE sales[i].pc = "restore"
    <3>1. alerts[sales[i].alert].st = "failed"
      BY <2>1, <2>2 DEF DownInv, RestoresFailed
    <3> QED BY <2>1, <3>1 DEF Fate
  <2> QED BY <2>1, <2>2
<1>2. SiblingsStandDown'
  <2> SUFFICES ASSUME NEW i \in DOMAIN sales', NEW b \in 1..sales'[i].firedAt,
                      Running(i)', alerts'[b].st = "active",
                      b # sales'[i].alert, alerts'[b].group = alerts'[sales'[i].alert].group,
                      alerts'[b].group # 0
               PROVE  \E a \in WithStatus("failed")' : SameGroup(a, b)'
    BY DEF SiblingsStandDown, SameGroup
  <2>1. i \in DOMAIN sales /\ sales'[i].firedAt = sales[i].firedAt /\ sales'[i].alert = sales[i].alert /\ Running(i)
    <3>1. i \in DOMAIN sales /\ (~Running(i) => sales'[i] = sales[i])
      BY DEF SaleMove
    <3>2. Running(i)
      BY <3>1 DEF Running
    <3> QED BY <3>1, <3>2 DEF SaleMove
  <2>2. b \in DOMAIN alerts /\ sales[i].alert \in DOMAIN alerts
    <3>1. DOMAIN alerts = 1..Len(alerts) /\ Len(alerts) \in Nat /\ sales[i].firedAt \in 0..Len(alerts)
      BY <2>1, RowsAreNumbered DEF OrderInv, Grouped
    <3> QED BY <2>1, <3>1 DEF OrderInv
  <2>3. SameGroup(b, sales[i].alert)
    BY <2>1, <2>2 DEF SameGroup, Fate
  <2>4. PICK a \in WithStatus("failed") : SameGroup(a, b)
    <3>1. CASE alerts[b].st = "active"
      BY <2>1, <2>3, <3>1 DEF DownInv, SiblingsStandDown
    <3>2. CASE b \in R
      BY <3>2
    <3> QED BY <2>2, <3>1, <3>2 DEF Fate
  <2>5. a \in DOMAIN alerts /\ alerts[a].st = "failed"
    BY <2>4 DEF WithStatus
  <2>6. a \in WithStatus("failed")' /\ SameGroup(a, b)'
    BY <2>2, <2>4, <2>5 DEF WithStatus, SameGroup, Fate
  <2> QED BY <2>6
<1> QED BY <1>1, <1>2 DEF DownInv

\* A sale concludes as it ends, and a claim on its alert lives on.
LEMMA DoneKept ==
  ASSUME OrderInv, DoneInv, NEW M, NEW R, Fate(M, R), SaleMove,
         \A i \in DOMAIN sales : ~sales'[i].late,
         \A i \in DOMAIN sales : Running(i) => Running(i)' \/ sales'[i].pc = "end",
         \A i \in DOMAIN sales : Running(i) /\ sales'[i].pc = "end" =>
           sales'[i].sold \/ alerts'[sales[i].alert].st # "exhausted",
         \A a \in M : \E s \in Alerters : Fires(s)' /\ tick'[s].alert = a,
         \A s \in Alerters : Fires(s) => Fires(s)' /\ tick'[s].alert = tick[s].alert
  PROVE  DoneInv'
<1>1. InTime'
  BY DEF InTime, SaleMove
<1>2. FiredAlertsConclude'
  <2> SUFFICES ASSUME NEW i \in DOMAIN sales', sales'[i].pc = "end", ~sales'[i].sold,
                      alerts'[sales'[i].alert].st = "exhausted"
               PROVE  \/ \E j \in DOMAIN sales' : /\ sales'[j].alert = sales'[i].alert
                                                  /\ Running(j)' \/ sales'[j].sold
                      \/ \E s \in Alerters : tick'[s].pc = "oco" /\ tick'[s].alert = sales'[i].alert
    BY DEF FiredAlertsConclude
  <2>1. i \in DOMAIN sales /\ sales'[i].alert = sales[i].alert /\ sales[i].alert \in DOMAIN alerts /\ ~sales[i].sold
    BY DEF SaleMove, OrderInv
  <2>2. ~Running(i)
    BY <2>1
  <2>3. sales[i].pc = "end"
    BY <2>1, <2>2 DEF SaleMove
  <2>4. CASE sales[i].alert \in M
    BY <2>1, <2>4 DEF Fires
  <2>5. CASE alerts[sales[i].alert].st = "exhausted"
    <3>1. CASE \E s \in Alerters : tick[s].pc = "oco" /\ tick[s].alert = sales[i].alert
      BY <2>1, <3>1 DEF Fires
    <3>2. ASSUME NEW j \in DOMAIN sales, sales[j].alert = sales[i].alert, Running(j) \/ sales[j].sold
          PROVE  /\ j \in DOMAIN sales' /\ sales'[j].alert = sales'[i].alert
                 /\ Running(j)' \/ sales'[j].sold
      <4>1. Running(j) => Running(j)' \/ sales'[j].sold
        BY <2>1, <3>2
      <4> QED BY <2>1, <3>2, <4>1 DEF SaleMove
    <3> QED BY <2>1, <2>3, <2>5, <3>1, <3>2 DEF DoneInv, FiredAlertsConclude
  <2> QED BY <2>1, <2>4, <2>5 DEF Fate
<1> QED BY <1>1, <1>2 DEF DoneInv

-----------------------------------------------------------------------------
(* Sales that go on. *)

LEMMA OrderSales ==
  ASSUME OrderInv, NEW i \in DOMAIN sales
  PROVE  sales[i] \in SaleFields /\ sales[i].alert \in DOMAIN alerts
BY ElementOfSeq, LenProperties DEF OrderInv

LEMMA TickStays == ASSUME OrderInv, UNCHANGED tick PROVE TickMove
BY DEF OrderInv, TickMove, Fires

LEMMA SalesUnmoved == ASSUME OrderInv, UNCHANGED sales PROVE SaleMove
BY DEF OrderInv, SaleMove

LEMMA SaleUpdate ==
  ASSUME OrderInv, NEW i \in DOMAIN sales, Running(i), NEW r \in SaleFields, sales' = [sales EXCEPT ![i] = r],
         r.alert = sales[i].alert, r.firedAt = sales[i].firedAt, sales[i].late => r.late, sales[i].sold => r.sold,
         r.pc = "restore" => alerts[sales[i].alert].group # 0, r.pc \in {"sweep", "ack"} => r.sold
  PROVE  SaleMove /\ sales'[i] = r /\ \A j \in DOMAIN sales : j # i => sales'[j] = sales[j]
<1>1. i \in 1..Len(sales) /\ sales \in Seq(SaleFields)
  BY LenProperties DEF OrderInv
<1>2. /\ sales' \in Seq(SaleFields) /\ DOMAIN sales' = DOMAIN sales
      /\ \A j \in DOMAIN sales : sales'[j] = IF j = i THEN r ELSE sales[j]
  BY <1>1, ExceptSeq
<1> QED BY <1>2 DEF SaleMove, OrderInv

\* A sale changes its place, and nothing else of it.
LEMMA SaleGoesOn ==
  ASSUME OrderInv, NEW i \in DOMAIN sales,
         NEW from \in {"sell", "sweep", "ack", "void", "fail", "restore"},
         NEW to \in {"sell", "sweep", "ack", "void", "fail", "restore", "end"}, SaleGoes(i, from, to),
         to = "restore" => alerts[sales[i].alert].group # 0, to \in {"sweep", "ack"} => sales[i].sold
  PROVE  /\ SaleMove /\ Running(i) /\ \A j \in DOMAIN sales : j # i => sales'[j] = sales[j]
         /\ sales'[i].pc = to /\ sales'[i].late = sales[i].late /\ sales'[i].sold = sales[i].sold
<1> DEFINE r == [sales[i] EXCEPT !.pc = to]
<1>1. sales[i] \in SaleFields /\ Running(i)
  BY OrderSales DEF SaleGoes, Running
<1>2. /\ r \in SaleFields /\ r.pc = to /\ r.late = sales[i].late /\ r.sold = sales[i].sold
      /\ r.alert = sales[i].alert /\ r.firedAt = sales[i].firedAt
  BY <1>1 DEF SaleFields
<1>3. sales' = [sales EXCEPT ![i] = r]
  BY DEF SaleGoes
<1> HIDE DEF r
<1> QED BY <1>1, <1>2, <1>3, SaleUpdate

\* What a step of a sale has to respect.
LEMMA SaleKept ==
  ASSUME FiringInv, NEW i \in DOMAIN sales, Running(i), SaleMove, UNCHANGED tick, NEW R, Fate({}, R),
         \A j \in DOMAIN sales : j # i => sales'[j] = sales[j],
         sales'[i].late = sales[i].late \/ "deadline" \in FaultKinds, sales'[i].pc # "killed",
         Stored /\ sales'[i].pc = "restore" /\ ~sales'[i].late =>
           sales[i].pc = "restore" \/ alerts'[sales[i].alert].st = "failed",
         Stored => \A b \in R : \E a \in WithStatus("failed") : SameGroup(a, b),
         Undisturbed /\ sales'[i].pc = "end" => sales'[i].sold \/ alerts'[sales[i].alert].st # "exhausted"
  PROVE  FiringInv'
<1>1. OrderInv'
  BY TickStays, OrderKept DEF FiringInv
<1>2. ASSUME Stored PROVE DownInv'
  <2>1. \A j \in DOMAIN sales : sales'[j].pc = "restore" /\ ~sales'[j].late =>
           sales[j].pc = "restore" \/ alerts'[sales[j].alert].st = "failed"
    BY <1>2
  <2> QED BY <1>2, <2>1, DownKept DEF FiringInv
<1>3. ASSUME Undisturbed PROVE DoneInv'
  <2>1. OrderInv /\ DoneInv
    BY <1>3 DEF FiringInv
  <2>2. \A j \in DOMAIN sales : ~sales'[j].late
    BY <1>3, <2>1 DEF DoneInv, InTime, Undisturbed
  <2>3. \A j \in DOMAIN sales : Running(j) => Running(j)' \/ sales'[j].pc = "end"
    BY DEF Running
  <2>4. \A j \in DOMAIN sales : Running(j) /\ sales'[j].pc = "end" =>
           sales'[j].sold \/ alerts'[sales[j].alert].st # "exhausted"
    BY <1>3 DEF Running
  <2>5. \A s \in Alerters : Fires(s) => Fires(s)' /\ tick'[s].alert = tick[s].alert
    BY DEF Fires
  <2> QED BY <2>1, <2>2, <2>3, <2>4, <2>5, DoneKept
<1> QED BY <1>1, <1>2, <1>3 DEF FiringInv, Stored, Undisturbed

LEMMA AttemptKept ==
  ASSUME FiringInv, NEW i \in DOMAIN sales, TryAutoSell(i)
  PROVE  FiringInv'
<1>1. OrderInv /\ sales[i] \in SaleFields /\ sales[i].pc = "sell" /\ Running(i) /\ UNCHANGED tick
  BY OrderSales DEF FiringInv, TryAutoSell, Running
<1>2. Fate({}, {})
  BY <1>1, NoFate DEF TryAutoSell, OrderInv
<1>3. PICK r \in SaleFields :
        /\ sales' = [sales EXCEPT ![i] = r]
        /\ r.alert = sales[i].alert /\ r.firedAt = sales[i].firedAt
        /\ r.pc \in {"sell", "void", "fail", "sweep"} /\ (r.pc = "sweep" => r.sold)
        /\ (sales[i].late => r.late) /\ (sales[i].sold => r.sold)
        /\ r.late = sales[i].late \/ "deadline" \in FaultKinds
  <2>1. ASSUME NEW to \in {"void", "fail"}, sales' = [sales EXCEPT ![i].pc = to]
        PROVE  \E r \in SaleFields :
                 /\ sales' = [sales EXCEPT ![i] = r]
                 /\ r.alert = sales[i].alert /\ r.firedAt = sales[i].firedAt
                 /\ r.pc = to /\ r.late = sales[i].late /\ r.sold = sales[i].sold
    <3> DEFINE r == [sales[i] EXCEPT !.pc = to]
    <3>1. /\ r \in SaleFields /\ r.pc = to /\ r.late = sales[i].late /\ r.sold = sales[i].sold
          /\ r.alert = sales[i].alert /\ r.firedAt = sales[i].firedAt
      BY <1>1 DEF SaleFields
    <3>2. sales' = [sales EXCEPT ![i] = r]
      BY <2>1
    <3> HIDE DEF r
    <3> QED BY <3>1, <3>2
  <2>2. CASE sales' = [sales EXCEPT ![i].attempt = @ + 1]
    <3> DEFINE r == [sales[i] EXCEPT !.attempt = @ + 1]
    <3>1. /\ r \in SaleFields /\ r.pc = "sell" /\ r.late = sales[i].late /\ r.sold = sales[i].sold
          /\ r.alert = sales[i].alert /\ r.firedAt = sales[i].firedAt
      BY <1>1 DEF SaleFields
    <3>2. sales' = [sales EXCEPT ![i] = r]
      BY <2>2
    <3> HIDE DEF r
    <3> QED BY <3>1, <3>2
  <2>3. CASE sales' = [sales EXCEPT ![i].pc = "sweep", ![i].sold = TRUE]
    <3> DEFINE r == [sales[i] EXCEPT !.pc = "sweep", !.sold = TRUE]
    <3>1. /\ r \in SaleFields /\ r.pc = "sweep" /\ r.late = sales[i].late /\ r.sold
          /\ r.alert = sales[i].alert /\ r.firedAt = sales[i].firedAt
      BY <1>1 DEF SaleFields
    <3>2. sales' = [sales EXCEPT ![i] = r]
      BY <2>3
    <3> HIDE DEF r
    <3> QED BY <3>1, <3>2
  <2>4. CASE sales' = [sales EXCEPT ![i].pc = "sweep", ![i].sold = TRUE, ![i].late = TRUE] /\ Faulty("deadline")
    <3> DEFINE r == [sales[i] EXCEPT !.pc = "sweep", !.sold = TRUE, !.late = TRUE]
    <3>1. /\ r \in SaleFields /\ r.pc = "sweep" /\ r.late /\ r.sold
          /\ r.alert = sales[i].alert /\ r.firedAt = sales[i].firedAt
      BY <1>1 DEF SaleFields
    <3>2. sales' = [sales EXCEPT ![i] = r]
      BY <2>4
    <3>3. "deadline" \in FaultKinds
      BY <2>4 DEF Faulty
    <3> HIDE DEF r
    <3> QED BY <3>1, <3>2, <3>3
  <2>5. CASE AfterTransient(i)
    <3>1. sales' = [sales EXCEPT ![i].attempt = @ + 1] \/ sales' = [sales EXCEPT ![i].pc = "fail"]
      BY <2>5 DEF AfterTransient
    <3> QED BY <2>1, <2>2, <3>1
  <2>6. CASE SaleGoes(i, "sell", "void") \/ SaleGoes(i, "sell", "fail")
    <3>1. sales' = [sales EXCEPT ![i].pc = "void"] \/ sales' = [sales EXCEPT ![i].pc = "fail"]
      BY <2>6 DEF SaleGoes
    <3> QED BY <2>1, <3>1
  <2> QED BY <2>3, <2>4, <2>5, <2>6 DEF TryAutoSell
<1>4. SaleMove /\ sales'[i] = r /\ \A j \in DOMAIN sales : j # i => sales'[j] = sales[j]
  BY <1>1, <1>3, SaleUpdate
<1> QED BY <1>1, <1>2, <1>3, <1>4, SaleKept

\* The statements of a sale, by what happens to the table and where the sale goes.
LEMMA StatementFacts ==
  ASSUME NEW i \in DOMAIN sales, NEW effect, Statement(i, effect)
  PROVE  /\ effect \/ UNCHANGED alerts
         /\ Stored /\ ~sales[i].late => effect
BY DEF Statement, Stored, Faulty

LEMMA SweepKept ==
  ASSUME FiringInv, NEW i \in DOMAIN sales, SweepAfterSale(i) \/ AckSilently(i)
  PROVE  FiringInv'
<1>1. OrderInv /\ sales[i].pc \in {"sweep", "ack"} /\ sales[i].sold /\ UNCHANGED tick
  BY DEF FiringInv, OrderInv, SweepAfterSale, AckSilently, SaleGoes
<1>2. Fate({}, {})
  <2>1. CASE SweepAfterSale(i)
    BY <1>1, <2>1, SweepFate, NoFate DEF SweepAfterSale, Statement, OrderInv
  <2>2. CASE AckSilently(i)
    BY <1>1, <2>2, AckFate, NoFate DEF AckSilently, Statement, OrderInv
  <2> QED BY <2>1, <2>2
<1>3. PICK from \in {"sweep", "ack"}, to \in {"ack", "end"} : SaleGoes(i, from, to)
  BY DEF SweepAfterSale, AckSilently
<1>4. /\ SaleMove /\ Running(i) /\ \A j \in DOMAIN sales : j # i => sales'[j] = sales[j]
      /\ sales'[i].pc = to /\ sales'[i].late = sales[i].late /\ sales'[i].sold = sales[i].sold
  BY <1>1, <1>3, SaleGoesOn
<1> QED BY <1>1, <1>2, <1>3, <1>4, SaleKept

LEMMA VoidKept ==
  ASSUME FiringInv, NEW i \in DOMAIN sales, CancelVoid(i)
  PROVE  FiringInv'
<1>1. OrderInv /\ sales[i].alert \in DOMAIN alerts /\ UNCHANGED tick
  BY OrderSales DEF FiringInv, CancelVoid
<1>2. /\ SaleMove /\ Running(i) /\ \A j \in DOMAIN sales : j # i => sales'[j] = sales[j]
      /\ sales'[i].pc = "end" /\ sales'[i].late = sales[i].late /\ sales'[i].sold = sales[i].sold
  BY <1>1, SaleGoesOn DEF CancelVoid
<1>3. Fate({}, {})
  BY <1>1, CancelFate, NoFate DEF CancelVoid, Statement, OrderInv
<1>4. Undisturbed => alerts'[sales[i].alert].st # "exhausted"
  <2> SUFFICES ASSUME Undisturbed PROVE alerts'[sales[i].alert].st # "exhausted"
    OBVIOUS
  <2>1. Stored /\ ~sales[i].late
    BY DEF Undisturbed, Stored, FiringInv, DoneInv, InTime
  <2>2. CancelAlert(sales[i].alert)
    BY <2>1, StatementFacts DEF CancelVoid
  <2> QED BY <1>1, <2>2, CancelFate DEF OrderInv
<1> QED BY <1>1, <1>2, <1>3, <1>4, SaleKept

LEMMA FailKept ==
  ASSUME FiringInv, NEW i \in DOMAIN sales, FailSale(i)
  PROVE  FiringInv'
<1>1. OrderInv /\ sales[i].alert \in DOMAIN alerts /\ UNCHANGED tick
  BY OrderSales DEF FiringInv, FailSale
<1>2. PICK to \in {"end", "restore"} :
        SaleGoes(i, "fail", to) /\ (to = "restore" => alerts[sales[i].alert].group # 0)
  BY DEF FailSale
<1>3. /\ SaleMove /\ Running(i) /\ \A j \in DOMAIN sales : j # i => sales'[j] = sales[j]
      /\ sales'[i].pc = to /\ sales'[i].late = sales[i].late /\ sales'[i].sold = sales[i].sold
  BY <1>1, <1>2, SaleGoesOn
<1>4. Fate({}, {})
  BY <1>1, FailFate, NoFate DEF FailSale, Statement, OrderInv
<1>5. Stored /\ ~sales[i].late => alerts'[sales[i].alert].st = "failed"
  <2> SUFFICES ASSUME Stored, ~sales[i].late PROVE alerts'[sales[i].alert].st = "failed"
    OBVIOUS
  <2>1. FailAlert(sales[i].alert)
    BY StatementFacts DEF FailSale
  <2> QED BY <1>1, <2>1, FailFate DEF OrderInv
<1>6. Undisturbed => Stored /\ ~sales[i].late
  BY DEF Undisturbed, Stored, FiringInv, DoneInv, InTime
<1> QED BY <1>1, <1>2, <1>3, <1>4, <1>5, <1>6, SaleKept

LEMMA RestoreKept ==
  ASSUME FiringInv, NEW i \in DOMAIN sales, RestoreSiblings(i)
  PROVE  FiringInv'
<1> DEFINE x == sales[i].alert
<1>1. /\ OrderInv /\ x \in DOMAIN alerts /\ UNCHANGED tick /\ sales[i].pc = "restore"
      /\ alerts[x].group # 0
  BY OrderSales DEF FiringInv, OrderInv, RestoreSiblings, SaleGoes
<1>2. /\ SaleMove /\ Running(i) /\ \A j \in DOMAIN sales : j # i => sales'[j] = sales[j]
      /\ sales'[i].pc = "end" /\ sales'[i].late = sales[i].late /\ sales'[i].sold = sales[i].sold
  BY <1>1, SaleGoesOn DEF RestoreSiblings
<1>3. PICK R : /\ Fate({}, R)
               /\ R = {} \/ (R = Siblings(x) /\ ~sales[i].late)
  <2>1. CASE UNCHANGED alerts
    BY <1>1, <2>1, NoFate DEF OrderInv
  <2>2. CASE RestoreCancelledSiblings(x) /\ ~sales[i].late
    BY <1>1, <2>2, RestoreFate DEF OrderInv
  <2> QED BY <2>1, <2>2 DEF RestoreSiblings, Statement
<1>4. Stored => \A b \in R : \E a \in WithStatus("failed") : SameGroup(a, b)
  <2> SUFFICES ASSUME Stored, NEW b \in R PROVE \E a \in WithStatus("failed") : SameGroup(a, b)
    OBVIOUS
  <2>1. b \in Siblings(x) /\ alerts[x].st = "failed"
    BY <1>1, <1>3 DEF FiringInv, DownInv, RestoresFailed
  <2>2. x \in WithStatus("failed") /\ SameGroup(x, b)
    BY <1>1, <2>1 DEF WithStatus, SameGroup, Siblings
  <2> QED BY <2>2
<1>5. Undisturbed => alerts'[x].st # "exhausted"
  <2>1. Undisturbed => Stored /\ ~sales[i].late
    BY DEF Undisturbed, Stored, FiringInv, DoneInv, InTime
  <2>2. Undisturbed => alerts[x].st = "failed"
    BY <1>1, <2>1 DEF FiringInv, DownInv, RestoresFailed
  <2> QED BY <1>1, <1>3, <2>2 DEF Fate
<1> HIDE DEF x
<1> QED BY <1>1, <1>2, <1>3, <1>4, <1>5, SaleKept DEF x

LEMMA SalesKept ==
  ASSUME FiringInv, NEW i \in DOMAIN sales, SaleStep(i) \/ Expire(i)
  PROVE  FiringInv'
<1>1. CASE Expire(i)
  <2>1. OrderInv /\ sales[i] \in SaleFields /\ Running(i) /\ UNCHANGED tick /\ "deadline" \in FaultKinds
    BY <1>1, OrderSales DEF FiringInv, Expire, Faulty, Running
  <2> DEFINE r == [sales[i] EXCEPT !.late = TRUE]
  <2>2. /\ r \in SaleFields /\ r.pc = sales[i].pc /\ r.late /\ r.sold = sales[i].sold
        /\ r.alert = sales[i].alert /\ r.firedAt = sales[i].firedAt
    BY <2>1 DEF SaleFields
  <2>3. sales' = [sales EXCEPT ![i] = r]
    BY <1>1 DEF Expire
  <2> HIDE DEF r
  <2>4. SaleMove /\ sales'[i] = r /\ \A j \in DOMAIN sales : j # i => sales'[j] = sales[j]
    BY <2>1, <2>2, <2>3, SaleUpdate DEF OrderInv
  <2>5. Fate({}, {})
    BY <1>1, <2>1, NoFate DEF Expire, OrderInv
  <2> QED BY <2>1, <2>2, <2>4, <2>5, SaleKept DEF Running
<1> QED BY <1>1, AttemptKept, SweepKept, VoidKept, FailKept, RestoreKept DEF SaleStep

-----------------------------------------------------------------------------
(* Sales that begin, and steps of the others. *)

\* No sale moves; M are the alerts that a poller has just claimed.
LEMMA SalesRest ==
  ASSUME FiringInv, UNCHANGED sales, TickMove, NEW M, Fate(M, {}),
         \A a \in M : \E s \in Alerters : Fires(s)' /\ tick'[s].alert = a,
         \A s \in Alerters : Fires(s) => Fires(s)' /\ tick'[s].alert = tick[s].alert
  PROVE  FiringInv'
<1>1. SaleMove
  BY SalesUnmoved DEF FiringInv
<1>2. OrderInv'
  BY <1>1, OrderKept DEF FiringInv
<1>3. ASSUME Stored PROVE DownInv'
  BY <1>1, <1>3, DownKept DEF FiringInv
<1>4. ASSUME Undisturbed PROVE DoneInv'
  <2>1. OrderInv /\ DoneInv
    BY <1>4 DEF FiringInv
  <2>2. \A j \in DOMAIN sales : ~sales'[j].late
    BY <2>1 DEF DoneInv, InTime
  <2>3. \A j \in DOMAIN sales : Running(j) => Running(j)'
    BY DEF Running
  <2>4. \A j \in DOMAIN sales : ~(Running(j) /\ sales'[j].pc = "end")
    BY DEF Running
  <2> QED BY <1>1, <2>1, <2>2, <2>3, <2>4, DoneKept
<1> QED BY <1>2, <1>3, <1>4 DEF FiringInv, Stored, Undisturbed

LEMMA OthersKept ==
  ASSUME FiringInv, UNCHANGED <<sales, tick>>, Fate({}, {}) PROVE FiringInv'
<1>1. TickMove
  BY TickStays DEF FiringInv
<1>2. \A s \in Alerters : Fires(s) => Fires(s)' /\ tick'[s].alert = tick[s].alert
  BY DEF Fires
<1> QED BY <1>1, <1>2, SalesRest

LEMMA CallKept ==
  ASSUME FiringInv, NEW c \in Calls, CallStep(c)
  PROVE  FiringInv'
<1>0. Grouped
  BY DEF FiringInv, OrderInv
<1>1. CASE Buy(c)
  BY <1>0, <1>1, NoFate, OthersKept DEF Buy
<1>2. CASE CreateConditionalOrder(c)
  BY <1>0, <1>2, CreateFate, OthersKept DEF CreateConditionalOrder
<1>3. CASE Sell(c)
  BY <1>0, <1>3, NoFate, OthersKept DEF Sell
<1>4. CASE Sweep(c)
  BY <1>0, <1>4, SweepFate, NoFate, OthersKept DEF Sweep
<1>5. CASE SetConditional(c)
  BY <1>0, <1>5, InsertFate, NoFate, OthersKept DEF SetConditional
<1>6. CASE CancelConditional(c)
  BY <1>0, <1>6, CancelFate, OthersKept DEF CancelConditional
<1> QED BY <1>1, <1>2, <1>3, <1>4, <1>5, <1>6 DEF CallStep

LEMMA ProtectorKept ==
  ASSUME FiringInv, NEW s \in Protectors, CheckPositionProtection(s)
  PROVE  FiringInv'
<1>0. Grouped
  BY DEF FiringInv, OrderInv
<1>1. CASE CheckPosition(s)
  BY <1>0, <1>1, NoFate, OthersKept DEF CheckPosition
<1>2. CASE CheckActive(s)
  BY <1>0, <1>2, NoFate, OthersKept DEF CheckActive
<1>3. CASE CheckFailed(s)
  BY <1>0, <1>3, NoFate, OthersKept DEF CheckFailed
<1>4. CASE CheckParams(s)
  BY <1>0, <1>4, NoFate, OthersKept DEF CheckParams
<1>5. CASE Recreate(s)
  BY <1>0, <1>5, CreateFate, OthersKept DEF Recreate
<1> QED BY <1>1, <1>2, <1>3, <1>4, <1>5 DEF CheckPositionProtection

\* A poller whose record becomes r, and that had claimed nothing.
LEMMA PollerMoves ==
  ASSUME OrderInv, NEW s \in Alerters, ~Fires(s), NEW r \in Tick, r.todo \subseteq DOMAIN alerts,
         r.pc = "oco" => r.alert \in DOMAIN alerts, tick' = [tick EXCEPT ![s] = r]
  PROVE  /\ TickMove /\ tick'[s] = r
         /\ \A t \in Alerters : Fires(t) => Fires(t)' /\ tick'[t].alert = tick[t].alert
<1>1. tick' \in [Alerters -> Tick] /\ tick'[s] = r /\ \A t \in Alerters \ {s} : tick'[t] = tick[t]
  BY DEF OrderInv
<1>2. TickMove
  BY <1>1 DEF OrderInv, TickMove, Fires
<1> QED BY <1>1, <1>2 DEF Fires

\* The rest of a pass, when the poller holds no claim or has just given it to a sale.
LEMMA ScanRecord ==
  ASSUME OrderInv, NEW s \in Alerters, NEW todo, todo \subseteq tick[s].todo, Scan(s, todo)
  PROVE  \E r \in Tick : /\ r.pc # "oco" /\ r.todo \subseteq DOMAIN alerts
                         /\ tick' = [tick EXCEPT ![s] = r]
<1>1. todo \subseteq DOMAIN alerts /\ todo \in SUBSET Nat
  BY DEF OrderInv, Tick
<1>2. CASE todo = {}
  <2>1. NewTick \in Tick /\ NewTick.pc # "oco" /\ NewTick.todo \subseteq DOMAIN alerts
    BY DEF NewTick, Tick
  <2>2. tick' = [tick EXCEPT ![s] = NewTick]
    BY <1>2 DEF Scan
  <2> QED BY <2>1, <2>2
<1>3. CASE todo # {}
  BY <1>1, <1>3 DEF Scan, Tick
<1> QED BY <1>2, <1>3

LEMMA PassKept ==
  ASSUME FiringInv, NEW s \in Alerters, ~Fires(s), UNCHANGED <<alerts, sales>>,
         NEW r \in Tick, r.pc # "oco", r.todo \subseteq DOMAIN alerts, tick' = [tick EXCEPT ![s] = r]
  PROVE  FiringInv'
<1>1. OrderInv
  BY DEF FiringInv
<1>2. /\ TickMove /\ tick'[s] = r
      /\ \A t \in Alerters : Fires(t) => Fires(t)' /\ tick'[t].alert = tick[t].alert
  BY <1>1, PollerMoves
<1>3. Fate({}, {})
  BY <1>1, NoFate DEF OrderInv
<1>4. \A a \in {} : \E t \in Alerters : Fires(t)' /\ tick'[t].alert = a
  OBVIOUS
<1> QED BY <1>2, <1>3, <1>4, SalesRest

LEMMA ScanKept ==
  ASSUME FiringInv, NEW s \in Alerters, ~Fires(s), NEW todo, todo \subseteq tick[s].todo, Scan(s, todo),
         UNCHANGED <<alerts, sales>>
  PROVE  FiringInv'
<1>1. PICK r \in Tick : r.pc # "oco" /\ r.todo \subseteq DOMAIN alerts /\ tick' = [tick EXCEPT ![s] = r]
  BY ScanRecord DEF FiringInv
<1> QED BY <1>1, PassKept

LEMMA TriggerKept ==
  ASSUME FiringInv, NEW s \in Alerters, NEW a \in tick[s].todo, TriggerAlert(s, a)
  PROVE  FiringInv'
<1>0. OrderInv /\ ~Fires(s) /\ UNCHANGED sales
  BY DEF FiringInv, TriggerAlert, Fires
<1>1. CASE Scan(s, tick[s].todo \ {a}) /\ UNCHANGED alerts
  BY <1>0, <1>1, ScanKept
<1>2. CASE /\ alerts[a].st = "active" /\ MarkAlertTriggered(a)
           /\ tick' = [tick EXCEPT ![s] = [pc |-> "oco", todo |-> @.todo \ {a}, alert |-> a]]
  <2> DEFINE r == [pc |-> "oco", todo |-> tick[s].todo \ {a}, alert |-> a]
  <2>1. a \in DOMAIN alerts /\ tick[s].todo \subseteq DOMAIN alerts /\ tick[s].todo \in SUBSET Nat
    BY <1>0 DEF OrderInv, Tick
  <2>2. r \in Tick /\ r.todo \subseteq DOMAIN alerts /\ r.alert = a /\ r.pc = "oco"
    BY <2>1 DEF Tick
  <2>3. tick' = [tick EXCEPT ![s] = r]
    BY <1>2
  <2> HIDE DEF r
  <2>4. /\ TickMove /\ tick'[s] = r
        /\ \A t \in Alerters : Fires(t) => Fires(t)' /\ tick'[t].alert = tick[t].alert
    BY <1>0, <2>1, <2>2, <2>3, PollerMoves
  <2>5. Fate({a}, {})
    BY <1>0, <1>2, MarkFate DEF OrderInv
  <2>6. Fires(s)' /\ tick'[s].alert = a
    BY <2>2, <2>4 DEF Fires
  <2> QED BY <1>0, <2>4, <2>5, <2>6, SalesRest
<1> QED BY <1>1, <1>2 DEF TriggerAlert

\* The sale begins after its siblings are cancelled, and takes over the poller's claim.
LEMMA BeginsKept ==
  ASSUME FiringInv, NEW s \in Alerters, CancelSiblings(s)
  PROVE  FiringInv'
<1> DEFINE x == tick[s].alert
           new == [alert |-> x, server |-> s, pc |-> "sell", attempt |-> 1, late |-> FALSE, sold |-> FALSE,
                   firedAt |-> Len(alerts)]
           n == Len(sales) + 1
<1>1. OrderInv /\ Fires(s) /\ x \in DOMAIN alerts /\ x \in Nat
  BY DEF FiringInv, CancelSiblings, Fires, OrderInv, Tick
<1>2. /\ Fate({}, {})
      /\ Stored /\ alerts[x].group # 0 => \A b \in Siblings(x) : alerts'[b].st # "active"
  <2>1. CASE UNCHANGED alerts
    BY <1>1, <2>1, NoFate, GroupFate DEF OrderInv, CancelSiblings, Stored, Faulty
  <2>2. CASE CancelAlertsByGroup(x)
    BY <1>1, <2>2, GroupFate DEF OrderInv
  <2> QED BY <2>1, <2>2 DEF CancelSiblings
<1>3. PICK r \in Tick : r.pc # "oco" /\ r.todo \subseteq DOMAIN alerts /\ tick' = [tick EXCEPT ![s] = r]
  <2>1. Scan(s, tick[s].todo)
    BY DEF CancelSiblings
  <2> QED BY <1>1, <2>1, ScanRecord
<1>4. tick' \in [Alerters -> Tick] /\ tick'[s] = r /\ \A t \in Alerters \ {s} : tick'[t] = tick[t]
  BY <1>1, <1>3 DEF OrderInv
<1>5. /\ DOMAIN alerts = 1..Len(alerts) /\ Len(alerts) \in Nat /\ Len(alerts) <= Len(alerts') /\ Len(alerts') \in Nat
      /\ DOMAIN alerts \subseteq DOMAIN alerts'
  BY <1>1, <1>2, TableSize DEF OrderInv, Fate
<1>6. /\ new \in SaleFields /\ new.alert = x /\ new.firedAt = Len(alerts) /\ new.pc = "sell"
      /\ new.late = FALSE /\ new.sold = FALSE
  BY <1>1, <1>5 DEF SaleFields
<1>7. sales' = Append(sales, new) /\ sales \in Seq(SaleFields)
  BY <1>1 DEF CancelSiblings, OrderInv
<1> HIDE DEF new
<1>8. /\ sales' \in Seq(SaleFields) /\ DOMAIN sales' = 1..n /\ DOMAIN sales = 1..Len(sales) /\ Len(sales) \in Nat
      /\ sales'[n] = new /\ \A i \in DOMAIN sales : sales'[i] = sales[i]
  <2>1. /\ sales' \in Seq(SaleFields) /\ Len(sales') = n /\ sales'[n] = new
        /\ \A i \in 1..Len(sales) : sales'[i] = sales[i]
    BY <1>6, <1>7, AppendProperties
  <2> QED BY <1>7, <2>1, LenProperties
<1>9. PICK k : k = n
  OBVIOUS
<1>10. /\ k \in DOMAIN sales' /\ sales'[k] = new
       /\ \A i \in DOMAIN sales' : i = k \/ i \in DOMAIN sales
      /\ DOMAIN sales \subseteq DOMAIN sales'
  BY <1>8, <1>9
<1> HIDE DEF x, n
<1>11. OrderInv'
  <2>1. \A t \in Alerters : /\ tick'[t].todo \subseteq DOMAIN alerts'
                            /\ Fires(t)' => tick'[t].alert \in DOMAIN alerts'
    BY <1>1, <1>3, <1>4, <1>5 DEF OrderInv, Fires
  <2>2. \A i \in DOMAIN sales' : /\ sales'[i].alert \in DOMAIN alerts' /\ sales'[i].firedAt \in 0..Len(alerts')
                                 /\ sales'[i].pc = "restore" => alerts'[sales'[i].alert].group # 0
                                 /\ sales'[i].pc \in {"sweep", "ack"} => sales'[i].sold
    <3> SUFFICES ASSUME NEW i \in DOMAIN sales'
                 PROVE  /\ sales'[i].alert \in DOMAIN alerts' /\ sales'[i].firedAt \in 0..Len(alerts')
                        /\ sales'[i].pc = "restore" => alerts'[sales'[i].alert].group # 0
                        /\ sales'[i].pc \in {"sweep", "ack"} => sales'[i].sold
      OBVIOUS
    <3>1. CASE i = k
      BY <1>1, <1>5, <1>6, <1>10, <3>1
    <3>2. CASE i \in DOMAIN sales
      <4>1. sales'[i] = sales[i] /\ sales[i].alert \in DOMAIN alerts /\ sales[i].firedAt \in 0..Len(alerts)
        BY <1>1, <1>8, <3>2 DEF OrderInv
      <4>2. sales[i].pc = "restore" => alerts[sales[i].alert].group # 0
        BY <1>1, <3>2 DEF OrderInv
      <4>3. sales[i].pc \in {"sweep", "ack"} => sales[i].sold
        BY <1>1, <3>2 DEF OrderInv
      <4> QED BY <1>2, <1>5, <4>1, <4>2, <4>3 DEF Fate
    <3> QED BY <1>10, <3>1, <3>2
  <2> QED BY <1>2, <1>4, <1>8, <2>1, <2>2 DEF OrderInv, Fate
<1>12. ASSUME Stored PROVE DownInv'
  <2>1. RestoresFailed'
    BY <1>1, <1>2, <1>6, <1>8, <1>10, <1>12 DEF FiringInv, DownInv, RestoresFailed, OrderInv, Fate
  <2>2. SiblingsStandDown'
    <3> SUFFICES ASSUME NEW i \in DOMAIN sales', NEW b \in 1..sales'[i].firedAt,
                        Running(i)', alerts'[b].st = "active",
                        b # sales'[i].alert, alerts'[b].group = alerts'[sales'[i].alert].group,
                        alerts'[b].group # 0
                 PROVE  \E a \in WithStatus("failed")' : SameGroup(a, b)'
      BY DEF SiblingsStandDown, SameGroup
    <3>1. CASE i = k
      <4>1. b \in DOMAIN alerts /\ sales'[i].alert = x
        BY <1>5, <1>6, <1>10, <3>1
      <4>2. b \in Siblings(x) /\ alerts[x].group # 0
        BY <1>1, <1>2, <4>1 DEF Siblings, Fate
      <4> QED BY <1>2, <1>12, <4>2
    <3>2. CASE i \in DOMAIN sales
      <4>1. sales'[i] = sales[i] /\ sales[i].alert \in DOMAIN alerts /\ b \in DOMAIN alerts
        BY <1>1, <1>5, <1>8, <3>2 DEF OrderInv
      <4>2. Running(i) /\ alerts[b].st = "active" /\ SameGroup(b, sales[i].alert) /\ b \in 1..sales[i].firedAt
        BY <1>2, <4>1 DEF Running, Fate, SameGroup
      <4>3. PICK a \in WithStatus("failed") : SameGroup(a, b)
        BY <1>12, <3>2, <4>1, <4>2 DEF FiringInv, DownInv, SiblingsStandDown
      <4>4. a \in DOMAIN alerts /\ alerts[a].st = "failed"
        BY <4>3 DEF WithStatus
      <4>5. a \in WithStatus("failed")' /\ SameGroup(a, b)'
        BY <1>2, <4>1, <4>3, <4>4 DEF WithStatus, SameGroup, Fate
      <4> QED BY <4>5
    <3> QED BY <1>10, <3>1, <3>2
  <2> QED BY <2>1, <2>2 DEF DownInv
<1>13. ASSUME Undisturbed PROVE DoneInv'
  <2>1. InTime /\ FiredAlertsConclude
    BY <1>13 DEF FiringInv, DoneInv
  <2>2. InTime'
    BY <1>6, <1>8, <1>10, <2>1 DEF InTime
  <2>3. FiredAlertsConclude'
    <3> SUFFICES ASSUME NEW i \in DOMAIN sales', sales'[i].pc = "end", ~sales'[i].sold,
                        alerts'[sales'[i].alert].st = "exhausted"
                 PROVE  \/ \E j \in DOMAIN sales' : /\ sales'[j].alert = sales'[i].alert
                                                    /\ Running(j)' \/ sales'[j].sold
                        \/ \E t \in Alerters : tick'[t].pc = "oco" /\ tick'[t].alert = sales'[i].alert
      BY DEF FiredAlertsConclude
    <3>1. i \in DOMAIN sales /\ sales'[i] = sales[i]
      BY <1>6, <1>8, <1>10
    <3>2. sales[i].alert \in DOMAIN alerts /\ alerts[sales[i].alert].st = "exhausted"
      BY <1>1, <1>2, <3>1 DEF OrderInv, Fate
    <3>3. CASE sales[i].alert = x
      <4>1. Running(k)'
        BY <1>6, <1>10 DEF Running
      <4> QED BY <1>6, <1>10, <3>1, <3>3, <4>1
    <3>4. ASSUME NEW t \in Alerters, tick[t].pc = "oco", tick[t].alert = sales[i].alert, sales[i].alert # x
          PROVE  tick'[t].pc = "oco" /\ tick'[t].alert = sales'[i].alert
      BY <1>4, <3>1, <3>4 DEF x
    <3>5. ASSUME NEW j \in DOMAIN sales, sales[j].alert = sales[i].alert, Running(j) \/ sales[j].sold
          PROVE  j \in DOMAIN sales' /\ sales'[j].alert = sales'[i].alert /\ (Running(j)' \/ sales'[j].sold)
      <4>1. j \in DOMAIN sales' /\ sales'[j] = sales[j]
        BY <1>8, <1>10, <3>5
      <4>2. Running(j) => Running(j)'
        BY <4>1 DEF Running
      <4> QED BY <3>1, <3>5, <4>1, <4>2
    <3> QED BY <2>1, <3>1, <3>2, <3>3, <3>4, <3>5 DEF FiredAlertsConclude
  <2> QED BY <2>2, <2>3 DEF DoneInv
<1> QED BY <1>11, <1>12, <1>13 DEF FiringInv, Stored, Undisturbed

LEMMA AlerterKept ==
  ASSUME FiringInv, NEW s \in Alerters, CheckPositionAlerts(s)
  PROVE  FiringInv'
<1>0. OrderInv
  BY DEF FiringInv
<1>1. CASE ReadAlerts(s)
  <2> DEFINE r == [pc |-> "price", todo |-> WithStatus("active"), alert |-> 0]
  <2>1. ~Fires(s) /\ UNCHANGED <<alerts, sales>> /\ tick' = [tick EXCEPT ![s] = r]
    BY <1>1 DEF ReadAlerts, Fires
  <2>2. r \in Tick /\ r.pc # "oco" /\ r.todo \subseteq DOMAIN alerts
    <3>1. DOMAIN alerts = 1..Len(alerts) /\ Len(alerts) \in Nat
      BY <1>0, RowsAreNumbered DEF OrderInv, Grouped
    <3> QED BY <3>1 DEF Tick, WithStatus
  <2> HIDE DEF r
  <2> QED BY <2>1, <2>2, PassKept
<1>2. CASE ReadPrices(s)
  <2>1. ~Fires(s) /\ UNCHANGED <<alerts, sales>>
    BY <1>2 DEF ReadPrices, Fires
  <2>2. CASE Scan(s, {a \in tick[s].todo : Met(alerts[a].kind, price)})
    <3>1. {a \in tick[s].todo : Met(alerts[a].kind, price)} \subseteq tick[s].todo
      OBVIOUS
    <3> QED BY <2>1, <2>2, <3>1, ScanKept
  <2>3. CASE tick' = [tick EXCEPT ![s] = NewTick]
    <3>1. Scan(s, {})
      BY <2>3 DEF Scan
    <3> QED BY <2>1, <3>1, ScanKept
  <2> QED BY <1>2, <2>2, <2>3 DEF ReadPrices
<1>3. ASSUME NEW a \in tick[s].todo, TriggerAlert(s, a) PROVE FiringInv'
  BY <1>3, TriggerKept
<1>4. CASE CancelSiblings(s)
  BY <1>4, BeginsKept
<1> QED BY <1>1, <1>2, <1>3, <1>4 DEF CheckPositionAlerts

LEMMA CrashKept ==
  ASSUME FiringInv, NEW s \in Servers, Crash(s)
  PROVE  FiringInv'
<1>1. OrderInv /\ "crash" \in FaultKinds /\ Fate({}, {})
  BY NoFate DEF FiringInv, OrderInv, Crash, Faulty
<1>2. TickMove
  <2>1. NewTick \in Tick /\ NewTick.pc # "oco" /\ NewTick.todo = {}
    BY DEF NewTick, Tick
  <2>2. tick' = [t \in Alerters |-> IF t = s THEN NewTick ELSE tick[t]]
    BY DEF Crash
  <2> QED BY <1>1, <2>1, <2>2 DEF OrderInv, TickMove, Fires
<1>3. SaleMove /\ \A i \in DOMAIN sales : sales'[i].pc = "restore" => sales[i].pc = "restore"
  <2>1. \A i \in DOMAIN sales :
          /\ sales[i] \in SaleFields /\ [sales[i] EXCEPT !.pc = "killed"] \in SaleFields
          /\ [sales[i] EXCEPT !.pc = "killed"].pc = "killed"
          /\ [sales[i] EXCEPT !.pc = "killed"].late = sales[i].late
          /\ [sales[i] EXCEPT !.pc = "killed"].sold = sales[i].sold
          /\ [sales[i] EXCEPT !.pc = "killed"].alert = sales[i].alert
          /\ [sales[i] EXCEPT !.pc = "killed"].firedAt = sales[i].firedAt
          /\ sales[i].pc = "killed" => [sales[i] EXCEPT !.pc = "killed"] = sales[i]
    <3> SUFFICES ASSUME NEW i \in DOMAIN sales
                 PROVE  /\ sales[i] \in SaleFields /\ [sales[i] EXCEPT !.pc = "killed"] \in SaleFields
                        /\ [sales[i] EXCEPT !.pc = "killed"].pc = "killed"
                        /\ [sales[i] EXCEPT !.pc = "killed"].late = sales[i].late
                        /\ [sales[i] EXCEPT !.pc = "killed"].sold = sales[i].sold
                        /\ [sales[i] EXCEPT !.pc = "killed"].alert = sales[i].alert
                        /\ [sales[i] EXCEPT !.pc = "killed"].firedAt = sales[i].firedAt
                        /\ sales[i].pc = "killed" => [sales[i] EXCEPT !.pc = "killed"] = sales[i]
      OBVIOUS
    <3>1. sales[i] \in SaleFields
      BY <1>1, OrderSales
    <3> QED BY <3>1 DEF SaleFields
  <2>2. /\ DOMAIN sales = 1..Len(sales) /\ Len(sales) \in Nat
        /\ sales' = [i \in DOMAIN sales |-> sales'[i]] /\ DOMAIN sales' = DOMAIN sales
        /\ \A i \in DOMAIN sales :
             sales'[i] = sales[i] \/ (sales[i].pc # "end" /\ sales'[i] = [sales[i] EXCEPT !.pc = "killed"])
    BY <1>1, LenProperties DEF Crash, OrderInv
  <2>3. \A i \in 1..Len(sales) : sales'[i] \in SaleFields
    BY <2>1, <2>2
  <2>4. [i \in 1..Len(sales) |-> sales'[i]] \in Seq(SaleFields)
    BY <2>2, <2>3, SeqDef
  <2>5. sales' \in Seq(SaleFields)
    BY <2>2, <2>4
  <2>6. \A i \in DOMAIN sales :
       /\ sales'[i].alert = sales[i].alert /\ sales'[i].firedAt = sales[i].firedAt
       /\ sales[i].late => sales'[i].late
       /\ sales[i].sold => sales'[i].sold
       /\ sales'[i] = sales[i] \/ sales'[i].pc = "killed"
    BY <2>1, <2>2, ZenonT(60)
  <2>7. \A i \in DOMAIN sales : ~Running(i) => sales'[i] = sales[i]
    BY <2>1, <2>2 DEF Running
  <2>8. \A i \in DOMAIN sales : /\ sales[i].pc = "restore" => alerts[sales[i].alert].group # 0
                                /\ sales[i].pc \in {"sweep", "ack"} => sales[i].sold
    BY <1>1 DEF OrderInv
  <2> QED BY <2>2, <2>5, <2>6, <2>7, <2>8 DEF SaleMove
<1>4. OrderInv'
  BY <1>1, <1>2, <1>3, OrderKept
<1>5. ASSUME Stored PROVE DownInv'
  BY <1>1, <1>3, <1>5, DownKept DEF FiringInv
<1> QED BY <1>1, <1>4, <1>5 DEF FiringInv, Stored, Undisturbed

LEMMA FiringStep == FiringInv /\ [Next]_vars => FiringInv'
<1> SUFFICES ASSUME FiringInv, [Next]_vars PROVE FiringInv'
  OBVIOUS
<1>0. Grouped
  BY DEF FiringInv, OrderInv
<1>1. ASSUME NEW c \in Calls, CallStep(c) PROVE FiringInv'
  BY <1>1, CallKept
<1>2. ASSUME NEW s \in Alerters, CheckPositionAlerts(s) PROVE FiringInv'
  BY <1>2, AlerterKept
<1>3. ASSUME NEW s \in Protectors, CheckPositionProtection(s) PROVE FiringInv'
  BY <1>3, ProtectorKept
<1>4. ASSUME NEW s \in Servers, Crash(s) PROVE FiringInv'
  BY <1>4, CrashKept
<1>5. ASSUME NEW i \in DOMAIN sales, SaleStep(i) \/ Expire(i) PROVE FiringInv'
  BY <1>5, SalesKept
<1>6. ASSUME NEW r \in Readers, ReadTriggered(r) \/ AckTriggered(r) PROVE FiringInv'
  <2>1. CASE ReadTriggered(r)
    BY <1>0, <2>1, NoFate, OthersKept DEF ReadTriggered
  <2>2. CASE AckTriggered(r)
    BY <1>0, <2>2, AckFate, NoFate, OthersKept DEF AckTriggered
  <2> QED BY <1>6, <2>1, <2>2
<1>7. CASE Reconcile \/ MovePrice \/ UNCHANGED vars
  BY <1>0, <1>7, NoFate, OthersKept DEF Reconcile, MovePrice, vars
<1> QED BY <1>1, <1>2, <1>3, <1>4, <1>5, <1>6, <1>7 DEF Next

LEMMA FiringInit == Init => FiringInv
<1> SUFFICES ASSUME Init PROVE FiringInv
  OBVIOUS
<1>1. Rows
  BY RowsInit
<1>2. alerts = << >> /\ sales = << >> /\ tick = [s \in Alerters |-> NewTick]
  BY DEF Init
<1>3. NewTick \in Tick /\ NewTick.pc # "oco" /\ NewTick.todo = {}
  BY DEF NewTick, Tick
<1>4. sales \in Seq(SaleFields) /\ DOMAIN sales = {} /\ DOMAIN alerts = {}
  BY <1>2, EmptySeq
<1>5. Grouped
  BY <1>1, <1>4 DEF Grouped
<1>6. OrderInv
  BY <1>2, <1>3, <1>4, <1>5 DEF OrderInv, Fires
<1> QED BY <1>4, <1>6 DEF FiringInv, DownInv, DoneInv, RestoresFailed, SiblingsStandDown, InTime,
    FiredAlertsConclude

\* While an order is being sold, its group stands down until one of it has failed, with any number
\* of pollers, crashes and expired deadlines, as long as the database stores what it is told.
THEOREM GroupsStandDown == "database" \notin FaultKinds => (Spec => []SiblingsStandDown)
<1> SUFFICES ASSUME "database" \notin FaultKinds PROVE Spec => []SiblingsStandDown
  OBVIOUS
<1>1. FiringInv => SiblingsStandDown
  BY DEF FiringInv, Stored, DownInv
<1> QED BY <1>1, FiringInit, FiringStep, PTL DEF Spec

\* A sale that ends without selling leaves no alert behind as fired and unresolved, whatever the
\* exchange and the gates refuse and whatever the agent cancels.
THEOREM FiringsConclude ==
  FaultKinds \cap {"database", "deadline", "crash"} = {} => (Spec => []FiredAlertsConclude)
<1> SUFFICES ASSUME FaultKinds \cap {"database", "deadline", "crash"} = {}
             PROVE  Spec => []FiredAlertsConclude
  OBVIOUS
<1>1. FiringInv => FiredAlertsConclude
  BY DEF FiringInv, Undisturbed, DoneInv
<1> QED BY <1>1, FiringInit, FiringStep, PTL DEF Spec
=============================================================================
