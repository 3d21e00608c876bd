-------------------------- MODULE ConditionalOrders --------------------------
(***************************************************************************)
(* The software stop-loss and take-profit orders of one agent on one       *)
(* market: submit_order creates them, set_conditional and                  *)
(* cancel_conditional manage them, every server's alert poller fires them  *)
(* and sells, every server's protection poller recreates what is missing,  *)
(* and the agent is shown what fired.                                      *)
(*                                                                         *)
(* An order is one step here: submit_order holds the agent's lock from its *)
(* first read to the finalisation (see TradeLedger), and what follows the  *)
(* unlock is a step of its own.  A stop-loss is met at the low price, a    *)
(* take-profit at the high one.                                            *)
(***************************************************************************)
EXTENDS Integers, Sequences, FiniteSets

LOCAL INSTANCE SequencesExt

CONSTANTS
  Servers,      \* trading servers
  Alerters,     \* the servers whose alert poller runs
  Protectors,   \* the servers whose protection poller runs
  Readers,      \* sessions of the agent that ask what was triggered
  Calls,        \* calls the agent makes, one operation each
  Buys, Sells, Sets, Cancels,   \* which of the calls may be for what
  BuyParams,    \* what a buy's params may ask for: sets of kinds, or NoParams
  InformAgent,  \* inform_agent of the alerts
  AlertLimit,   \* active alerts set_conditional allows (10)
  Attempts,     \* attempts of an automatic sale (autoExecuteRetries, 2)
  FaultKinds,   \* what goes wrong, of {"database", "exchange", "refusal", "deadline", "crash"}
  MaxFaults,    \* bound: how often it does
  MaxMoves,     \* bound: price moves
  MaxAlerts     \* bound: how many alerts there may be for a pass of the protection poller
                \* to overlap with something else

VARIABLES
  price, moves,
  trades,       \* orders the exchange executed, in the order of their rows
  alerts,       \* the alerts table
  groups,       \* number of OCO groups handed out
  call,         \* where each call of the agent is
  tick,         \* the alert poller of each server: checkPositionAlerts
  guard,        \* the protection poller of each server: checkPositionProtection
  sales,        \* the goroutines of autoExecuteSell, in the order they started; firedAt
                \* (history) is the size of the alerts table at that moment
  inbox,        \* alert/triggered: alerts a session has read and not acknowledged yet
  told,         \* history: alerts the agent has been shown as failed
  faults

vars == <<price, moves, trades, alerts, groups, call, tick, guard, sales, inbox, told, faults>>
market == <<price, moves>>

Kinds == {"stop_loss", "take_profit"}
NoParams == {"none"}   \* a buy without params
Prices == {"low", "mid", "high"}

ASSUME ConditionalAssumption ==
  /\ Alerters \subseteq Servers /\ Protectors \subseteq Servers
  /\ BuyParams \subseteq (SUBSET Kinds) \cup {NoParams}
  /\ Buys \cup Sells \cup Sets \cup Cancels \subseteq Calls
  /\ InformAgent \in BOOLEAN
  /\ AlertLimit \in Nat /\ Attempts \in Nat \ {0}
  /\ FaultKinds \subseteq {"database", "exchange", "refusal", "deadline", "crash"}
  /\ MaxFaults \in Nat /\ MaxMoves \in Nat /\ MaxAlerts \in Nat

-----------------------------------------------------------------------------
(* Data. *)

Trade == [side : {"buy", "sell"}, qty : Nat, params : BuyParams \cup {NoParams}, booked : BOOLEAN]

\* group is 0 for an alert outside any OCO group; notice says that triggered_at is set.
Alert == [kind : Kinds, group : Nat, st : {"active", "exhausted", "cancelled", "failed"},
          notice : BOOLEAN]

Replay(sel(_)) ==
  LET add(q, t) == IF ~sel(t) THEN q
                   ELSE IF t.side = "buy" THEN q + t.qty
                   ELSE IF q > t.qty THEN q - t.qty ELSE 0
  IN FoldLeft(add, 0, trades)

\* GetOpenPositions sees the booked trades, the exchange's account all of them.
Held == Replay(LAMBDA t : t.booked)
HeldAtExchange == Replay(LAMBDA t : TRUE)

\* GetLatestBuyParams: the kinds the latest booked buy with params asked for.
LatestBuyParams ==
  LET buys == {i \in DOMAIN trades : trades[i].side = "buy" /\ trades[i].booked
                                     /\ trades[i].params # NoParams}
  IN IF buys = {} THEN {} ELSE trades[CHOOSE i \in buys : \A j \in buys : j <= i].params

WithStatus(st) == {a \in DOMAIN alerts : alerts[a].st = st}
KindsOf(A) == {alerts[a].kind : a \in A}

Met(kind, p) == IF kind = "stop_loss" THEN p = "low" ELSE p = "high"

Faulty(kind) == kind \in FaultKinds /\ faults < MaxFaults /\ faults' = faults + 1

-----------------------------------------------------------------------------
(* The statements against the alerts table. *)

SetStatus(A, st) ==
  alerts' = [a \in DOMAIN alerts |-> IF a \in A THEN [alerts[a] EXCEPT !.st = st] ELSE alerts[a]]

\* UpsertAlert: every caller comes with a fresh id, so a row is always inserted.
UpsertAlert(kind, group) ==
  alerts' = Append(alerts, [kind |-> kind, group |-> group, st |-> "active", notice |-> FALSE])

MarkAlertTriggered(a) ==
  alerts' = [alerts EXCEPT ![a].st = "exhausted", ![a].notice = TRUE]

\* Variant: whatever its status, the alert is cancelled.
CancelAnyAlert(a) == SetStatus({a}, "cancelled")
CancelAlert(a) == SetStatus({a} \cap (WithStatus("active") \cup WithStatus("exhausted")), "cancelled")

CancelActiveAlertsForPair == SetStatus(WithStatus("active"), "cancelled")

Siblings(a) == {b \in DOMAIN alerts \ {a} : alerts[b].group = alerts[a].group}

CancelAlertsByGroup(a) == SetStatus(Siblings(a) \cap WithStatus("active"), "cancelled")

RestoreCancelledSiblings(a) ==
  alerts' = [b \in DOMAIN alerts |->
               IF b \in Siblings(a) \cap WithStatus("cancelled")
               THEN [alerts[b] EXCEPT !.st = "active", !.notice = FALSE] ELSE alerts[b]]

FailAlert(a) == alerts' = [alerts EXCEPT ![a].st = "failed", ![a].notice = TRUE]

AckTriggeredAlerts(A) ==
  alerts' = [a \in DOMAIN alerts |->
               IF a \in A THEN [alerts[a] EXCEPT !.notice = FALSE] ELSE alerts[a]]

GetTriggeredAlerts ==
  {a \in DOMAIN alerts : alerts[a].notice /\ alerts[a].st \in {"active", "exhausted", "failed"}}

-----------------------------------------------------------------------------
(* What submit_order can come to, as its callers see it. *)

Execute(side, qty, params, booked) ==
  trades' = Append(trades, [side |-> side, qty |-> qty, params |-> params, booked |-> booked])

\* The order is executed and reported as a fill: also when the finalisation fails.
Fills(side, qty, params) ==
  \/ Execute(side, qty, params, TRUE) /\ UNCHANGED faults
  \/ Execute(side, qty, params, FALSE) /\ Faulty("database")

\* The call ends with an error: nothing was executed, or the answer got lost and
\* the row was rejected.  Such a fill comes back without params.
Errs(side, qty) ==
  \/ Faulty("database") /\ UNCHANGED trades
  \/ Faulty("exchange") /\ UNCHANGED trades
  \/ /\ Faulty("exchange")
     /\ side = "sell" => qty <= HeldAtExchange
     /\ Execute(side, qty, NoParams, FALSE)

-----------------------------------------------------------------------------
(* The agent's calls. *)

NewCall == [pc |-> "new", todo |-> {}, group |-> 0]
Done == [pc |-> "done", todo |-> {}, group |-> 0]

\* A filled buy with params goes on to create its orders after the unlock.
Buy(c) ==
  /\ call[c].pc = "new" /\ c \in Buys
  /\ \E ps \in BuyParams :
       \/ /\ Fills("buy", 1, ps)
          /\ IF ps \in {NoParams, {}}
             THEN call' = [call EXCEPT ![c] = Done] /\ UNCHANGED groups
             ELSE /\ groups' = groups + 1
                  /\ call' = [call EXCEPT ![c] =
                                [pc |-> "create", todo |-> ps, group |-> groups + 1]]
       \/ /\ Errs("buy", 1)
          /\ call' = [call EXCEPT ![c] = Done]
          /\ UNCHANGED groups
  /\ UNCHANGED <<market, alerts, tick, guard, sales, inbox, told>>

\* Stop-loss before take-profit; an order that cannot be stored is only logged.
CreateNext(todo, group, kind) ==
  /\ kind \in todo
  /\ kind = "take_profit" => "stop_loss" \notin todo
  /\ \/ UpsertAlert(kind, group) /\ UNCHANGED faults
     \/ Faulty("database") /\ UNCHANGED alerts

CreateConditionalOrder(c) ==
  /\ call[c].pc = "create"
  /\ \E k \in Kinds :
       /\ CreateNext(call[c].todo, call[c].group, k)
       /\ call' = [call EXCEPT ![c] = IF @.todo = {k} THEN Done ELSE [@ EXCEPT !.todo = @ \ {k}]]
  /\ UNCHANGED <<market, trades, groups, tick, guard, sales, inbox, told>>

\* The agent sells all or a part; the orders of the pair are cancelled after the unlock.
Sell(c) ==
  /\ call[c].pc = "new" /\ c \in Sells
  /\ \E qty \in 1..Held :
       \/ /\ qty <= HeldAtExchange
          /\ Fills("sell", qty, NoParams)
          /\ call' = [call EXCEPT ![c].pc = "sweep"]
       \/ Errs("sell", qty) /\ call' = [call EXCEPT ![c] = Done]
       \/ /\ qty > HeldAtExchange
          /\ call' = [call EXCEPT ![c] = Done]
          /\ UNCHANGED <<trades, faults>>
  /\ UNCHANGED <<market, alerts, groups, tick, guard, sales, inbox, told>>

Sweep(c) ==
  /\ call[c].pc = "sweep"
  /\ \/ CancelActiveAlertsForPair /\ UNCHANGED faults
     \/ Faulty("database") /\ UNCHANGED alerts
  /\ call' = [call EXCEPT ![c] = Done]
  /\ UNCHANGED <<market, trades, groups, tick, guard, sales, inbox, told>>

\* set_conditional counts the active alerts and inserts one outside any group.
SetConditional(c) ==
  /\ \/ /\ call[c].pc = "new" /\ c \in Sets
        /\ Cardinality(WithStatus("active")) < AlertLimit
        /\ call' = [call EXCEPT ![c].pc = "insert"]
        /\ UNCHANGED <<alerts, faults>>
     \/ /\ call[c].pc = "insert"
        /\ \/ (\E k \in Kinds : UpsertAlert(k, 0)) /\ UNCHANGED faults
           \/ Faulty("database") /\ UNCHANGED alerts
        /\ call' = [call EXCEPT ![c] = Done]
  /\ UNCHANGED <<market, trades, groups, tick, guard, sales, inbox, told>>

CancelConditional(c) ==
  /\ call[c].pc = "new" /\ c \in Cancels
  /\ \E a \in DOMAIN alerts : CancelAlert(a)
  /\ call' = [call EXCEPT ![c] = Done]
  /\ UNCHANGED <<market, trades, groups, tick, guard, sales, inbox, told, faults>>

\* alert/triggered: the agent reads what fired, and the same call acknowledges it.
ReadTriggered(r) ==
  /\ inbox[r] = {}
  /\ GetTriggeredAlerts # {}
  /\ inbox' = [inbox EXCEPT ![r] = GetTriggeredAlerts]
  /\ told' = told \cup (GetTriggeredAlerts \cap WithStatus("failed"))
  /\ UNCHANGED <<market, trades, alerts, groups, call, tick, guard, sales, faults>>

AckTriggered(r) ==
  /\ inbox[r] # {}
  /\ \/ AckTriggeredAlerts(inbox[r]) /\ UNCHANGED faults
     \/ Faulty("database") /\ UNCHANGED alerts
  /\ inbox' = [inbox EXCEPT ![r] = {}]
  /\ UNCHANGED <<market, trades, groups, call, tick, guard, sales, told>>

-----------------------------------------------------------------------------
(* checkPositionAlerts. *)

NewTick == [pc |-> "idle", todo |-> {}, alert |-> 0]
Scan(s, todo) ==
  tick' = [tick EXCEPT ![s] = IF todo = {} THEN NewTick
                              ELSE [pc |-> "scan", todo |-> todo, alert |-> 0]]

ReadAlerts(s) ==
  /\ tick[s].pc = "idle"
  /\ WithStatus("active") # {}
  /\ tick' = [tick EXCEPT ![s] = [pc |-> "price", todo |-> WithStatus("active"), alert |-> 0]]
  /\ UNCHANGED <<market, trades, alerts, groups, call, guard, sales, inbox, told, faults>>

\* Live prices, read after the alerts; the alerts whose condition is met remain.
ReadPrices(s) ==
  /\ tick[s].pc = "price"
  /\ \/ /\ Scan(s, {a \in tick[s].todo : Met(alerts[a].kind, price)})
        /\ UNCHANGED faults
     \/ Faulty("exchange") /\ tick' = [tick EXCEPT ![s] = NewTick]
  /\ UNCHANGED <<market, trades, alerts, groups, call, guard, sales, inbox, told>>

\* Variant: the alert was active when the tick began, which is taken to suffice.
TriggerAlertUnchecked(s, a) ==
  /\ tick[s].pc = "scan"
  /\ a \in tick[s].todo
  /\ MarkAlertTriggered(a)
  /\ tick' = [tick EXCEPT ![s] = [pc |-> "oco", todo |-> @.todo \ {a}, alert |-> a]]
  /\ UNCHANGED <<market, trades, groups, call, guard, sales, inbox, told, faults>>

\* Only the poller that finds the alert still active goes on with it.
TriggerAlert(s, a) ==
  /\ tick[s].pc = "scan"
  /\ a \in tick[s].todo
  /\ \/ /\ alerts[a].st = "active"
        /\ MarkAlertTriggered(a)
        /\ tick' = [tick EXCEPT ![s] = [pc |-> "oco", todo |-> @.todo \ {a}, alert |-> a]]
        /\ UNCHANGED faults
     \/ /\ alerts[a].st # "active"
        /\ Scan(s, tick[s].todo \ {a})
        /\ UNCHANGED <<alerts, faults>>
     \/ /\ Faulty("database")
        /\ Scan(s, tick[s].todo \ {a})
        /\ UNCHANGED alerts
  /\ UNCHANGED <<market, trades, groups, call, guard, sales, inbox, told>>

\* Variant: the siblings are left to the sale's own cleanup.
SiblingsUncancelled(s) ==
  /\ tick[s].pc = "oco"
  /\ sales' = Append(sales, [alert |-> tick[s].alert, server |-> s, pc |-> "sell", attempt |-> 1,
                             late |-> FALSE, sold |-> FALSE,
                             firedAt |-> Len(alerts)])
  /\ Scan(s, tick[s].todo)
  /\ UNCHANGED <<market, trades, alerts, groups, call, guard, inbox, told, faults>>

\* The siblings are cancelled, which may fail, and the sale starts.
CancelSiblings(s) ==
  /\ tick[s].pc = "oco"
  /\ LET a == tick[s].alert
     IN /\ \/ /\ IF alerts[a].group # 0 THEN CancelAlertsByGroup(a) ELSE UNCHANGED alerts
              /\ UNCHANGED faults
           \/ alerts[a].group # 0 /\ Faulty("database") /\ UNCHANGED alerts
        /\ sales' = Append(sales, [alert |-> a, server |-> s, pc |-> "sell", attempt |-> 1,
                                   late |-> FALSE, sold |-> FALSE,
                                   firedAt |-> Len(alerts)])
  /\ Scan(s, tick[s].todo)
  /\ UNCHANGED <<market, trades, groups, call, guard, inbox, told>>

-----------------------------------------------------------------------------
(* autoExecuteSell.  Once its 30 seconds are over every statement fails. *)

\* A statement of sale i: it takes effect, or the database or the deadline prevents it.
Statement(i, effect) ==
  \/ ~sales[i].late /\ effect /\ UNCHANGED faults
  \/ ~sales[i].late /\ Faulty("database") /\ UNCHANGED alerts
  \/ sales[i].late /\ UNCHANGED <<alerts, faults>>

SaleGoes(i, from, to) ==
  sales[i].pc = from /\ sales' = [sales EXCEPT ![i].pc = to]

\* Variant: after the last attempt the sale just ends.
AfterTransientQuietly(i) ==
  sales' = IF sales[i].attempt < Attempts THEN [sales EXCEPT ![i].attempt = @ + 1]
           ELSE [sales EXCEPT ![i].pc = "end"]
\* Another attempt, after a pause, if there is one left and there is time for it.
AfterTransient(i) ==
  sales' = IF sales[i].attempt < Attempts /\ ~sales[i].late
           THEN [sales EXCEPT ![i].attempt = @ + 1]
           ELSE [sales EXCEPT ![i].pc = "fail"]

\* tryAutoSell: submit_order for all that is held, and what its result means.  A
\* policy's or the exchange's refusal is final; the RiskRouter's is reported under
\* a source that tryAutoSell does not know, and tried again like an error.
TryAutoSell(i) ==
  /\ sales[i].pc = "sell"
  /\ \/ sales[i].late /\ AfterTransient(i) /\ UNCHANGED <<trades, faults>>
     \/ /\ ~sales[i].late /\ Held = 0
        /\ SaleGoes(i, "sell", "void")
        /\ UNCHANGED <<trades, faults>>
     \/ /\ ~sales[i].late /\ Held > 0
        /\ \/ /\ Faulty("refusal") \/ (Held > HeldAtExchange /\ UNCHANGED faults)
              /\ SaleGoes(i, "sell", "fail")
              /\ UNCHANGED trades
           \/ Faulty("refusal") /\ AfterTransient(i) /\ UNCHANGED trades
           \/ Errs("sell", Held) /\ AfterTransient(i)
     \/ /\ ~sales[i].late /\ Held \in 1..HeldAtExchange
        /\ \/ /\ sales' = [sales EXCEPT ![i].pc = "sweep", ![i].sold = TRUE]
              /\ Fills("sell", Held, NoParams)
           \/ /\ sales' = [sales EXCEPT ![i].pc = "sweep", ![i].sold = TRUE, ![i].late = TRUE]
              /\ Faulty("deadline") /\ Execute("sell", Held, NoParams, FALSE)
  /\ UNCHANGED <<market, alerts, groups, call, tick, guard, inbox, told>>

\* The end of submit_order and of tryAutoSell after a fill.
SweepAfterSale(i) ==
  /\ SaleGoes(i, "sweep", IF InformAgent THEN "end" ELSE "ack")
  /\ Statement(i, CancelActiveAlertsForPair)
  /\ UNCHANGED <<market, trades, groups, call, tick, guard, inbox, told>>

AckSilently(i) ==
  /\ SaleGoes(i, "ack", "end")
  /\ Statement(i, AckTriggeredAlerts({sales[i].alert}))
  /\ UNCHANGED <<market, trades, groups, call, tick, guard, inbox, told>>

CancelVoid(i) ==
  /\ SaleGoes(i, "void", "end")
  /\ Statement(i, CancelAlert(sales[i].alert))
  /\ UNCHANGED <<market, trades, groups, call, tick, guard, inbox, told>>

\* failAlertAndRestore.
FailSale(i) ==
  /\ SaleGoes(i, "fail", IF alerts[sales[i].alert].group = 0 THEN "end" ELSE "restore")
  /\ Statement(i, FailAlert(sales[i].alert))
  /\ UNCHANGED <<market, trades, groups, call, tick, guard, inbox, told>>

RestoreSiblings(i) ==
  /\ SaleGoes(i, "restore", "end")
  /\ Statement(i, RestoreCancelledSiblings(sales[i].alert))
  /\ UNCHANGED <<market, trades, groups, call, tick, guard, inbox, told>>

SaleStep(i) ==
  \/ TryAutoSell(i) \/ SweepAfterSale(i) \/ AckSilently(i) \/ CancelVoid(i)
  \/ FailSale(i) \/ RestoreSiblings(i)

\* The 30 seconds of a sale end.
Expire(i) ==
  /\ sales[i].pc \notin {"end", "killed"} /\ ~sales[i].late
  /\ Faulty("deadline")
  /\ sales' = [sales EXCEPT ![i].late = TRUE]
  /\ UNCHANGED <<market, trades, alerts, groups, call, tick, guard, inbox, told>>

-----------------------------------------------------------------------------
(* checkPositionProtection for a configured agent. *)

NewGuard == [pc |-> "idle", has |-> {}, todo |-> {}, group |-> 0]

Running(i) == sales[i].pc \notin {"end", "killed"}
Serving == {c \in Calls : call[c].pc \notin {"new", "done"}}
Quiet ==
  /\ Serving = {} /\ \A i \in DOMAIN sales : ~Running(i)
  /\ \A s \in Alerters : tick[s].pc \notin {"scan", "oco"}

\* From MaxAlerts alerts on, a pass waits until nothing else is under way.
CheckPosition(s) ==
  /\ guard[s].pc = "idle"
  /\ Held > 0
  /\ Len(alerts) < MaxAlerts \/ Quiet
  /\ guard' = [guard EXCEPT ![s].pc = "active"]
  /\ UNCHANGED <<market, trades, alerts, groups, call, tick, sales, inbox, told, faults>>

\* Variant: an alert that has fired counts as protection.
CheckActiveOrFired(s) ==
  /\ guard[s].pc = "active"
  /\ guard' = [guard EXCEPT ![s].pc = "failed",
                            ![s].has = KindsOf(WithStatus("active") \cup WithStatus("exhausted"))]
  /\ UNCHANGED <<market, trades, alerts, groups, call, tick, sales, inbox, told, faults>>

CheckActive(s) ==
  /\ guard[s].pc = "active"
  /\ \/ guard' = [guard EXCEPT ![s].pc = "failed", ![s].has = KindsOf(WithStatus("active"))]
        /\ UNCHANGED faults
     \/ Faulty("database") /\ guard' = [guard EXCEPT ![s] = NewGuard]
  /\ UNCHANGED <<market, trades, alerts, groups, call, tick, sales, inbox, told>>

\* A failed alert blocks the recreation of its kind; an error here counts as none.
CheckFailed(s) ==
  /\ guard[s].pc = "failed"
  /\ \/ guard' = [guard EXCEPT ![s].pc = "params",
                               ![s].has = @ \cup KindsOf(WithStatus("failed"))]
        /\ UNCHANGED faults
     \/ Faulty("database") /\ guard' = [guard EXCEPT ![s].pc = "params"]
  /\ UNCHANGED <<market, trades, alerts, groups, call, tick, sales, inbox, told>>

\* recreateMissingProtection: what is missing and was asked for, in a fresh group.
CheckParams(s) ==
  /\ guard[s].pc = "params"
  /\ \/ LET missing == LatestBuyParams \ guard[s].has
        IN /\ IF missing = {}
              THEN guard' = [guard EXCEPT ![s] = NewGuard] /\ UNCHANGED groups
              ELSE /\ groups' = groups + 1
                   /\ guard' = [guard EXCEPT ![s].pc = "create", ![s].todo = missing,
                                             ![s].group = groups + 1]
           /\ UNCHANGED faults
     \/ /\ Faulty("database")
        /\ guard' = [guard EXCEPT ![s] = NewGuard]
        /\ UNCHANGED groups
  /\ UNCHANGED <<market, trades, alerts, call, tick, sales, inbox, told>>

Recreate(s) ==
  /\ guard[s].pc = "create"
  /\ \E k \in Kinds :
       /\ CreateNext(guard[s].todo, guard[s].group, k)
       /\ guard' = [guard EXCEPT ![s] =
                      IF @.todo = {k} THEN NewGuard ELSE [@ EXCEPT !.todo = @ \ {k}]]
  /\ UNCHANGED <<market, trades, groups, call, tick, sales, inbox, told>>

-----------------------------------------------------------------------------
(* The rest of the world. *)

\* Reconciliation books what a finalisation or a lost answer left behind.
Reconcile ==
  /\ \E i \in DOMAIN trades :
       ~trades[i].booked /\ trades' = [trades EXCEPT ![i].booked = TRUE]
  /\ UNCHANGED <<market, alerts, groups, call, tick, guard, sales, inbox, told, faults>>

MovePrice ==
  /\ moves < MaxMoves
  /\ moves' = moves + 1
  /\ price' \in Prices \ {price}
  /\ UNCHANGED <<trades, alerts, groups, call, tick, guard, sales, inbox, told, faults>>

\* A server dies with its pollers, its sales and calls it was serving.
Crash(s) ==
  /\ Faulty("crash")
  /\ tick' = [t \in Alerters |-> IF t = s THEN NewTick ELSE tick[t]]
  /\ guard' = [t \in Protectors |-> IF t = s THEN NewGuard ELSE guard[t]]
  /\ sales' = [i \in DOMAIN sales |->
                 IF sales[i].server = s /\ sales[i].pc # "end"
                 THEN [sales[i] EXCEPT !.pc = "killed"] ELSE sales[i]]
  /\ \E dead \in SUBSET Serving :
       call' = [c \in Calls |-> IF c \in dead THEN Done ELSE call[c]]
  /\ UNCHANGED <<market, trades, alerts, groups, inbox, told>>

-----------------------------------------------------------------------------

Init ==
  /\ price = "mid" /\ moves = 0
  /\ trades = << >> /\ alerts = << >> /\ groups = 0
  /\ call = [c \in Calls |-> NewCall]
  /\ tick = [s \in Alerters |-> NewTick]
  /\ guard = [s \in Protectors |-> NewGuard]
  /\ sales = << >>
  /\ inbox = [r \in Readers |-> {}] /\ told = {} /\ faults = 0

CallStep(c) ==
  \/ Buy(c) \/ CreateConditionalOrder(c) \/ Sell(c) \/ Sweep(c)
  \/ SetConditional(c) \/ CancelConditional(c)

CheckPositionAlerts(s) ==
  \/ ReadAlerts(s) \/ ReadPrices(s) \/ (\E a \in tick[s].todo : TriggerAlert(s, a))
  \/ CancelSiblings(s)

CheckPositionProtection(s) ==
  \/ CheckPosition(s) \/ CheckActive(s) \/ CheckFailed(s) \/ CheckParams(s) \/ Recreate(s)

Next ==
  \/ \E c \in Calls : CallStep(c)
  \/ \E s \in Alerters : CheckPositionAlerts(s)
  \/ \E s \in Protectors : CheckPositionProtection(s)
  \/ \E s \in Servers : Crash(s)
  \/ \E i \in DOMAIN sales : SaleStep(i) \/ Expire(i)
  \/ \E r \in Readers : ReadTriggered(r) \/ AckTriggered(r)
  \/ Reconcile \/ MovePrice

Spec == Init /\ [][Next]_vars

\* The tickers keep firing, goroutines and calls in progress run on, reconciliation
\* keeps running, and the agent keeps asking what was triggered.  Which calls it
\* makes, prices and faults are free.
Fairness ==
  /\ \A s \in Alerters : WF_vars(CheckPositionAlerts(s))
  /\ \A s \in Protectors : WF_vars(CheckPositionProtection(s))
  /\ \A c \in Calls : WF_vars(call[c].pc # "new" /\ CallStep(c))
  /\ WF_vars(\E i \in DOMAIN sales : SaleStep(i))
  /\ WF_vars(Reconcile)
  /\ \A r \in Readers : WF_vars(ReadTriggered(r) \/ AckTriggered(r))

FairSpec == Spec /\ Fairness

-----------------------------------------------------------------------------
(* Properties. *)

\* Every variable keeps its type.
TypeOK ==
  /\ price \in Prices /\ moves \in 0..MaxMoves
  /\ trades \in Seq(Trade) /\ alerts \in Seq(Alert) /\ groups \in Nat
  /\ call \in [Calls -> [pc : {"new", "create", "insert", "sweep", "done"},
                         todo : SUBSET Kinds, group : Nat]]
  /\ tick \in [Alerters -> [pc : {"idle", "price", "scan", "oco"},
                           todo : SUBSET DOMAIN alerts, alert : {0} \cup DOMAIN alerts]]
  /\ guard \in [Protectors -> [pc : {"idle", "active", "failed", "params", "create"},
                            has : SUBSET Kinds, todo : SUBSET Kinds, group : Nat]]
  /\ sales \in Seq([alert : DOMAIN alerts, server : Servers, attempt : 1..Attempts,
                    pc : {"sell", "sweep", "ack", "void", "fail", "restore",
                          "end", "killed"},
                    late : BOOLEAN, sold : BOOLEAN, firedAt : Nat])
  /\ inbox \in [Readers -> SUBSET DOMAIN alerts] /\ told \subseteq DOMAIN alerts
  /\ faults \in 0..MaxFaults

\* However many servers poll the same alert, the sales it starts follow one another,
\* and none follows one that has sold: neither the restoration of a group nor a
\* cleanup resurrects "a consumed stop-loss".
OneSalePerAlert ==
  \A i, j \in DOMAIN sales :
    sales[i].alert = sales[j].alert /\ i < j => ~Running(i) /\ ~sales[i].sold

SameGroup(a, b) == a = b \/ (alerts[a].group = alerts[b].group /\ alerts[a].group # 0)

\* While an order of a group is being sold, those that were in the group when it fired
\* stand down, until a sale of the group has failed and restores them.
SiblingsStandDown ==
  \A i \in DOMAIN sales : \A b \in 1..sales[i].firedAt :
    /\ Running(i) /\ alerts[b].st = "active"
    /\ b # sales[i].alert /\ SameGroup(b, sales[i].alert)
    => \E a \in WithStatus("failed") : SameGroup(a, b)

\* "OCO linking via group_id cancels siblings when one fires, so an SL+TP pair never
\* double-fills."
NeverDoubleFills ==
  \A i, j \in DOMAIN sales :
    sales[i].sold /\ sales[j].sold /\ SameGroup(sales[i].alert, sales[j].alert) => i = j

\* A sale that ends without selling leaves its alert failed, or cancelled as there
\* is nothing to sell; a fired alert does not stay behind unresolved, also when the
\* group's failure restored it and it fired again.
FiredAlertsConclude ==
  \A i \in DOMAIN sales : sales[i].pc = "end" /\ ~sales[i].sold =>
    \/ alerts[sales[i].alert].st # "exhausted"
    \/ \E j \in DOMAIN sales : sales[j].alert = sales[i].alert /\ (Running(j) \/ sales[j].sold)
    \/ \E s \in Alerters : tick[s].pc = "oco" /\ tick[s].alert = sales[i].alert

\* A failed alert stays failed, whoever cancels, restores or acknowledges: it is what
\* keeps the protection poller from selling against the agent's decision.
FailedIsFinal ==
  [][\A a \in DOMAIN alerts : alerts[a].st = "failed" => alerts'[a].st = "failed"]_alerts

\* An open position whose latest buy asked for a stop-loss, below that price, and no
\* failed stop-loss that leaves it to the agent.
AtRisk ==
  /\ price = "low" /\ Held > 0 /\ "stop_loss" \in LatestBuyParams
  /\ \A a \in WithStatus("failed") : alerts[a].kind # "stop_loss"

\* A position does not stay at risk: it is sold, or the sale has failed and the agent
\* has to act.  Crashes between the firing and the sale are made good by the
\* protection poller.
StopLossHolds == AtRisk ~> ~AtRisk

\* An open position gets every order its latest buy asked for, unless one of that
\* kind has failed: "ensures each has live stop_loss + take_profit alerts".
PositionsGetProtected ==
  \A k \in Kinds :
    Held > 0 /\ k \in LatestBuyParams ~>
      \/ Held = 0 \/ k \notin LatestBuyParams
      \/ k \in KindsOf(WithStatus("active") \cup WithStatus("failed"))

\* "Failed alerts are surfaced exactly once, including the race where alert/triggered
\* acks before auto_execute fails": the agent is shown every failed alert.
FailedAlertsAreTold ==
  \A k \in Kinds : (\E a \in WithStatus("failed") : alerts[a].kind = k /\ a \notin told)
                   ~> (\A a \in WithStatus("failed") : alerts[a].kind = k => a \in told)
=============================================================================
