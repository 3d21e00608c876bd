---------------------------- MODULE AgentAlerts ----------------------------
(***************************************************************************)
(* The alerts that only wake an agent: the market alerts and the news      *)
(* alerts (mcps/marketdata and mcps/news, service.go) and the reminders of *)
(* the trading service.  They share the alerts table, where each is set    *)
(* and cancelled by tool calls, fired by a poller of its service on every  *)
(* server, and read and acknowledged by two tools.                         *)
(*                                                                         *)
(* There is one agent.  An alert's id is a hash of what it asks for, so    *)
(* an id stands for its condition.                                         *)
(***************************************************************************)
EXTENDS Integers, FiniteSets

CONSTANTS
  ServiceOf,         \* the ids and their services: [ids -> {"market", "time", "news"}]
  Complex,           \* market alerts whose condition needs more than the ticker
  Servers, Calls,    \* each server polls every service; calls may run at the same time
  Limit,             \* active alerts per service
  Asked,             \* values of max_triggers a news alert is set with
  MaxSets, MaxTurns  \* bounds: alerts set, and changes of the world

VARIABLES
  rows,              \* the table: [id -> [st, count, max, due]]; due: triggered_at is set
  holds,             \* the conditions that are met
  tools,             \* [Calls -> [pc, id, max, ids, read]]; read: what tally.fired was when the ids were
  polls,             \* [Servers -> [svc, pc, todo]]
  tally              \* [fired, told: numbers per id, sets, turns]

vars == <<rows, holds, tools, polls, tally>>

Ids == DOMAIN ServiceOf
Services == {"market", "time", "news"}
Of(svc) == {id \in Ids : ServiceOf[id] = svc}
Active == {id \in Ids : rows[id].st = "active"}

AgentAlertsAssumption ==
  /\ \A id \in Ids : ServiceOf[id] \in Services
  /\ Complex \subseteq Of("market")
  /\ Asked \subseteq Nat /\ {Limit, MaxSets, MaxTurns} \subseteq Nat

Never == [id \in Ids |-> 0]
NoCall == [pc |-> "idle", id |-> "none", max |-> 0, ids |-> {}, read |-> Never]
NoPoll == [pc |-> "idle", svc |-> "none", todo |-> {}]

Init ==
  /\ rows = [id \in Ids |-> [st |-> "none", count |-> 0, max |-> 0, due |-> FALSE]]
  /\ holds = {}
  /\ tools = [c \in Calls |-> NoCall]
  /\ polls = [s \in Servers |-> NoPoll]
  /\ tally = [fired |-> Never, told |-> Never, sets |-> 0, turns |-> 0]

-----------------------------------------------------------------------------
(* Tool calls. *)

\* optInt: a number that is not positive counts as not given.
MaxTriggers(asked) == IF asked > 0 THEN asked ELSE 1

\* Mutant: the limit is off by one.
CountAllowsOneMore(c, id, asked) ==
  /\ tools[c].pc = "idle" /\ tally.sets < MaxSets
  /\ Cardinality(Active \cap Of(ServiceOf[id])) <= Limit
  /\ tools' = [tools EXCEPT ![c] = [NoCall EXCEPT !.pc = "insert", !.id = id, !.max = MaxTriggers(asked)]]
  /\ tally' = [tally EXCEPT !.sets = @ + 1]
  /\ UNCHANGED <<rows, holds, polls>>

\* toolSetAlert and toolSetReminder, up to the count of the service's active alerts.
CountActiveAlerts(c, id, asked) ==
  /\ tools[c].pc = "idle" /\ tally.sets < MaxSets
  /\ Cardinality(Active \cap Of(ServiceOf[id])) < Limit
  /\ tools' = [tools EXCEPT ![c] = [NoCall EXCEPT !.pc = "insert", !.id = id, !.max = MaxTriggers(asked)]]
  /\ tally' = [tally EXCEPT !.sets = @ + 1]
  /\ UNCHANGED <<rows, holds, polls>>

\* An alert that fired, or was cancelled, keeps its row: it cannot be set again.
UpsertAlert(c) ==
  LET id == tools[c].id IN
  /\ tools[c].pc = "insert"
  /\ rows' = CASE rows[id].st = "none" ->
                    [rows EXCEPT ![id] = [st |-> "active", count |-> 0, max |-> tools[c].max, due |-> FALSE]]
               [] rows[id].st = "active" -> [rows EXCEPT ![id].max = tools[c].max]
               [] OTHER -> rows
  /\ tools' = [tools EXCEPT ![c] = NoCall]
  /\ UNCHANGED <<holds, polls, tally>>

CancelAlert(c, id) ==
  /\ tools[c].pc = "idle"
  /\ rows[id].st \in {"active", "exhausted"}
  /\ rows' = [rows EXCEPT ![id].st = "cancelled"]
  /\ UNCHANGED <<holds, tools, polls, tally>>

\* alert/triggered reads the alerts of every service, news/get_triggered_alerts those of its own.
GetTriggeredAlerts(c, svcs) ==
  LET ids == {id \in Ids : rows[id].due /\ rows[id].st \in {"active", "exhausted"} /\ ServiceOf[id] \in svcs} IN
  /\ tools[c].pc = "idle" /\ ids # {}
  /\ tools' = [tools EXCEPT ![c] = [NoCall EXCEPT !.pc = "ack", !.ids = ids, !.read = tally.fired]]
  /\ UNCHANGED <<rows, holds, polls, tally>>

\* Mutant: whatever is triggered by now is acknowledged.
AckAll(c, done) ==
  /\ tools[c].pc = "ack"
  /\ rows' = IF done THEN [id \in Ids |-> [rows[id] EXCEPT !.due = FALSE]] ELSE rows
  /\ tally' = [tally EXCEPT !.told = [id \in Ids |-> IF id \in tools[c].ids THEN tools[c].read[id] ELSE @[id]]]
  /\ tools' = [tools EXCEPT ![c] = NoCall]
  /\ UNCHANGED <<holds, polls>>

\* An error of the acknowledgement is only logged: the agent will read these alerts again.
AckTriggeredAlerts(c, done) ==
  /\ tools[c].pc = "ack"
  /\ rows' = IF done THEN [id \in Ids |-> IF id \in tools[c].ids THEN [rows[id] EXCEPT !.due = FALSE] ELSE rows[id]]
             ELSE rows
  /\ tally' = [tally EXCEPT !.told = [id \in Ids |-> IF id \in tools[c].ids THEN tools[c].read[id] ELSE @[id]]]
  /\ tools' = [tools EXCEPT ![c] = NoCall]
  /\ UNCHANGED <<holds, polls>>

-----------------------------------------------------------------------------
(* Pollers. *)

\* GetActiveAlerts, or GetDueTimeAlerts.
PollStart(s, svc) ==
  LET found == (Active \cap Of(svc)) \cap (IF svc = "time" THEN holds ELSE Ids) IN
  /\ polls[s].pc = "idle" /\ found # {}
  /\ polls' = [polls EXCEPT ![s] = [svc |-> svc, todo |-> found, pc |-> IF svc = "market" THEN "ticker" ELSE "mark"]]
  /\ UNCHANGED <<rows, holds, tools, tally>>

\* GetTicker, for all market alerts at once; the complex ones are looked at later.
PollTicker(s) ==
  /\ polls[s].pc = "ticker"
  /\ polls' = [polls EXCEPT ![s].pc = "mark", ![s].todo = @ \cap (holds \cup Complex)]
  /\ UNCHANGED <<rows, holds, tools, tally>>

\* An error of GetTicker ends the pass.
TickerFails(s) ==
  /\ polls[s].pc = "ticker"
  /\ polls' = [polls EXCEPT ![s] = NoPoll]
  /\ UNCHANGED <<rows, holds, tools, tally>>

\* The conditions that are asked for alert by alert: checkComplexCondition and the news search.
MetLate(id) == ServiceOf[id] = "news" \/ id \in Complex => id \in holds

NextTodo(s, id) ==
  polls' = [polls EXCEPT ![s] = IF @.todo = {id} THEN NoPoll ELSE [@ EXCEPT !.todo = @ \ {id}]]

\* MarkAlertTriggered: another server may have been first.
MarkAlertTriggered(s, id) ==
  /\ polls[s].pc = "mark" /\ id \in polls[s].todo /\ MetLate(id)
  /\ IF id \in Active
     THEN /\ rows' = [rows EXCEPT ![id].count = @ + 1, ![id].due = TRUE,
                        ![id].st = IF rows[id].max > 0 /\ rows[id].count + 1 >= rows[id].max THEN "exhausted" ELSE @]
          /\ tally' = [tally EXCEPT !.fired[id] = @ + 1]
     ELSE UNCHANGED <<rows, tally>>
  /\ NextTodo(s, id)
  /\ UNCHANGED <<holds, tools>>

\* The condition does not hold, or cannot be asked for, or the database fails.
LeaveAlert(s, id) ==
  /\ polls[s].pc = "mark" /\ id \in polls[s].todo
  /\ NextTodo(s, id)
  /\ UNCHANGED <<rows, holds, tools, tally>>

\* Prices move and articles come and go; a reminder stays due.
Turn(id) ==
  /\ tally.turns < MaxTurns
  /\ ServiceOf[id] = "time" => id \notin holds
  /\ holds' = IF id \in holds THEN holds \ {id} ELSE holds \cup {id}
  /\ tally' = [tally EXCEPT !.turns = @ + 1]
  /\ UNCHANGED <<rows, tools, polls>>

Next ==
  \/ \E c \in Calls :
       \/ \E id \in Ids : \/ CancelAlert(c, id)
                          \/ \E asked \in (IF ServiceOf[id] = "news" THEN Asked ELSE {1}) : CountActiveAlerts(c, id, asked)
       \/ UpsertAlert(c)
       \/ \E svcs \in {Services, {"news"}} : GetTriggeredAlerts(c, svcs)
       \/ \E done \in BOOLEAN : AckTriggeredAlerts(c, done)
  \/ \E s \in Servers :
       \/ \E svc \in Services : PollStart(s, svc)
       \/ PollTicker(s) \/ TickerFails(s)
       \/ \E id \in Ids : MarkAlertTriggered(s, id) \/ LeaveAlert(s, id)
  \/ \E id \in Ids : Turn(id)

-----------------------------------------------------------------------------
(* Properties. *)

\* A firing reaches the agent: until it has been read, and unless the agent cancels the alert,
\* its row says that it is due, whatever two pollers, two readers and a resetting call do.
\* And an alert fires no more often than it may; and the limit of active alerts is exceeded
\* at most by the calls that counted at the same time.
FiringsAreTold ==
  /\ \A id \in Ids :
       /\ tally.fired[id] > tally.told[id] /\ rows[id].st # "cancelled" => rows[id].due
       /\ rows[id].max = 1 => tally.fired[id] <= 1
  /\ \A svc \in Services : Cardinality(Active \cap Of(svc)) <= Limit + Cardinality(Calls) - 1

\* "Max times this alert can fire before expiring (default 1, 0 = unlimited)": an alert that
\* the agent set with max_triggers = 0 does not get exhausted.
ZeroIsUnlimited ==
  \A id \in Of("news") : Asked = {0} => rows[id].st # "exhausted"

=============================================================================
