----------------------------- MODULE TradeLedger -----------------------------
(***************************************************************************)
(* The money path of the Trading MCP for one agent: submit_order (gates,   *)
(* write-ahead row, exchange call, finalisation), the reconciliation of    *)
(* the trade table with the exchange's fill history, and the halt switch,  *)
(* run by processes on any number of server instances that share one       *)
(* Postgres database and one exchange account.                             *)
(*                                                                         *)
(* Processes crash, the exchange answers late or not at all, statements    *)
(* fail, and the connection that carries an advisory lock may break while  *)
(* its holder keeps going.  All of these are bounded by named constants.   *)
(* Amounts are integers: one unit of an asset is worth one unit of cash at *)
(* the quoted price, and Slippages says by how much an execution deviates. *)
(***************************************************************************)
EXTENDS Integers, Sequences, FiniteSets, SequencesExt

CONSTANTS
  Requests,      \* submit_order calls; a call also names the fill it can cause
  Reconcilers,   \* reconciliation pollers, one per server instance
  Operators,     \* callers of SetHalted
  Nobody,        \* no process, no fill, no request
  Pairs,         \* markets
  Sides,         \* the sides the calls use, of {"buy", "sell"}
  Values,        \* quote values a call may ask for
  Slippages,     \* executed value minus requested value
  Gates,         \* the configured gates, of {"swiftward", "risk_router"}
  Configured,    \* is the agent in the static configuration?
  InitialCash,   \* agent_state.cash at the start
  ExchangeCash,  \* cash of the exchange account at the start
  MatchWindow,   \* largest distance of a matching fill (60 seconds)
  StaleAge,      \* age past which an unmatched pending row is rejected (2 minutes)
  MaxNow,        \* bound: the clock stops here
  LastArrival,   \* bound: no call arrives and no row is inserted later than this
  MaxFaults,     \* bound: crashes, timeouts, failed statements, partial histories
  MaxLockLosses  \* bound: broken lock connections

VARIABLES
  now,           \* the clock, in units of MatchWindow's kind
  lock,          \* holder of pg_advisory_lock(fnv64(agent)), or Nobody
  cash, halted, rejectCount, fillCount,   \* the agent_state row
  rows,          \* the trades table, in the order of its ids
  exchCash, exchQty,   \* the exchange account
  order,         \* what became of a call's order at the exchange
  fills,         \* the exchange's fill for a call, once order is "filled"
  pc,            \* where each process is
  req,           \* the parameters of a call
  seen,          \* cash a call read under the lock (state.Cash)
  amount,        \* value or quantity a call sends to the exchange
  verdict,       \* the verdict of each gate on a call
  hist, todo, matched, known,   \* locals of reconcileAgent
  faults, lockLosses

dbVars    == <<cash, halted, rejectCount, fillCount, rows>>
exchVars  == <<exchCash, exchQty, order, fills>>
callVars  == <<req, seen, amount, verdict>>
recVars   == <<hist, todo, matched, known>>
boundVars == <<faults, lockLosses>>
vars == <<now, lock, dbVars, exchVars, pc, callVars, recVars, boundVars>>

Procs == Requests \cup Reconcilers \cup Operators

ASSUME ProcessesAssumption ==
  /\ Requests \cap Reconcilers = {}
  /\ Requests \cap Operators = {}
  /\ Reconcilers \cap Operators = {}
  /\ Nobody \notin Procs
ASSUME AmountsAssumption ==
  /\ InitialCash \in Nat /\ ExchangeCash \in Nat
  /\ Values \subseteq Nat \ {0}
  /\ Slippages \subseteq Int
  /\ Pairs # {}
ASSUME ParametersAssumption ==
  /\ Sides \subseteq {"buy", "sell"}
  /\ Gates \subseteq {"swiftward", "risk_router"}
  /\ Configured \in BOOLEAN
  /\ MatchWindow \in Nat /\ StaleAge \in Nat /\ MaxNow \in Nat
  /\ LastArrival \in Nat /\ MaxFaults \in Nat /\ MaxLockLosses \in Nat

-----------------------------------------------------------------------------
(* Data. *)

RowStatus == {"pending", "fill", "reject"}

\* A row of the trades table.  intent is the call whose evidence, params and
\* gate results the row stores; fill is its fill_id.
Row == [st : RowStatus, pair : Pairs, side : {"buy", "sell"}, ts : Nat,
        intent : Requests \cup {Nobody}, fill : Requests \cup {Nobody},
        delta : Int, qty : Nat]

NewRow(r, status) ==
  [st |-> status, pair |-> req[r].pair, side |-> req[r].side, ts |-> now,
   intent |-> r, fill |-> Nobody, delta |-> 0, qty |-> 0]

NoFill == [delta |-> 0, qty |-> 0, ts |-> 0]

Verdict == {"none", "approve", "block", "unavailable"}

Filled == {i \in DOMAIN rows : rows[i].st = "fill"}
Pending == {i \in DOMAIN rows : rows[i].st = "pending"}
BookedFills == {rows[i].fill : i \in Filled}
PendingOf(r) == \E i \in Pending : rows[i].intent = r

\* GetOpenPositions: the filled rows of a pair replayed in the order of
\* (timestamp, id); a sell beyond the running quantity leaves it flat.
OpenPosition(p) ==
  LET older(i, j) == \/ rows[i].ts < rows[j].ts
                     \/ rows[i].ts = rows[j].ts /\ i < j
      replay(q, i) == IF rows[i].side = "buy" THEN q + rows[i].qty
                      ELSE IF q > rows[i].qty THEN q - rows[i].qty ELSE 0
  IN FoldLeft(replay, 0, SetToSortSeq({i \in Filled : rows[i].pair = p}, older))

Distance(a, b) == IF a >= b THEN a - b ELSE b - a

Fault == faults < MaxFaults /\ faults' = faults + 1 /\ UNCHANGED lockLosses

Goto(p, from, to) == pc[p] = from /\ pc' = [pc EXCEPT ![p] = to]

-----------------------------------------------------------------------------
(* The statements the handlers run against the trade store. *)

\* Variants of the statements, with the mistake each name says.
RejectPendingTradeMisspelt(i) ==
  /\ IF rows[i].st = "pending"
     THEN rows' = [rows EXCEPT ![i].st = "rejected"] /\ rejectCount' = rejectCount + 1
     ELSE UNCHANGED <<rows, rejectCount>>
  /\ UNCHANGED <<cash, halted, fillCount>>
RejectAnyTrade(i) ==
  /\ rows' = [rows EXCEPT ![i].st = "reject"]
  /\ rejectCount' = rejectCount + 1
  /\ UNCHANGED <<cash, halted, fillCount>>
BookableOverdrawn(f) == f \notin BookedFills
BookableTwice(f) == cash + fills[f].delta >= 0

\* RejectPendingTrade: only a pending row changes, counted in the same transaction.
RejectPendingTrade(i) ==
  /\ IF rows[i].st = "pending"
     THEN /\ rows' = [rows EXCEPT ![i].st = "reject"]
          /\ rejectCount' = rejectCount + 1
     ELSE UNCHANGED <<rows, rejectCount>>
  /\ UNCHANGED <<cash, halted, fillCount>>

\* The guard "cash + delta >= 0" of the state update and the unique index on
\* (agent_id, fill_id).
Bookable(f) == cash + fills[f].delta >= 0 /\ f \notin BookedFills

FinalizeTradeKeepsCash(i, f) ==
  /\ cash' = IF cash + fills[f].delta >= 0 THEN cash + fills[f].delta ELSE cash
  /\ IF rows[i].st = "pending" /\ Bookable(f)
     THEN /\ rows' = [rows EXCEPT ![i].st = "fill", ![i].fill = f,
                                  ![i].delta = fills[f].delta, ![i].qty = fills[f].qty]
          /\ fillCount' = fillCount + 1
     ELSE UNCHANGED <<rows, fillCount>>
  /\ UNCHANGED <<halted, rejectCount>>

\* FinalizeTrade: cash, counter and row in one transaction, or nothing at all.
FinalizeTrade(i, f) ==
  /\ IF rows[i].st = "pending" /\ Bookable(f)
     THEN /\ rows' = [rows EXCEPT ![i].st = "fill", ![i].fill = f,
                                  ![i].delta = fills[f].delta, ![i].qty = fills[f].qty]
          /\ cash' = cash + fills[f].delta
          /\ fillCount' = fillCount + 1
     ELSE UNCHANGED <<rows, cash, fillCount>>
  /\ UNCHANGED <<halted, rejectCount>>

RecordOrphanWithoutCash(f) ==
  /\ rows' = IF ~Bookable(f) THEN rows
             ELSE Append(rows, [st |-> "fill", pair |-> req[f].pair, side |-> req[f].side,
                                ts |-> fills[f].ts, intent |-> Nobody, fill |-> f,
                                delta |-> fills[f].delta, qty |-> fills[f].qty])
  /\ fillCount' = IF Bookable(f) THEN fillCount + 1 ELSE fillCount
  /\ UNCHANGED <<cash, halted, rejectCount>>

\* RecordTrade for an orphan fill: a filled row nobody's intent stands behind.
RecordOrphan(f) ==
  /\ IF Bookable(f)
     THEN /\ rows' = Append(rows, [st |-> "fill", pair |-> req[f].pair, side |-> req[f].side,
                                   ts |-> fills[f].ts, intent |-> Nobody, fill |-> f,
                                   delta |-> fills[f].delta, qty |-> fills[f].qty])
          /\ cash' = cash + fills[f].delta
          /\ fillCount' = fillCount + 1
     ELSE UNCHANGED <<rows, cash, fillCount>>
  /\ UNCHANGED <<halted, rejectCount>>

\* recordRejectedTrade: a rejected row and the counter; a failure is only logged.
RecordRejected(r) ==
  \/ /\ rows' = Append(rows, NewRow(r, "reject"))
     /\ rejectCount' = rejectCount + 1
     /\ UNCHANGED <<cash, halted, fillCount, boundVars>>
  \/ Fault /\ UNCHANGED dbVars

-----------------------------------------------------------------------------
(* The advisory lock.  It lives in one pooled connection of its holder. *)

\* Variant: the lock is taken without waiting for its holder.
AcquireLockAnyway(p, next) ==
  /\ lock' = p
  /\ Goto(p, "lock", next)
  /\ UNCHANGED <<now, dbVars, exchVars, callVars, recVars, boundVars>>

AcquireLock(p, next) ==
  /\ lock = Nobody
  /\ lock' = p
  /\ Goto(p, "lock", next)
  /\ UNCHANGED <<now, dbVars, exchVars, callVars, recVars, boundVars>>

\* unlock(): harmless when the lock is no longer ours.
ReleaseLock(p, next) ==
  /\ lock' = IF lock = p THEN Nobody ELSE lock
  /\ Goto(p, "unlock", next)
  /\ UNCHANGED <<now, dbVars, exchVars, callVars, recVars, boundVars>>

\* The connection breaks: Postgres frees the lock, its holder does not notice.
LoseLock ==
  /\ lock # Nobody
  /\ lockLosses < MaxLockLosses
  /\ lockLosses' = lockLosses + 1
  /\ lock' = Nobody
  /\ UNCHANGED <<now, dbVars, exchVars, pc, callVars, recVars, faults>>

-----------------------------------------------------------------------------
(* submit_order. *)

\* The arguments are parsed and the agent is registered, before the lock.
Submit(r) ==
  /\ now <= LastArrival
  /\ \E p \in Pairs, s \in Sides, v \in Values :
       req' = [req EXCEPT ![r] = [pair |-> p, side |-> s, value |-> v]]
  /\ Goto(r, "new", "lock")
  /\ UNCHANGED <<now, lock, dbVars, exchVars, seen, amount, verdict, recVars, boundVars>>

\* What a call may send: its value if the cash suffices, or the part of the
\* open position its value covers; 0 when the pre-trade checks fail.
Admissible(r) ==
  IF halted THEN 0
  ELSE IF req[r].side = "buy" THEN IF req[r].value <= cash THEN req[r].value ELSE 0
  ELSE LET held == OpenPosition(req[r].pair)
       IN IF req[r].value >= held THEN held ELSE req[r].value

\* State and positions are read under the lock; halt, cash and position checks.
CheckOrder(r) ==
  /\ seen' = [seen EXCEPT ![r] = cash]
  /\ \E a \in 0..req[r].value :
       /\ a = Admissible(r)
       /\ amount' = [amount EXCEPT ![r] = a]
       /\ IF a > 0
          THEN Goto(r, "check", "gates") /\ UNCHANGED <<dbVars, boundVars>>
          ELSE Goto(r, "check", "unlock") /\ RecordRejected(r)
  /\ UNCHANGED <<now, lock, exchVars, req, verdict, recVars>>

\* Swiftward is asked before the RiskRouter.  Both fail closed: a gate that
\* cannot answer rejects the order like one that says no.
AskGate(r, g) ==
  /\ verdict[r][g] = "none"
  /\ g = "risk_router" /\ "swiftward" \in Gates => verdict[r]["swiftward"] = "approve"
  /\ \E v \in Verdict \ {"none"} :
       /\ verdict' = [verdict EXCEPT ![r][g] = v]
       /\ IF v = "approve"
          THEN Goto(r, "gates", "gates") /\ UNCHANGED <<dbVars, boundVars>>
          ELSE Goto(r, "gates", "unlock") /\ RecordRejected(r)
  /\ UNCHANGED <<now, lock, exchVars, req, seen, amount, recVars>>

Approved(r) == \A g \in Gates : verdict[r][g] = "approve"

\* Variant: a failed insert is only logged.
WriteAheadBestEffort(r) ==
  /\ Approved(r)
  /\ Goto(r, "gates", "send")
  /\ \/ /\ rows' = Append(rows, NewRow(r, "pending"))
        /\ UNCHANGED <<cash, halted, rejectCount, fillCount, boundVars>>
     \/ Fault /\ UNCHANGED dbVars
  /\ UNCHANGED <<now, lock, exchVars, callVars, recVars>>

\* InsertTrade: the pending row.  If it fails the exchange is never called.
WriteAhead(r) ==
  /\ Approved(r)
  /\ \/ /\ Goto(r, "gates", "send")
        /\ rows' = Append(rows, NewRow(r, "pending"))
        /\ UNCHANGED <<cash, halted, rejectCount, fillCount, boundVars>>
     \/ Goto(r, "gates", "unlock") /\ Fault /\ UNCHANGED dbVars
  /\ UNCHANGED <<now, lock, exchVars, callVars, recVars>>

SendOrder(r) ==
  /\ Goto(r, "send", "await")
  /\ order' = [order EXCEPT ![r] = "sent"]
  /\ UNCHANGED <<now, lock, dbVars, exchCash, exchQty, fills, callVars, recVars, boundVars>>

\* The exchange answers, or the CLI call ends without the answer while the
\* order may still be executed.
ReceiveAnswer(r) ==
  /\ \/ order[r] = "filled" /\ Goto(r, "await", "finalize") /\ UNCHANGED boundVars
     \/ order[r] = "refused" /\ Goto(r, "await", "refuse") /\ UNCHANGED boundVars
     \/ Goto(r, "await", "refuse") /\ Fault
  /\ UNCHANGED <<now, lock, dbVars, exchVars, callVars, recVars>>

RowOf(r) == CHOOSE i \in DOMAIN rows : rows[i].intent = r

Finalize(r) ==
  /\ Goto(r, "finalize", "unlock")
  /\ \/ FinalizeTrade(RowOf(r), r) /\ UNCHANGED boundVars
     \/ Fault /\ UNCHANGED dbVars
  /\ UNCHANGED <<now, lock, exchVars, callVars, recVars>>

RefuseOrder(r) ==
  /\ Goto(r, "refuse", "unlock")
  /\ \/ RejectPendingTrade(RowOf(r)) /\ UNCHANGED boundVars
     \/ Fault /\ UNCHANGED dbVars
  /\ UNCHANGED <<now, lock, exchVars, callVars, recVars>>

SubmitOrder(r) ==
  \/ Submit(r) \/ AcquireLock(r, "check") \/ CheckOrder(r)
  \/ \E g \in Gates : AskGate(r, g)
  \/ WriteAhead(r) \/ SendOrder(r) \/ ReceiveAnswer(r)
  \/ Finalize(r) \/ RefuseOrder(r) \/ ReleaseLock(r, "done")

-----------------------------------------------------------------------------
(* The exchange (external): it executes what its account covers. *)

ExecuteOrder(r) ==
  /\ order[r] = "sent"
  /\ LET p == req[r].pair
         a == amount[r]
     IN \E s \in Slippages :
          IF req[r].side = "buy"
          THEN /\ a + s \in 1..exchCash
               /\ exchCash' = exchCash - (a + s)
               /\ exchQty' = [exchQty EXCEPT ![p] = @ + a]
               /\ fills' = [fills EXCEPT ![r] = [delta |-> -(a + s), qty |-> a, ts |-> now]]
          ELSE /\ a <= exchQty[p] /\ a + s > 0
               /\ exchCash' = exchCash + a + s
               /\ exchQty' = [exchQty EXCEPT ![p] = @ - a]
               /\ fills' = [fills EXCEPT ![r] = [delta |-> a + s, qty |-> a, ts |-> now]]
  /\ order' = [order EXCEPT ![r] = "filled"]
  /\ UNCHANGED <<now, lock, dbVars, pc, callVars, recVars, boundVars>>

RefuseAtExchange(r) ==
  /\ order[r] = "sent"
  /\ order' = [order EXCEPT ![r] = "refused"]
  /\ UNCHANGED <<now, lock, dbVars, exchCash, exchQty, fills, pc, callVars, recVars, boundVars>>

-----------------------------------------------------------------------------
(* reconcileAllAgents and reconcileAgent. *)

\* Variants: a pass that takes no lock, and one for agents with pending rows only.
StartReconcileUnlocked(k) ==
  /\ Configured \/ Pending # {}
  /\ Goto(k, "idle", "fetch")
  /\ UNCHANGED <<now, lock, dbVars, exchVars, callVars, recVars, boundVars>>
StartReconcilePendingOnly(k) ==
  /\ Pending # {}
  /\ Goto(k, "idle", "lock")
  /\ UNCHANGED <<now, lock, dbVars, exchVars, callVars, recVars, boundVars>>

\* An agent outside the configuration is visited only while it has pending rows.
StartReconcile(k) ==
  /\ Configured \/ Pending # {}
  /\ Goto(k, "idle", "lock")
  /\ UNCHANGED <<now, lock, dbVars, exchVars, callVars, recVars, boundVars>>

\* GetFillHistory, under the lock.  A market whose query fails is skipped; when
\* none succeeds the pass ends.
FetchHistory(k) ==
  /\ \E ok \in SUBSET Pairs :
       /\ IF ok = Pairs THEN UNCHANGED boundVars ELSE Fault
       /\ hist' = [hist EXCEPT ![k] =
                     {f \in Requests : order[f] = "filled" /\ req[f].pair \in ok}]
       /\ Goto(k, "fetch", IF ok = {} THEN "unlock" ELSE "pending")
  /\ UNCHANGED <<now, lock, dbVars, exchVars, callVars, todo, matched, known>>

ReadPending(k) ==
  /\ Goto(k, "pending", "resolve")
  /\ todo' = [todo EXCEPT ![k] = Pending]
  /\ matched' = [matched EXCEPT ![k] = {}]
  /\ UNCHANGED <<now, lock, dbVars, exchVars, callVars, hist, known, boundVars>>

\* matchPendingToFill: among the fetched fills of the row's pair and side that
\* this pass has not consumed, those closest in time within the window.
Candidates(k, i) ==
  {f \in hist[k] \ matched[k] :
     /\ req[f].pair = rows[i].pair /\ req[f].side = rows[i].side
     /\ Distance(fills[f].ts, rows[i].ts) <= MatchWindow}

MatchPendingToFill(k, i) ==
  {f \in Candidates(k, i) : \A g \in Candidates(k, i) :
     Distance(fills[f].ts, rows[i].ts) <= Distance(fills[g].ts, rows[i].ts)}

\* Variant: rows without a matching fill are left alone.
ResolvePendingMatchedOnly(k) ==
  /\ \E i \in todo[k] :
       /\ \A j \in todo[k] : i <= j
       /\ todo' = [todo EXCEPT ![k] = @ \ {i}]
       /\ \/ \E f \in MatchPendingToFill(k, i) :
               /\ matched' = [matched EXCEPT ![k] = @ \cup {f}]
               /\ FinalizeTrade(i, f) /\ UNCHANGED boundVars
          \/ Candidates(k, i) = {} /\ UNCHANGED <<dbVars, matched, boundVars>>
  /\ Goto(k, "resolve", "resolve")
  /\ UNCHANGED <<now, lock, exchVars, callVars, hist, known>>

\* finalizePendingFromHistory: the booking of Finalize, from the history's fill.
FinalizePendingFromHistory(i, f) ==
  \/ FinalizeTrade(i, f) /\ UNCHANGED boundVars
  \/ Fault /\ UNCHANGED dbVars

\* Phase 1, one pending row in id order: finalise with the matched fill, which
\* is consumed even if the transaction fails, or reject the row once stale.
ResolvePending(k) ==
  /\ \E i \in todo[k] :
       /\ \A j \in todo[k] : i <= j
       /\ todo' = [todo EXCEPT ![k] = @ \ {i}]
       /\ \/ \E f \in MatchPendingToFill(k, i) :
               /\ matched' = [matched EXCEPT ![k] = @ \cup {f}]
               /\ FinalizePendingFromHistory(i, f)
          \/ /\ Candidates(k, i) = {}
             /\ IF now - rows[i].ts > StaleAge
                THEN RejectPendingTrade(i) ELSE UNCHANGED dbVars
             /\ UNCHANGED <<matched, boundVars>>
  /\ Goto(k, "resolve", "resolve")
  /\ UNCHANGED <<now, lock, exchVars, callVars, hist, known>>

\* GetFilledFillIDs, then the fills Phase 2 has to look at.
ReadKnown(k) ==
  /\ todo[k] = {}
  /\ Goto(k, "resolve", "orphans")
  /\ known' = [known EXCEPT ![k] = BookedFills \ {Nobody}]
  /\ UNCHANGED <<now, lock, dbVars, exchVars, callVars, hist, todo, matched, boundVars>>

Orphans(k) == hist[k] \ (known[k] \cup matched[k])

\* Phase 2, one orphan fill.
InsertOrphan(k) ==
  /\ \E f \in Orphans(k) :
       /\ hist' = [hist EXCEPT ![k] = @ \ {f}]
       /\ \/ RecordOrphan(f) /\ UNCHANGED boundVars
          \/ Fault /\ UNCHANGED dbVars
  /\ Goto(k, "orphans", "orphans")
  /\ UNCHANGED <<now, lock, exchVars, callVars, todo, matched, known>>

FinishReconcile(k) ==
  /\ Orphans(k) = {}
  /\ Goto(k, "orphans", "unlock")
  /\ hist' = [hist EXCEPT ![k] = {}]
  /\ matched' = [matched EXCEPT ![k] = {}]
  /\ known' = [known EXCEPT ![k] = {}]
  /\ UNCHANGED <<now, lock, dbVars, exchVars, callVars, todo, boundVars>>

ReconcileStep(k) ==
  \/ AcquireLock(k, "fetch") \/ FetchHistory(k) \/ ReadPending(k)
  \/ ResolvePending(k) \/ ReadKnown(k) \/ InsertOrphan(k) \/ FinishReconcile(k)
  \/ ReleaseLock(k, "idle")

-----------------------------------------------------------------------------
(* SetHalted. *)

WriteHalted(o) ==
  /\ Goto(o, "set", "unlock")
  /\ \E h \in BOOLEAN : halted' = h
  /\ UNCHANGED <<now, lock, cash, rejectCount, fillCount, rows, exchVars, callVars,
                 recVars, boundVars>>

\* Variant: the flag is written without the agent's lock.
SetHaltedUnlocked(o) ==
  \/ /\ Goto(o, "new", "set")
     /\ UNCHANGED <<now, lock, dbVars, exchVars, callVars, recVars, boundVars>>
  \/ WriteHalted(o) \/ ReleaseLock(o, "done")

SetHalted(o) ==
  \/ /\ Goto(o, "new", "lock")
     /\ UNCHANGED <<now, lock, dbVars, exchVars, callVars, recVars, boundVars>>
  \/ AcquireLock(o, "set") \/ WriteHalted(o) \/ ReleaseLock(o, "done")

-----------------------------------------------------------------------------
(* The environment. *)

\* A process dies with its server and its connections.  A reconciler starts over
\* with the next server; a call or an operator's request is gone.
Crash(p) ==
  /\ pc[p] \notin {"new", "done", "idle"}
  /\ Fault
  /\ lock' = IF lock = p THEN Nobody ELSE lock
  /\ IF p \in Reconcilers
     THEN /\ pc' = [pc EXCEPT ![p] = "idle"]
          /\ hist' = [hist EXCEPT ![p] = {}] /\ todo' = [todo EXCEPT ![p] = {}]
          /\ matched' = [matched EXCEPT ![p] = {}] /\ known' = [known EXCEPT ![p] = {}]
     ELSE /\ pc' = [pc EXCEPT ![p] = "done"]
          /\ UNCHANGED recVars
  /\ UNCHANGED <<now, dbVars, exchVars, callVars>>

\* Past the bound LastArrival time stands still until every call that arrived has
\* inserted its row or ended, so that every row can grow stale before MaxNow.
Tick ==
  /\ now < MaxNow
  /\ now >= LastArrival => \A r \in Requests : pc[r] \notin {"lock", "check", "gates"}
  /\ now' = now + 1
  /\ UNCHANGED <<lock, dbVars, exchVars, pc, callVars, recVars, boundVars>>

-----------------------------------------------------------------------------

Init ==
  /\ now = 0 /\ lock = Nobody
  /\ cash = InitialCash /\ halted = FALSE /\ rejectCount = 0 /\ fillCount = 0
  /\ rows = << >>
  /\ exchCash = ExchangeCash /\ exchQty = [p \in Pairs |-> 0]
  /\ order = [r \in Requests |-> "none"]
  /\ fills = [r \in Requests |-> NoFill]
  /\ pc = [p \in Procs |-> IF p \in Reconcilers THEN "idle" ELSE "new"]
  /\ req = [r \in Requests |-> [pair |-> CHOOSE p \in Pairs : TRUE, side |-> "buy", value |-> 0]]
  /\ seen = [r \in Requests |-> 0]
  /\ amount = [r \in Requests |-> 0]
  /\ verdict = [r \in Requests |-> [g \in Gates |-> "none"]]
  /\ hist = [k \in Reconcilers |-> {}]
  /\ todo = [k \in Reconcilers |-> {}]
  /\ matched = [k \in Reconcilers |-> {}]
  /\ known = [k \in Reconcilers |-> {}]
  /\ faults = 0 /\ lockLosses = 0

Next ==
  \/ \E r \in Requests : SubmitOrder(r) \/ ExecuteOrder(r) \/ RefuseAtExchange(r)
  \/ \E k \in Reconcilers : StartReconcile(k) \/ ReconcileStep(k)
  \/ \E o \in Operators : SetHalted(o)
  \/ \E p \in Procs : Crash(p)
  \/ LoseLock \/ Tick

Spec == Init /\ [][Next]_vars

\* The scheduling the liveness properties assume.  A live process takes its next
\* step; Postgres serves an advisory lock's waiters in turn, so nobody waits for
\* it forever; the exchange settles the orders it received; time passes.  Faults,
\* lost locks and arrivals are never forced.
Fairness ==
  /\ \A r \in Requests :
       /\ WF_vars(\/ CheckOrder(r) \/ (\E g \in Gates : AskGate(r, g)) \/ WriteAhead(r)
                  \/ SendOrder(r) \/ ReceiveAnswer(r) \/ Finalize(r) \/ RefuseOrder(r)
                  \/ ReleaseLock(r, "done"))
       /\ SF_vars(AcquireLock(r, "check"))
       /\ WF_vars(ExecuteOrder(r) \/ RefuseAtExchange(r))
  /\ \A k \in Reconcilers :
       /\ WF_vars(StartReconcile(k))
       /\ SF_vars(AcquireLock(k, "fetch"))
       /\ WF_vars(\/ FetchHistory(k) \/ ReadPending(k) \/ ResolvePending(k) \/ ReadKnown(k)
                  \/ InsertOrphan(k) \/ FinishReconcile(k) \/ ReleaseLock(k, "idle"))
  /\ \A o \in Operators :
       SF_vars(AcquireLock(o, "set")) /\ WF_vars(WriteHalted(o) \/ ReleaseLock(o, "done"))
  /\ WF_vars(Tick)

FairSpec == Spec /\ Fairness

-----------------------------------------------------------------------------
(* Properties. *)

RequestPc == {"new", "lock", "check", "gates", "send", "await", "finalize", "refuse",
              "unlock", "done"}
ReconcilerPc == {"idle", "lock", "fetch", "pending", "resolve", "orphans", "unlock"}
OperatorPc == {"new", "lock", "set", "unlock", "done"}

\* Every variable keeps its type.
TypeOK ==
  /\ now \in Nat
  /\ lock \in Procs \cup {Nobody}
  /\ cash \in Int /\ halted \in BOOLEAN /\ rejectCount \in Nat /\ fillCount \in Nat
  /\ rows \in Seq(Row)
  /\ exchCash \in Nat /\ exchQty \in [Pairs -> Nat]
  /\ order \in [Requests -> {"none", "sent", "filled", "refused"}]
  /\ fills \in [Requests -> [delta : Int, qty : Nat, ts : Nat]]
  /\ pc \in [Procs -> RequestPc \cup ReconcilerPc \cup OperatorPc]
  /\ req \in [Requests -> [pair : Pairs, side : {"buy", "sell"}, value : Nat]]
  /\ seen \in [Requests -> Int] /\ amount \in [Requests -> Nat]
  /\ verdict \in [Requests -> [Gates -> Verdict]]
  /\ hist \in [Reconcilers -> SUBSET Requests]
  /\ todo \in [Reconcilers -> SUBSET Nat]
  /\ matched \in [Reconcilers -> SUBSET Requests]
  /\ known \in [Reconcilers -> SUBSET Requests]
  /\ faults \in Nat /\ lockLosses \in Nat

\* The agent is never overdrawn, even when an execution costs more than the value
\* the cash check saw or two calls passed that check on the same cash.
CashNeverNegative == cash >= 0

\* An exchange fill is booked by one row only, whoever books it: the call, a
\* reconciliation that mistakes it for another call's fill, or one that takes it
\* for an orphan.
FillBookedOnce ==
  \A i, j \in Filled : rows[i].fill = rows[j].fill => i = j

\* The cash once the first n rows are booked, a row that is not filled moving none.
CashAfter[n \in 0..Len(rows)] ==
  IF n = 0 THEN InitialCash ELSE CashAfter[n - 1] + rows[n].delta

\* The agent's state is what the rows say, its cash the sum of what was booked and its
\* counters the rows in that state: the state update and the row change of
\* FinalizeTrade, RecordTrade and RejectPendingTrade never come apart.
StateMatchesRows ==
  /\ cash = CashAfter[Len(rows)]
  /\ fillCount = Cardinality(Filled)
  /\ rejectCount = Cardinality({i \in DOMAIN rows : rows[i].st = "reject"})

\* Whatever the exchange may execute was vetted and is on record: its call has a
\* row, and every configured gate has approved it.  "If DB fails here, we don't
\* call the exchange."
OrdersVettedAndOnRecord ==
  \A r \in Requests : order[r] # "none" =>
    Approved(r) /\ \E i \in DOMAIN rows : rows[i].intent = r

\* A booked or rejected row never changes again, and rows are never removed.
ResolvedRowsAreFinal ==
  [][/\ Len(rows') >= Len(rows)
     /\ \A i \in DOMAIN rows : rows[i].st # "pending" => rows'[i] = rows[i]]_rows

Sends(r) == order[r] = "none" /\ order'[r] = "sent"

\* While locks are not lost no order goes out for a halted agent: "no race window
\* where halt returns but a trade still passes".
HaltStopsOrders == [][\A r \in Requests : Sends(r) => ~halted]_<<order, halted>>

\* While locks are not lost an order goes out on the cash the call has checked.
OrdersUseFreshCash == [][\A r \in Requests : Sends(r) => seen[r] = cash]_<<order, seen, cash>>

\* While locks are not lost, reconciliation does not resolve the row of a call
\* whose order is at the exchange.
InFlightRowsStayPending ==
  \A r \in Requests : pc[r] \in {"send", "await", "finalize", "refuse"} => PendingOf(r)

\* Every fill of the exchange is eventually booked: "the pending record guarantees
\* we never lose a fill".
FillsEventuallyBooked ==
  \A r \in Requests : order[r] = "filled" ~> r \in BookedFills

\* "Reconciliation will find the pending record and resolve it."
PendingEventuallyResolved == \A r \in Requests : PendingOf(r) ~> ~PendingOf(r)

\* The row of r could be booked with a fill that another row already carries.
Shadowed(r) ==
  \E i \in Pending, j \in Filled :
    /\ rows[i].intent = r /\ rows[j].fill # r
    /\ rows[i].pair = rows[j].pair /\ rows[i].side = rows[j].side
    /\ Distance(fills[rows[j].fill].ts, rows[i].ts) <= MatchWindow

\* A pending row is eventually resolved, whether its order was executed, refused
\* or never sent, unless a fill that is already booked looks like its own.
PendingResolvedUnlessShadowed ==
  \A r \in Requests : PendingOf(r) ~> ~PendingOf(r) \/ Shadowed(r)

\* Row i is booked with the fill of its own order, or without anybody's intent.
BookedWithOwn(i) == rows[i].intent \in {rows[i].fill, Nobody}

\* Row i is booked with another order's fill of its market, side and time.
BookedWithLookalike(i) ==
  LET f == rows[i].fill
  IN /\ req[f].pair = rows[i].pair /\ req[f].side = rows[i].side
     /\ Distance(fills[f].ts, rows[i].ts) <= MatchWindow

Ended(r) == pc[r] \in {"unlock", "done"}

\* While locks are not lost, a row is booked with the fill of its own order, so that the
\* params and the evidence beside a fill belong to it, as long as one of the two calls lives:
\* only when both have ended may reconciliation give a row the fill of another order, and
\* then a fill that matchPendingToFill cannot tell from its own.
OwnFillWhileCallsLive ==
  \A i \in Filled :
    \/ BookedWithOwn(i)
    \/ BookedWithLookalike(i) /\ Ended(rows[i].intent) /\ Ended(rows[i].fill)

\* The booked rows as the abstract ledger sees them.
L == INSTANCE Ledger WITH Fill <- Requests,
       booked <- [f \in BookedFills |->
                    rows[CHOOSE i \in Filled : rows[i].fill = f].delta]

\* The servers together implement the ledger.
ImplementsLedger == L!LedgerSpec
=============================================================================
