-------------------------- MODULE TradeLedgerProofs --------------------------
(***************************************************************************)
(* Theorems about TradeLedger, for every number of calls, servers and      *)
(* operators, every amount and every number of faults and lost locks.      *)
(***************************************************************************)
EXTENDS TradeLedger, SequenceTheorems, FiniteSetTheorems, WellFoundedInduction, TLAPS

USE DEF dbVars, exchVars, callVars, recVars, boundVars

-----------------------------------------------------------------------------
(* The inductive invariant. *)

\* Where a call has inserted its pending row and may still resolve it.
InFlightPc == {"send", "await", "finalize", "refuse"}

\* A row carries a fill exactly when it is booked.
RowsCarryFills ==
  \A i \in DOMAIN rows : (rows[i].st = "fill") <=> (rows[i].fill \in Requests)

HasRow(r) == \E i \in DOMAIN rows : rows[i].intent = r

\* A call that may still resolve its row, or has sent its order, is on record and
\* approved.
CallsOnRecord ==
  \A r \in Requests :
    pc[r] \in InFlightPc \/ order[r] # "none" => Approved(r) /\ HasRow(r)

\* A reconciliation only works on rows of the table.
TodoAreRows == \A k \in Reconcilers : todo[k] \subseteq DOMAIN rows

IInv ==
  /\ TypeOK
  /\ RowsCarryFills
  /\ CallsOnRecord
  /\ TodoAreRows
  /\ CashNeverNegative
  /\ FillBookedOnce

-----------------------------------------------------------------------------
(* The statements on the trades table. *)

\* Changing one row of the table to another row keeps the table a table.
LEMMA ChangeRow ==
  ASSUME rows \in Seq(Row), NEW i \in DOMAIN rows, NEW e \in Row
  PROVE  /\ [rows EXCEPT ![i] = e] \in Seq(Row)
         /\ Len([rows EXCEPT ![i] = e]) = Len(rows)
         /\ DOMAIN [rows EXCEPT ![i] = e] = DOMAIN rows
         /\ \A j \in DOMAIN rows : [rows EXCEPT ![i] = e][j] = IF j = i THEN e ELSE rows[j]
BY ExceptSeq, LenProperties

\* Inserting a row gives it the next id and leaves the others alone.
LEMMA InsertRow ==
  ASSUME rows \in Seq(Row), NEW e \in Row
  PROVE  /\ Append(rows, e) \in Seq(Row)
         /\ Len(Append(rows, e)) >= Len(rows)
         /\ DOMAIN Append(rows, e) = DOMAIN rows \cup {Len(rows) + 1}
         /\ Len(rows) + 1 \notin DOMAIN rows
         /\ Append(rows, e)[Len(rows) + 1] = e
         /\ \A j \in DOMAIN rows : Append(rows, e)[j] = rows[j]
BY AppendProperties, LenProperties

\* The statement books one row more, or nothing, and moves the cash accordingly.
BooksAtMostOne ==
  \/ Filled' = Filled /\ cash' = cash
  \/ \E i \in DOMAIN rows' \ Filled :
       /\ Filled' = Filled \cup {i}
       /\ rows'[i].fill \in Requests \ BookedFills
       /\ cash' = cash + rows'[i].delta

\* What every statement does to the agent's row and the trades table.
DBStep ==
  /\ rows' \in Seq(Row)
  /\ cash' \in Int /\ halted' \in BOOLEAN /\ rejectCount' \in Nat /\ fillCount' \in Nat
  /\ DOMAIN rows \subseteq DOMAIN rows' /\ Len(rows') >= Len(rows)
  /\ \A i \in DOMAIN rows : rows'[i].intent = rows[i].intent
  /\ \A i \in DOMAIN rows : rows[i].st # "pending" => rows'[i] = rows[i]
  /\ RowsCarryFills'
  /\ CashNeverNegative'
  /\ FillBookedOnce'
  /\ BooksAtMostOne

\* A change of one pending row into e.
LEMMA ChangePendingRow ==
  ASSUME IInv, NEW i \in DOMAIN rows, NEW e \in Row,
         rows[i].st = "pending", e.intent = rows[i].intent,
         rows' = [rows EXCEPT ![i] = e]
  PROVE  /\ rows' \in Seq(Row)
         /\ DOMAIN rows' = DOMAIN rows /\ Len(rows') = Len(rows)
         /\ \A j \in DOMAIN rows : rows'[j] = IF j = i THEN e ELSE rows[j]
         /\ \A j \in DOMAIN rows : rows'[j].intent = rows[j].intent
         /\ \A j \in DOMAIN rows : rows[j].st # "pending" => rows'[j] = rows[j]
<1>1. rows \in Seq(Row)
  BY DEF IInv, TypeOK
<1>2. /\ rows' \in Seq(Row)
      /\ DOMAIN rows' = DOMAIN rows /\ Len(rows') = Len(rows)
      /\ \A j \in DOMAIN rows : rows'[j] = IF j = i THEN e ELSE rows[j]
  BY <1>1, ChangeRow
<1>3. QED BY <1>2

\* Nothing is booked when no row becomes or ceases to be a filled one.
LEMMA BooksNothing ==
  ASSUME IInv, cash' = cash, DOMAIN rows \subseteq DOMAIN rows',
         \A j \in DOMAIN rows : rows[j].st = "fill" => rows'[j] = rows[j],
         \A j \in DOMAIN rows' : rows'[j].st = "fill" => j \in Filled
  PROVE  CashNeverNegative' /\ FillBookedOnce' /\ BooksAtMostOne
<1>1. Filled' = Filled /\ \A j \in Filled : rows'[j] = rows[j]
  BY DEF Filled
<1>2. FillBookedOnce'
  BY <1>1 DEF FillBookedOnce, IInv
<1>3. QED BY <1>1, <1>2 DEF BooksAtMostOne, CashNeverNegative, IInv

\* One row becomes a filled one, with a fill that is not booked yet and whose cash
\* movement the account can bear.
LEMMA BooksOne ==
  ASSUME IInv, NEW f \in Requests, Bookable(f), NEW n \in DOMAIN rows' \ Filled,
         cash' = cash + fills[f].delta, DOMAIN rows \subseteq DOMAIN rows',
         \A j \in DOMAIN rows : j # n => rows'[j] = rows[j],
         \A j \in DOMAIN rows' : j \in DOMAIN rows \/ j = n,
         rows'[n].st = "fill", rows'[n].fill = f, rows'[n].delta = fills[f].delta
  PROVE  CashNeverNegative' /\ FillBookedOnce' /\ BooksAtMostOne
<1>1. Filled' = Filled \cup {n} /\ \A j \in Filled : rows'[j] = rows[j]
  BY DEF Filled
<1>2. f \notin BookedFills /\ \A j \in Filled : rows[j].fill # f
  BY DEF Bookable, BookedFills
<1>3. FillBookedOnce'
  BY <1>1, <1>2 DEF FillBookedOnce, IInv
<1>4. CashNeverNegative'
  BY DEF CashNeverNegative, Bookable
<1>5. QED BY <1>1, <1>2, <1>3, <1>4 DEF BooksAtMostOne

LEMMA IdleStep ==
  ASSUME IInv, UNCHANGED dbVars
  PROVE  DBStep
<1>1. rows \in Seq(Row) /\ Len(rows) \in Nat
  BY LenProperties DEF IInv, TypeOK
<1>2. CashNeverNegative' /\ FillBookedOnce' /\ BooksAtMostOne
  BY BooksNothing DEF Filled
<1>3. QED BY <1>1, <1>2 DEF IInv, TypeOK, DBStep, RowsCarryFills

LEMMA RejectStep ==
  ASSUME IInv, NEW i \in DOMAIN rows, RejectPendingTrade(i)
  PROVE  DBStep
<1>1. CASE rows[i].st # "pending"
  <2>1. UNCHANGED dbVars
    BY <1>1 DEF RejectPendingTrade
  <2>2. QED BY <2>1, IdleStep
<1>2. CASE rows[i].st = "pending"
  <2> DEFINE e == [rows[i] EXCEPT !.st = "reject"]
  <2>1. rows \in Seq(Row) /\ rows[i] \in Row /\ Len(rows) \in Nat
    BY ElementOfSeq, LenProperties DEF IInv, TypeOK
  <2>2. e \in Row /\ e.intent = rows[i].intent /\ e.st = "reject" /\ e.fill = rows[i].fill
    BY <2>1 DEF Row, RowStatus
  <2>3. rows' = [rows EXCEPT ![i] = e] /\ rejectCount' = rejectCount + 1
        /\ UNCHANGED <<cash, halted, fillCount>>
    BY <1>2 DEF RejectPendingTrade
  <2> HIDE DEF e
  <2>4. /\ rows' \in Seq(Row) /\ DOMAIN rows' = DOMAIN rows /\ Len(rows') = Len(rows)
        /\ \A j \in DOMAIN rows : rows'[j] = IF j = i THEN e ELSE rows[j]
        /\ \A j \in DOMAIN rows : rows'[j].intent = rows[j].intent
        /\ \A j \in DOMAIN rows : rows[j].st # "pending" => rows'[j] = rows[j]
    BY <1>2, <2>2, <2>3, ChangePendingRow
  <2>5. RowsCarryFills'
    BY <1>2, <2>2, <2>4 DEF RowsCarryFills, IInv
  <2>6. CashNeverNegative' /\ FillBookedOnce' /\ BooksAtMostOne
    BY <2>2, <2>3, <2>4, BooksNothing DEF Filled
  <2>7. cash' \in Int /\ halted' \in BOOLEAN /\ rejectCount' \in Nat /\ fillCount' \in Nat
    BY <2>3 DEF IInv, TypeOK
  <2>8. QED
    BY <2>1, <2>4, <2>5, <2>6, <2>7 DEF DBStep
<1>3. QED BY <1>1, <1>2

LEMMA FinalizeStep ==
  ASSUME IInv, NEW i \in DOMAIN rows, NEW f \in Requests, FinalizeTrade(i, f)
  PROVE  DBStep
<1>1. CASE ~(rows[i].st = "pending" /\ Bookable(f))
  <2>1. UNCHANGED dbVars
    BY <1>1 DEF FinalizeTrade
  <2>2. QED BY <2>1, IdleStep
<1>2. CASE rows[i].st = "pending" /\ Bookable(f)
  <2> DEFINE e == [rows[i] EXCEPT !.st = "fill", !.fill = f,
                                  !.delta = fills[f].delta, !.qty = fills[f].qty]
  <2>1. /\ rows \in Seq(Row) /\ rows[i] \in Row /\ Len(rows) \in Nat
        /\ fills[f].delta \in Int /\ fills[f].qty \in Nat
    BY ElementOfSeq, LenProperties DEF IInv, TypeOK
  <2>2. /\ e \in Row /\ e.intent = rows[i].intent /\ e.st = "fill" /\ e.fill = f
        /\ e.delta = fills[f].delta
    BY <2>1 DEF Row, RowStatus
  <2>3. /\ rows' = [rows EXCEPT ![i] = e] /\ cash' = cash + fills[f].delta
        /\ fillCount' = fillCount + 1 /\ UNCHANGED <<halted, rejectCount>>
    BY <1>2 DEF FinalizeTrade
  <2> HIDE DEF e
  <2>4. /\ rows' \in Seq(Row) /\ DOMAIN rows' = DOMAIN rows /\ Len(rows') = Len(rows)
        /\ \A j \in DOMAIN rows : rows'[j] = IF j = i THEN e ELSE rows[j]
        /\ \A j \in DOMAIN rows : rows'[j].intent = rows[j].intent
        /\ \A j \in DOMAIN rows : rows[j].st # "pending" => rows'[j] = rows[j]
    BY <1>2, <2>2, <2>3, ChangePendingRow
  <2>5. RowsCarryFills'
    BY <2>2, <2>4 DEF RowsCarryFills, IInv
  <2>6. i \in DOMAIN rows' \ Filled
    BY <1>2, <2>4 DEF Filled
  <2>7. CashNeverNegative' /\ FillBookedOnce' /\ BooksAtMostOne
    BY <1>2, <2>2, <2>3, <2>4, <2>6, BooksOne
  <2>8. cash' \in Int /\ halted' \in BOOLEAN /\ rejectCount' \in Nat /\ fillCount' \in Nat
    <3>1. cash \in Int /\ halted \in BOOLEAN /\ rejectCount \in Nat /\ fillCount \in Nat
      BY DEF IInv, TypeOK
    <3>2. QED BY <2>1, <2>3, <3>1
  <2>9. QED
    BY <2>1, <2>4, <2>5, <2>7, <2>8 DEF DBStep
<1>3. QED BY <1>1, <1>2

LEMMA OrphanStep ==
  ASSUME IInv, NEW f \in Requests, RecordOrphan(f)
  PROVE  DBStep
<1>1. CASE ~Bookable(f)
  <2>1. UNCHANGED dbVars
    BY <1>1 DEF RecordOrphan
  <2>2. QED BY <2>1, IdleStep
<1>2. CASE Bookable(f)
  <2> DEFINE e == [st |-> "fill", pair |-> req[f].pair, side |-> req[f].side,
                   ts |-> fills[f].ts, intent |-> Nobody, fill |-> f,
                   delta |-> fills[f].delta, qty |-> fills[f].qty]
  <2>1. /\ rows \in Seq(Row) /\ Len(rows) \in Nat
        /\ req[f].pair \in Pairs /\ req[f].side \in {"buy", "sell"} /\ fills[f].ts \in Nat
        /\ fills[f].delta \in Int /\ fills[f].qty \in Nat
    BY LenProperties DEF IInv, TypeOK
  <2>2. e \in Row /\ e.st = "fill" /\ e.fill = f /\ e.delta = fills[f].delta
    BY <2>1 DEF Row, RowStatus
  <2>3. /\ rows' = Append(rows, e) /\ cash' = cash + fills[f].delta
        /\ fillCount' = fillCount + 1 /\ UNCHANGED <<halted, rejectCount>>
    BY <1>2 DEF RecordOrphan
  <2> HIDE DEF e
  <2> DEFINE n == Len(rows) + 1
  <2>4. /\ rows' \in Seq(Row) /\ DOMAIN rows' = DOMAIN rows \cup {n} /\ n \notin DOMAIN rows
        /\ Len(rows') >= Len(rows)
        /\ rows'[n] = e /\ \A j \in DOMAIN rows : rows'[j] = rows[j]
    BY <2>1, <2>2, <2>3, InsertRow
  <2> HIDE DEF n
  <2>5. RowsCarryFills'
    BY <2>2, <2>4 DEF RowsCarryFills, IInv
  <2>6. n \in DOMAIN rows' \ Filled
    BY <2>4 DEF Filled
  <2>7. CashNeverNegative' /\ FillBookedOnce' /\ BooksAtMostOne
    BY <1>2, <2>2, <2>3, <2>4, <2>6, BooksOne
  <2>8. cash' \in Int /\ halted' \in BOOLEAN /\ rejectCount' \in Nat /\ fillCount' \in Nat
    <3>1. cash \in Int /\ halted \in BOOLEAN /\ rejectCount \in Nat /\ fillCount \in Nat
      BY DEF IInv, TypeOK
    <3>2. QED BY <2>1, <2>3, <3>1
  <2>9. QED
    BY <2>4, <2>5, <2>7, <2>8 DEF DBStep
<1>3. QED BY <1>1, <1>2

\* Inserting the pending or the rejected row of a call books nothing.
LEMMA InsertStep ==
  ASSUME IInv, NEW r \in Requests, NEW st \in {"pending", "reject"},
         rows' = Append(rows, NewRow(r, st)),
         cash' = cash, halted' = halted, fillCount' = fillCount, rejectCount' \in Nat
  PROVE  DBStep /\ HasRow(r)'
<1> DEFINE e == NewRow(r, st)
<1>1. rows \in Seq(Row) /\ Len(rows) \in Nat
  BY LenProperties DEF IInv, TypeOK
<1>2. e \in Row /\ e.st = st /\ e.fill \notin Requests /\ e.intent = r
  <2>1. req[r].pair \in Pairs /\ req[r].side \in {"buy", "sell"} /\ now \in Nat
    BY DEF IInv, TypeOK
  <2>2. Nobody \notin Requests
    BY ProcessesAssumption DEF Procs
  <2>3. QED BY <2>1, <2>2 DEF Row, RowStatus, NewRow
<1> HIDE DEF e
<1> DEFINE n == Len(rows) + 1
<1>3. /\ rows' \in Seq(Row) /\ DOMAIN rows' = DOMAIN rows \cup {n} /\ n \notin DOMAIN rows
      /\ Len(rows') >= Len(rows)
      /\ rows'[n] = e /\ \A j \in DOMAIN rows : rows'[j] = rows[j]
  BY <1>1, <1>2, InsertRow DEF e
<1> HIDE DEF n
<1>4. RowsCarryFills'
  BY <1>2, <1>3 DEF RowsCarryFills, IInv
<1>5. CashNeverNegative' /\ FillBookedOnce' /\ BooksAtMostOne
  BY <1>2, <1>3, BooksNothing DEF Filled
<1>6. cash' \in Int /\ halted' \in BOOLEAN /\ fillCount' \in Nat
  BY DEF IInv, TypeOK
<1>7. HasRow(r)'
  BY <1>2, <1>3 DEF HasRow
<1>8. QED
  BY <1>1, <1>3, <1>4, <1>5, <1>6, <1>7 DEF DBStep

LEMMA RecordRejectedStep ==
  ASSUME IInv, NEW r \in Requests, RecordRejected(r)
  PROVE  DBStep /\ faults' \in Nat /\ lockLosses' \in Nat
<1>1. CASE rows' = Append(rows, NewRow(r, "reject")) /\ rejectCount' = rejectCount + 1
           /\ UNCHANGED <<cash, halted, fillCount, boundVars>>
  BY <1>1, InsertStep, SMTT(60) DEF IInv, TypeOK
<1>2. CASE Fault /\ UNCHANGED dbVars
  BY <1>2, IdleStep DEF IInv, TypeOK, Fault
<1>3. QED BY <1>1, <1>2 DEF RecordRejected

-----------------------------------------------------------------------------
(* Steps of processes. *)

PcValues == RequestPc \cup ReconcilerPc \cup OperatorPc

LEMMA GotoStep ==
  ASSUME TypeOK, NEW p \in Procs, NEW from, NEW to \in PcValues, Goto(p, from, to)
  PROVE  /\ pc' \in [Procs -> PcValues]
         /\ pc[p] = from /\ pc'[p] = to
         /\ \A q \in Procs : q # p => pc'[q] = pc[q]
BY DEF TypeOK, Goto, PcValues

\* The calls' part of the invariant survives a step that leaves the orders and the
\* verdicts alone and brings no call into InFlightPc.
LEMMA CallsStayOnRecord ==
  ASSUME IInv, DBStep, order' = order, verdict' = verdict,
         \A r \in Requests : pc'[r] \in InFlightPc => pc[r] \in InFlightPc
  PROVE  CallsOnRecord'
<1>1. \A r \in Requests : HasRow(r) => HasRow(r)'
  BY DEF HasRow, DBStep
<1>2. \A r \in Requests : Approved(r) => Approved(r)'
  BY DEF Approved
<1>3. QED BY <1>1, <1>2 DEF CallsOnRecord, IInv

LEMMA TodoStayRows ==
  ASSUME IInv, DBStep, \A k \in Reconcilers : todo'[k] \subseteq todo[k]
  PROVE  TodoAreRows'
BY DEF IInv, DBStep, TodoAreRows

LEMMA AssembleIInv ==
  ASSUME DBStep, TypeOK', CallsOnRecord', TodoAreRows'
  PROVE  IInv'
BY DEF IInv, DBStep

\* Acquiring and releasing the lock.
LEMMA LockStep ==
  ASSUME IInv, NEW p \in Procs, NEW next \in PcValues \ InFlightPc,
         AcquireLock(p, next) \/ ReleaseLock(p, next)
  PROVE  IInv' /\ DBStep
<1> USE DEF AcquireLock, ReleaseLock
<1>1. DBStep
  BY IdleStep
<1>2. /\ pc' \in [Procs -> PcValues]
      /\ pc'[p] = next /\ \A q \in Procs : q # p => pc'[q] = pc[q]
  BY GotoStep DEF IInv
<1>3. lock' \in Procs \cup {Nobody}
  BY DEF IInv, TypeOK
<1>4. TypeOK'
  BY <1>2, <1>3 DEF IInv, TypeOK, PcValues
<1>5. CallsOnRecord'
  BY <1>1, <1>2, CallsStayOnRecord DEF Procs
<1>6. TodoAreRows'
  BY <1>1, TodoStayRows
<1>7. QED BY <1>1, <1>4, <1>5, <1>6, AssembleIInv

-----------------------------------------------------------------------------
(* submit_order. *)

LEMMA SubmitStep ==
  ASSUME IInv, NEW r \in Requests, Submit(r)
  PROVE  IInv' /\ DBStep
<1> USE DEF Submit
<1>1. DBStep
  BY IdleStep
<1>2. /\ pc' \in [Procs -> PcValues]
      /\ pc'[r] = "lock" /\ \A q \in Procs : q # r => pc'[q] = pc[q]
  BY GotoStep DEF IInv, PcValues, RequestPc, Procs
<1>3. req' \in [Requests -> [pair : Pairs, side : {"buy", "sell"}, value : Nat]]
  <2>1. PICK p \in Pairs, s \in Sides, v \in Values :
          req' = [req EXCEPT ![r] = [pair |-> p, side |-> s, value |-> v]]
    OBVIOUS
  <2>2. [pair |-> p, side |-> s, value |-> v] \in [pair : Pairs, side : {"buy", "sell"}, value : Nat]
    BY AmountsAssumption, ParametersAssumption
  <2>3. QED BY <2>1, <2>2 DEF IInv, TypeOK
<1>4. TypeOK'
  BY <1>2, <1>3 DEF IInv, TypeOK, PcValues
<1>5. CallsOnRecord'
  BY <1>1, <1>2, CallsStayOnRecord DEF Procs, InFlightPc
<1>6. TodoAreRows'
  BY <1>1, TodoStayRows
<1>7. QED BY <1>1, <1>4, <1>5, <1>6, AssembleIInv

LEMMA CheckOrderStep ==
  ASSUME IInv, NEW r \in Requests, CheckOrder(r)
  PROVE  IInv' /\ DBStep
<1>1. PICK a \in 0..req[r].value :
        /\ amount' = [amount EXCEPT ![r] = a]
        /\ \/ Goto(r, "check", "gates") /\ UNCHANGED <<dbVars, boundVars>>
           \/ Goto(r, "check", "unlock") /\ RecordRejected(r)
  BY DEF CheckOrder
<1>2. /\ seen' = [seen EXCEPT ![r] = cash]
      /\ UNCHANGED <<now, lock, exchVars, req, verdict, recVars>>
  BY DEF CheckOrder
<1>3. DBStep /\ faults' \in Nat /\ lockLosses' \in Nat
  BY <1>1, IdleStep, RecordRejectedStep DEF IInv, TypeOK
<1>4. /\ pc' \in [Procs -> PcValues]
      /\ pc'[r] \notin InFlightPc /\ \A q \in Procs : q # r => pc'[q] = pc[q]
  BY <1>1, GotoStep DEF IInv, PcValues, RequestPc, Procs, InFlightPc
<1>5. amount' \in [Requests -> Nat] /\ seen' \in [Requests -> Int]
  <2>1. amount \in [Requests -> Nat] /\ seen \in [Requests -> Int] /\ cash \in Int
        /\ req[r].value \in Nat
    BY DEF IInv, TypeOK
  <2>2. a \in Nat
    BY <2>1
  <2>3. QED BY <1>1, <1>2, <2>1, <2>2
<1>6. TypeOK'
  BY <1>2, <1>3, <1>4, <1>5 DEF IInv, TypeOK, PcValues, DBStep
<1>7. CallsOnRecord'
  BY <1>2, <1>3, <1>4, CallsStayOnRecord DEF Procs
<1>8. TodoAreRows'
  BY <1>2, <1>3, TodoStayRows
<1>9. QED BY <1>3, <1>6, <1>7, <1>8, AssembleIInv

\* A verdict is given once: a call that is already approved is asked nothing more.
LEMMA AskGateStep ==
  ASSUME IInv, NEW r \in Requests, NEW g \in Gates, AskGate(r, g)
  PROVE  IInv' /\ DBStep
<1>1. PICK v \in Verdict \ {"none"} :
        /\ verdict' = [verdict EXCEPT ![r][g] = v]
        /\ \/ Goto(r, "gates", "gates") /\ UNCHANGED <<dbVars, boundVars>>
           \/ Goto(r, "gates", "unlock") /\ RecordRejected(r)
  BY DEF AskGate
<1>2. UNCHANGED <<now, lock, exchVars, req, seen, amount, recVars>> /\ verdict[r][g] = "none"
  BY DEF AskGate
<1>3. DBStep /\ faults' \in Nat /\ lockLosses' \in Nat
  BY <1>1, IdleStep, RecordRejectedStep DEF IInv, TypeOK
<1>4. /\ pc' \in [Procs -> PcValues]
      /\ pc'[r] \notin InFlightPc /\ \A q \in Procs : q # r => pc'[q] = pc[q]
  BY <1>1, GotoStep DEF IInv, PcValues, RequestPc, Procs, InFlightPc
<1>5. /\ verdict' \in [Requests -> [Gates -> Verdict]]
      /\ \A q \in Requests : q # r => verdict'[q] = verdict[q]
  BY <1>1 DEF IInv, TypeOK
<1>6. TypeOK'
  BY <1>2, <1>3, <1>4, <1>5 DEF IInv, TypeOK, PcValues, DBStep
<1>7. CallsOnRecord'
  <2>1. ~Approved(r)
    BY <1>2 DEF Approved
  <2>2. \A q \in Requests : HasRow(q) => HasRow(q)'
    BY <1>3 DEF HasRow, DBStep
  <2>3. \A q \in Requests : Approved(q) => Approved(q)'
    BY <1>5, <2>1 DEF Approved
  <2>4. QED
    BY <1>2, <1>4, <2>2, <2>3 DEF CallsOnRecord, IInv, Procs
<1>8. TodoAreRows'
  BY <1>2, <1>3, TodoStayRows
<1>9. QED BY <1>3, <1>6, <1>7, <1>8, AssembleIInv

LEMMA WriteAheadStep ==
  ASSUME IInv, NEW r \in Requests, WriteAhead(r)
  PROVE  IInv' /\ DBStep
<1>1. Approved(r) /\ UNCHANGED <<now, lock, exchVars, callVars, recVars>>
  BY DEF WriteAhead
<1>2. /\ DBStep /\ faults' \in Nat /\ lockLosses' \in Nat
      /\ pc' \in [Procs -> PcValues]
      /\ pc'[r] \in InFlightPc => HasRow(r)'
      /\ \A q \in Procs : q # r => pc'[q] = pc[q]
  <2>1. CASE /\ Goto(r, "gates", "send")
             /\ rows' = Append(rows, NewRow(r, "pending"))
             /\ UNCHANGED <<cash, halted, rejectCount, fillCount, boundVars>>
    <3>1. rejectCount' \in Nat /\ faults' \in Nat /\ lockLosses' \in Nat
      BY <2>1 DEF IInv, TypeOK
    <3>2. DBStep /\ HasRow(r)'
      BY <2>1, <3>1, InsertStep
    <3>3. QED BY <2>1, <3>1, <3>2, GotoStep DEF IInv, PcValues, RequestPc, Procs
  <2>2. CASE Goto(r, "gates", "unlock") /\ Fault /\ UNCHANGED dbVars
    <3>1. DBStep /\ faults' \in Nat /\ lockLosses' \in Nat
      BY <2>2, IdleStep, SMTT(60) DEF IInv, TypeOK, Fault
    <3>2. QED BY <2>2, <3>1, GotoStep, SMTT(60) DEF IInv, PcValues, RequestPc, Procs, InFlightPc
  <2>3. QED BY <2>1, <2>2 DEF WriteAhead
<1>3. TypeOK'
  BY <1>1, <1>2 DEF IInv, TypeOK, PcValues, DBStep
<1>4. CallsOnRecord'
  <2>1. \A q \in Requests : HasRow(q) => HasRow(q)'
    BY <1>2 DEF HasRow, DBStep
  <2>2. \A q \in Requests : Approved(q) => Approved(q)'
    BY <1>1 DEF Approved
  <2>3. QED
    BY <1>1, <1>2, <2>1, <2>2 DEF CallsOnRecord, IInv, Procs
<1>5. TodoAreRows'
  BY <1>1, <1>2, TodoStayRows
<1>6. QED BY <1>2, <1>3, <1>4, <1>5, AssembleIInv

LEMMA SendOrderStep ==
  ASSUME IInv, NEW r \in Requests, SendOrder(r)
  PROVE  IInv' /\ DBStep
<1> USE DEF SendOrder
<1>1. DBStep
  BY IdleStep
<1>2. /\ pc' \in [Procs -> PcValues] /\ pc[r] = "send"
      /\ \A q \in Procs : q # r => pc'[q] = pc[q]
  BY GotoStep DEF IInv, PcValues, RequestPc, Procs
<1>3. /\ order' \in [Requests -> {"none", "sent", "filled", "refused"}]
      /\ \A q \in Requests : q # r => order'[q] = order[q]
  BY DEF IInv, TypeOK
<1>4. TypeOK'
  BY <1>2, <1>3 DEF IInv, TypeOK, PcValues
<1>5. CallsOnRecord'
  BY <1>2, <1>3 DEF CallsOnRecord, IInv, Procs, InFlightPc, HasRow, Approved
<1>6. TodoAreRows'
  BY <1>1, TodoStayRows
<1>7. QED BY <1>1, <1>4, <1>5, <1>6, AssembleIInv

LEMMA ReceiveAnswerStep ==
  ASSUME IInv, NEW r \in Requests, ReceiveAnswer(r)
  PROVE  IInv' /\ DBStep
<1> USE DEF ReceiveAnswer
<1>1. DBStep
  BY IdleStep
<1>2. faults' \in Nat /\ lockLosses' \in Nat
  BY DEF IInv, TypeOK, Fault
<1>3. /\ pc' \in [Procs -> PcValues] /\ pc[r] = "await"
      /\ \A q \in Procs : q # r => pc'[q] = pc[q]
  BY GotoStep DEF IInv, PcValues, RequestPc, Procs
<1>4. TypeOK'
  BY <1>2, <1>3 DEF IInv, TypeOK, PcValues
<1>5. CallsOnRecord'
  BY <1>1, <1>3, CallsStayOnRecord DEF Procs, InFlightPc
<1>6. TodoAreRows'
  BY <1>1, TodoStayRows
<1>7. QED BY <1>1, <1>4, <1>5, <1>6, AssembleIInv

LEMMA RowOfIsRow ==
  ASSUME IInv, NEW r \in Requests, pc[r] \in InFlightPc
  PROVE  RowOf(r) \in DOMAIN rows /\ rows[RowOf(r)].intent = r
BY DEF IInv, CallsOnRecord, HasRow, RowOf

\* Finalize and RefuseOrder.
LEMMA SettleStep ==
  ASSUME IInv, NEW r \in Requests, Finalize(r) \/ RefuseOrder(r)
  PROVE  IInv' /\ DBStep
<1>1. /\ Goto(r, "finalize", "unlock") \/ Goto(r, "refuse", "unlock")
      /\ UNCHANGED <<now, lock, exchVars, callVars, recVars>>
  BY DEF Finalize, RefuseOrder
<1>2. RowOf(r) \in DOMAIN rows
  BY <1>1, RowOfIsRow DEF Goto, InFlightPc
<1>3. DBStep /\ faults' \in Nat /\ lockLosses' \in Nat
  <2>1. CASE UNCHANGED boundVars /\ (FinalizeTrade(RowOf(r), r) \/ RejectPendingTrade(RowOf(r)))
    BY <1>2, <2>1, FinalizeStep, RejectStep DEF IInv, TypeOK
  <2>2. CASE Fault /\ UNCHANGED dbVars
    BY <2>2, IdleStep DEF IInv, TypeOK, Fault
  <2>3. QED BY <2>1, <2>2 DEF Finalize, RefuseOrder
<1>4. /\ pc' \in [Procs -> PcValues]
      /\ pc'[r] \notin InFlightPc /\ \A q \in Procs : q # r => pc'[q] = pc[q]
  BY <1>1, GotoStep DEF IInv, PcValues, RequestPc, Procs, InFlightPc
<1>5. TypeOK'
  BY <1>1, <1>3, <1>4 DEF IInv, TypeOK, PcValues, DBStep
<1>6. CallsOnRecord'
  BY <1>1, <1>3, <1>4, CallsStayOnRecord DEF Procs
<1>7. TodoAreRows'
  BY <1>1, <1>3, TodoStayRows
<1>8. QED BY <1>3, <1>5, <1>6, <1>7, AssembleIInv

LEMMA SubmitOrderStep ==
  ASSUME IInv, NEW r \in Requests, SubmitOrder(r)
  PROVE  IInv' /\ DBStep
<1>1. CASE AcquireLock(r, "check") \/ ReleaseLock(r, "done")
  BY <1>1, LockStep DEF Procs, PcValues, RequestPc, InFlightPc
<1>2. QED
  BY <1>1, SubmitStep, CheckOrderStep, AskGateStep, WriteAheadStep, SendOrderStep,
     ReceiveAnswerStep, SettleStep DEF SubmitOrder

-----------------------------------------------------------------------------
(* The exchange. *)

\* The exchange only answers orders that were sent.
LEMMA AnswerOnRecord ==
  ASSUME IInv, NEW r \in Requests, NEW answer, order[r] = "sent",
         order' = [order EXCEPT ![r] = answer], UNCHANGED <<rows, pc, verdict>>
  PROVE  CallsOnRecord'
<1>1. \A q \in Requests : order'[q] # "none" => order[q] # "none"
  BY DEF IInv, TypeOK
<1>2. \A q \in Requests : (Approved(q) => Approved(q)') /\ (HasRow(q) => HasRow(q)')
  BY DEF Approved, HasRow
<1>3. QED BY <1>1, <1>2 DEF CallsOnRecord, IInv

LEMMA ExecuteOrderStep ==
  ASSUME IInv, NEW r \in Requests, ExecuteOrder(r)
  PROVE  IInv' /\ DBStep
<1>1. /\ UNCHANGED <<now, lock, dbVars, pc, callVars, recVars, boundVars>>
      /\ order' = [order EXCEPT ![r] = "filled"] /\ order[r] = "sent"
  BY DEF ExecuteOrder
<1>2. DBStep
  BY <1>1, IdleStep
<1>3. /\ exchCash' \in Nat /\ exchQty' \in [Pairs -> Nat]
      /\ fills' \in [Requests -> [delta : Int, qty : Nat, ts : Nat]]
  <2> DEFINE p == req[r].pair
             a == amount[r]
  <2>1. /\ p \in Pairs /\ a \in Nat /\ now \in Nat /\ exchCash \in Nat
        /\ exchQty \in [Pairs -> Nat]
        /\ fills \in [Requests -> [delta : Int, qty : Nat, ts : Nat]]
    BY DEF IInv, TypeOK
  <2>2. PICK s \in Slippages :
          \/ /\ a + s \in 1..exchCash
             /\ exchCash' = exchCash - (a + s)
             /\ exchQty' = [exchQty EXCEPT ![p] = @ + a]
             /\ fills' = [fills EXCEPT ![r] = [delta |-> -(a + s), qty |-> a, ts |-> now]]
          \/ /\ a <= exchQty[p] /\ a + s > 0
             /\ exchCash' = exchCash + a + s
             /\ exchQty' = [exchQty EXCEPT ![p] = @ - a]
             /\ fills' = [fills EXCEPT ![r] = [delta |-> a + s, qty |-> a, ts |-> now]]
    BY DEF ExecuteOrder
  <2>3. s \in Int
    BY AmountsAssumption
  <2> HIDE DEF p, a
  <2>4. /\ exchQty[p] \in Nat
        /\ [delta |-> -(a + s), qty |-> a, ts |-> now] \in [delta : Int, qty : Nat, ts : Nat]
        /\ [delta |-> a + s, qty |-> a, ts |-> now] \in [delta : Int, qty : Nat, ts : Nat]
    BY <2>1, <2>3
  <2>5. exchCash' \in Nat
    BY <2>1, <2>2, <2>3
  <2>6. exchQty' \in [Pairs -> Nat]
    BY <2>1, <2>2, <2>4
  <2>7. fills' \in [Requests -> [delta : Int, qty : Nat, ts : Nat]]
    BY <2>1, <2>2, <2>4
  <2>8. QED BY <2>5, <2>6, <2>7
<1>4. order' \in [Requests -> {"none", "sent", "filled", "refused"}]
  BY <1>1 DEF IInv, TypeOK
<1>5. TypeOK'
  BY <1>1, <1>3, <1>4 DEF IInv, TypeOK
<1>6. CallsOnRecord'
  BY <1>1, AnswerOnRecord
<1>7. TodoAreRows'
  BY <1>1, <1>2, TodoStayRows
<1>8. QED BY <1>2, <1>5, <1>6, <1>7, AssembleIInv

LEMMA RefuseAtExchangeStep ==
  ASSUME IInv, NEW r \in Requests, RefuseAtExchange(r)
  PROVE  IInv' /\ DBStep
<1> USE DEF RefuseAtExchange
<1>1. DBStep
  BY IdleStep
<1>2. TypeOK'
  BY DEF IInv, TypeOK
<1>3. CallsOnRecord'
  BY AnswerOnRecord
<1>4. TodoAreRows'
  BY <1>1, TodoStayRows
<1>5. QED BY <1>1, <1>2, <1>3, <1>4, AssembleIInv

-----------------------------------------------------------------------------
(* Reconciliation. *)

\* The shape every step of a reconciliation has.
LEMMA ReconcilerFrame ==
  ASSUME IInv, DBStep, NEW k \in Reconcilers,
         NEW from, NEW to \in PcValues \ InFlightPc, Goto(k, from, to),
         UNCHANGED <<now, lock, exchVars, callVars>>,
         faults' \in Nat, lockLosses' \in Nat,
         hist' \in [Reconcilers -> SUBSET Requests],
         todo' \in [Reconcilers -> SUBSET Nat], TodoAreRows',
         matched' \in [Reconcilers -> SUBSET Requests],
         known' \in [Reconcilers -> SUBSET Requests]
  PROVE  IInv'
<1>1. /\ pc' \in [Procs -> PcValues]
      /\ pc'[k] = to /\ \A q \in Procs : q # k => pc'[q] = pc[q]
  BY GotoStep DEF IInv, Procs
<1>2. TypeOK'
  BY <1>1 DEF IInv, TypeOK, PcValues, DBStep
<1>3. CallsOnRecord'
  BY <1>1, CallsStayOnRecord DEF Procs
<1>4. QED BY <1>2, <1>3, AssembleIInv

LEMMA ReconcilerPcs ==
  ReconcilerPc \subseteq PcValues \ InFlightPc
BY DEF ReconcilerPc, PcValues, InFlightPc

LEMMA StartReconcileStep ==
  ASSUME IInv, NEW k \in Reconcilers, StartReconcile(k)
  PROVE  IInv' /\ DBStep
<1> USE DEF StartReconcile
<1>1. DBStep
  BY IdleStep
<1>2. TodoAreRows'
  BY <1>1, TodoStayRows
<1>3. IInv'
  BY <1>1, <1>2, ReconcilerFrame, ReconcilerPcs DEF IInv, TypeOK, ReconcilerPc
<1>4. QED BY <1>1, <1>3

LEMMA FetchHistoryStep ==
  ASSUME IInv, NEW k \in Reconcilers, FetchHistory(k)
  PROVE  IInv' /\ DBStep
<1>1. PICK ok \in SUBSET Pairs :
        /\ UNCHANGED boundVars \/ Fault
        /\ hist' = [hist EXCEPT ![k] =
                      {f \in Requests : order[f] = "filled" /\ req[f].pair \in ok}]
        /\ Goto(k, "fetch", IF ok = {} THEN "unlock" ELSE "pending")
  BY DEF FetchHistory
<1>2. UNCHANGED <<now, lock, dbVars, exchVars, callVars, todo, matched, known>>
  BY DEF FetchHistory
<1>3. DBStep
  BY <1>2, IdleStep
<1>4. TodoAreRows'
  BY <1>2, <1>3, TodoStayRows
<1>5. faults' \in Nat /\ lockLosses' \in Nat /\ hist' \in [Reconcilers -> SUBSET Requests]
  BY <1>1 DEF IInv, TypeOK, Fault
<1>6. (IF ok = {} THEN "unlock" ELSE "pending") \in PcValues \ InFlightPc
  BY ReconcilerPcs DEF ReconcilerPc
<1>7. IInv'
  BY <1>1, <1>2, <1>3, <1>4, <1>5, <1>6, ReconcilerFrame DEF IInv, TypeOK
<1>8. QED BY <1>3, <1>7

LEMMA ReadPendingStep ==
  ASSUME IInv, NEW k \in Reconcilers, ReadPending(k)
  PROVE  IInv' /\ DBStep
<1> USE DEF ReadPending
<1>1. DBStep
  BY IdleStep
<1>2. Pending \subseteq DOMAIN rows /\ DOMAIN rows \subseteq Nat
  BY LenProperties DEF Pending, IInv, TypeOK
<1>3. /\ todo' \in [Reconcilers -> SUBSET Nat] /\ TodoAreRows'
      /\ matched' \in [Reconcilers -> SUBSET Requests]
  BY <1>2 DEF IInv, TypeOK, TodoAreRows
<1>4. IInv'
  BY <1>1, <1>3, ReconcilerFrame, ReconcilerPcs DEF IInv, TypeOK, ReconcilerPc
<1>5. QED BY <1>1, <1>4

LEMMA ResolvePendingStep ==
  ASSUME IInv, NEW k \in Reconcilers, ResolvePending(k)
  PROVE  IInv' /\ DBStep
<1>1. PICK i \in todo[k] :
        /\ todo' = [todo EXCEPT ![k] = @ \ {i}]
        /\ \/ \E f \in MatchPendingToFill(k, i) :
                /\ matched' = [matched EXCEPT ![k] = @ \cup {f}]
                /\ \/ FinalizeTrade(i, f) /\ UNCHANGED boundVars
                   \/ Fault /\ UNCHANGED dbVars
           \/ /\ IF now - rows[i].ts > StaleAge
                 THEN RejectPendingTrade(i) ELSE UNCHANGED dbVars
              /\ UNCHANGED <<matched, boundVars>>
  BY DEF ResolvePending, FinalizePendingFromHistory
<1>2. /\ UNCHANGED <<now, lock, exchVars, callVars, hist, known>>
      /\ Goto(k, "resolve", "resolve")
  BY DEF ResolvePending, FinalizePendingFromHistory
<1>3. i \in DOMAIN rows
  BY DEF IInv, TodoAreRows
<1>4. MatchPendingToFill(k, i) \subseteq Requests
  BY DEF MatchPendingToFill, Candidates, IInv, TypeOK
<1>5. /\ DBStep /\ faults' \in Nat /\ lockLosses' \in Nat
      /\ matched' \in [Reconcilers -> SUBSET Requests]
  <2>1. CASE \E f \in MatchPendingToFill(k, i) :
               /\ matched' = [matched EXCEPT ![k] = @ \cup {f}]
               /\ \/ FinalizeTrade(i, f) /\ UNCHANGED boundVars
                  \/ Fault /\ UNCHANGED dbVars
    <3>1. PICK f \in Requests :
            /\ matched' = [matched EXCEPT ![k] = @ \cup {f}]
            /\ \/ FinalizeTrade(i, f) /\ UNCHANGED boundVars
               \/ Fault /\ UNCHANGED dbVars
      BY <1>4, <2>1
    <3>2. DBStep
      BY <1>3, <3>1, FinalizeStep, IdleStep
    <3>3. QED BY <3>1, <3>2 DEF IInv, TypeOK, Fault
  <2>2. CASE /\ IF now - rows[i].ts > StaleAge
                THEN RejectPendingTrade(i) ELSE UNCHANGED dbVars
             /\ UNCHANGED <<matched, boundVars>>
    <3>1. DBStep
      BY <1>3, <2>2, RejectStep, IdleStep
    <3>2. QED BY <2>2, <3>1 DEF IInv, TypeOK
  <2>3. QED BY <1>1, <2>1, <2>2
<1>6. todo' \in [Reconcilers -> SUBSET Nat] /\ TodoAreRows'
  BY <1>1, <1>5 DEF IInv, TypeOK, TodoAreRows, DBStep
<1>7. IInv'
  BY <1>2, <1>5, <1>6, ReconcilerFrame, ReconcilerPcs DEF IInv, TypeOK, ReconcilerPc
<1>8. QED BY <1>5, <1>7

LEMMA ReadKnownStep ==
  ASSUME IInv, NEW k \in Reconcilers, ReadKnown(k)
  PROVE  IInv' /\ DBStep
<1> USE DEF ReadKnown
<1>1. DBStep
  BY IdleStep
<1>2. BookedFills \subseteq Requests
  BY DEF BookedFills, Filled, IInv, RowsCarryFills
<1>3. known' \in [Reconcilers -> SUBSET Requests]
  BY <1>2 DEF IInv, TypeOK
<1>4. TodoAreRows'
  BY <1>1, TodoStayRows
<1>5. IInv'
  BY <1>1, <1>3, <1>4, ReconcilerFrame, ReconcilerPcs DEF IInv, TypeOK, ReconcilerPc
<1>6. QED BY <1>1, <1>5

LEMMA InsertOrphanStep ==
  ASSUME IInv, NEW k \in Reconcilers, InsertOrphan(k)
  PROVE  IInv' /\ DBStep
<1>1. PICK f \in Orphans(k) :
        /\ hist' = [hist EXCEPT ![k] = @ \ {f}]
        /\ \/ RecordOrphan(f) /\ UNCHANGED boundVars
           \/ Fault /\ UNCHANGED dbVars
  BY DEF InsertOrphan
<1>2. /\ UNCHANGED <<now, lock, exchVars, callVars, todo, matched, known>>
      /\ Goto(k, "orphans", "orphans")
  BY DEF InsertOrphan
<1>3. f \in Requests
  BY DEF Orphans, IInv, TypeOK
<1>4. DBStep
  BY <1>1, <1>3, OrphanStep, IdleStep
<1>5. faults' \in Nat /\ lockLosses' \in Nat /\ hist' \in [Reconcilers -> SUBSET Requests]
  BY <1>1 DEF IInv, TypeOK, Fault
<1>6. TodoAreRows'
  BY <1>2, <1>4, TodoStayRows
<1>7. IInv'
  BY <1>2, <1>4, <1>5, <1>6, ReconcilerFrame, ReconcilerPcs DEF IInv, TypeOK, ReconcilerPc
<1>8. QED BY <1>4, <1>7

LEMMA FinishReconcileStep ==
  ASSUME IInv, NEW k \in Reconcilers, FinishReconcile(k)
  PROVE  IInv' /\ DBStep
<1> USE DEF FinishReconcile
<1>1. DBStep
  BY IdleStep
<1>2. /\ hist' \in [Reconcilers -> SUBSET Requests]
      /\ matched' \in [Reconcilers -> SUBSET Requests]
      /\ known' \in [Reconcilers -> SUBSET Requests]
  BY DEF IInv, TypeOK
<1>3. TodoAreRows'
  BY <1>1, TodoStayRows
<1>4. IInv'
  BY <1>1, <1>2, <1>3, ReconcilerFrame, ReconcilerPcs DEF IInv, TypeOK, ReconcilerPc
<1>5. QED BY <1>1, <1>4

LEMMA ReconcilerStep ==
  ASSUME IInv, NEW k \in Reconcilers, StartReconcile(k) \/ ReconcileStep(k)
  PROVE  IInv' /\ DBStep
<1>1. CASE AcquireLock(k, "fetch") \/ ReleaseLock(k, "idle")
  BY <1>1, LockStep, ReconcilerPcs DEF Procs, ReconcilerPc
<1>2. QED
  BY <1>1, StartReconcileStep, FetchHistoryStep, ReadPendingStep, ResolvePendingStep,
     ReadKnownStep, InsertOrphanStep, FinishReconcileStep DEF ReconcileStep

-----------------------------------------------------------------------------
(* The halt switch and the environment. *)

LEMMA WriteHaltedStep ==
  ASSUME IInv, NEW o \in Operators, WriteHalted(o)
  PROVE  DBStep
<1> USE DEF WriteHalted
<1>1. halted' \in BOOLEAN
  OBVIOUS
<1>2. CashNeverNegative' /\ FillBookedOnce' /\ BooksAtMostOne
  BY BooksNothing DEF Filled
<1>3. rows \in Seq(Row) /\ Len(rows) \in Nat
  BY LenProperties DEF IInv, TypeOK
<1>4. QED BY <1>1, <1>2, <1>3 DEF IInv, TypeOK, DBStep, RowsCarryFills

LEMMA SetHaltedStep ==
  ASSUME IInv, NEW o \in Operators, SetHalted(o)
  PROVE  IInv' /\ DBStep
<1>1. CASE AcquireLock(o, "set") \/ ReleaseLock(o, "done")
  BY <1>1, LockStep DEF Procs, PcValues, OperatorPc, InFlightPc
<1>2. CASE \/ Goto(o, "new", "lock")
             /\ UNCHANGED <<now, lock, dbVars, exchVars, callVars, recVars, boundVars>>
           \/ WriteHalted(o)
  <2>1. /\ DBStep
        /\ UNCHANGED <<now, lock, exchVars, callVars, recVars, boundVars>>
    BY <1>2, IdleStep, WriteHaltedStep DEF WriteHalted
  <2>2. /\ pc' \in [Procs -> PcValues] /\ pc'[o] \notin InFlightPc
        /\ \A q \in Procs : q # o => pc'[q] = pc[q]
    BY <1>2, GotoStep DEF WriteHalted, IInv, Procs, PcValues, OperatorPc, InFlightPc
  <2>3. TypeOK'
    BY <2>1, <2>2 DEF IInv, TypeOK, PcValues, DBStep
  <2>4. CallsOnRecord'
    BY <2>1, <2>2, CallsStayOnRecord DEF Procs
  <2>5. TodoAreRows'
    BY <2>1, TodoStayRows
  <2>6. QED BY <2>1, <2>3, <2>4, <2>5, AssembleIInv
<1>3. QED BY <1>1, <1>2 DEF SetHalted

LEMMA CrashStep ==
  ASSUME IInv, NEW p \in Procs, Crash(p)
  PROVE  IInv' /\ DBStep
<1>1. /\ UNCHANGED <<now, dbVars, exchVars, callVars>> /\ Fault
      /\ lock' = IF lock = p THEN Nobody ELSE lock
  BY DEF Crash
<1>2. DBStep
  BY <1>1, IdleStep
<1>3. lock' \in Procs \cup {Nobody} /\ faults' \in Nat /\ lockLosses' \in Nat
  BY <1>1 DEF IInv, TypeOK, Fault
<1>4. /\ pc' \in [Procs -> PcValues] /\ pc'[p] \notin InFlightPc
      /\ \A q \in Procs : q # p => pc'[q] = pc[q]
  BY DEF Crash, IInv, TypeOK, PcValues, RequestPc, ReconcilerPc, InFlightPc
<1>5. /\ hist' \in [Reconcilers -> SUBSET Requests] /\ todo' \in [Reconcilers -> SUBSET Nat]
      /\ matched' \in [Reconcilers -> SUBSET Requests]
      /\ known' \in [Reconcilers -> SUBSET Requests]
      /\ \A k \in Reconcilers : todo'[k] \subseteq todo[k]
  BY DEF Crash, IInv, TypeOK
<1>6. TypeOK'
  BY <1>1, <1>3, <1>4, <1>5 DEF IInv, TypeOK, PcValues
<1>7. CallsOnRecord'
  BY <1>1, <1>2, <1>4, CallsStayOnRecord DEF Procs
<1>8. TodoAreRows'
  BY <1>2, <1>5, TodoStayRows
<1>9. QED BY <1>2, <1>6, <1>7, <1>8, AssembleIInv

LEMMA EnvironmentStep ==
  ASSUME IInv, LoseLock \/ Tick
  PROVE  IInv' /\ DBStep
<1> USE DEF LoseLock, Tick
<1>1. DBStep
  BY IdleStep
<1>2. lock' \in Procs \cup {Nobody} /\ now' \in Nat /\ lockLosses' \in Nat
  BY DEF IInv, TypeOK
<1>3. TypeOK'
  BY <1>2 DEF IInv, TypeOK
<1>4. CallsOnRecord'
  BY <1>1, CallsStayOnRecord
<1>5. TodoAreRows'
  BY <1>1, TodoStayRows
<1>6. QED BY <1>1, <1>3, <1>4, <1>5, AssembleIInv

-----------------------------------------------------------------------------
(* The invariant and what follows from it. *)

LEMMA InitIInv == Init => IInv
<1> SUFFICES ASSUME Init PROVE IInv
  OBVIOUS
<1> USE DEF Init
<1>1. rows \in Seq(Row) /\ DOMAIN rows = {}
  BY EmptySeq
<1>2. TypeOK
  <2>1. (CHOOSE p \in Pairs : TRUE) \in Pairs
    BY AmountsAssumption
  <2>2. fills \in [Requests -> [delta : Int, qty : Nat, ts : Nat]]
    BY DEF NoFill
  <2>3. pc \in [Procs -> RequestPc \cup ReconcilerPc \cup OperatorPc]
    BY DEF RequestPc, ReconcilerPc, OperatorPc
  <2>4. verdict \in [Requests -> [Gates -> Verdict]]
    BY DEF Verdict
  <2>5. req \in [Requests -> [pair : Pairs, side : {"buy", "sell"}, value : Nat]]
    BY <2>1
  <2>6. /\ hist \in [Reconcilers -> SUBSET Requests] /\ todo \in [Reconcilers -> SUBSET Nat]
        /\ matched \in [Reconcilers -> SUBSET Requests]
        /\ known \in [Reconcilers -> SUBSET Requests]
    OBVIOUS
  <2>7. /\ seen \in [Requests -> Int] /\ amount \in [Requests -> Nat]
        /\ order \in [Requests -> {"none", "sent", "filled", "refused"}]
        /\ cash \in Int /\ exchCash \in Nat /\ exchQty \in [Pairs -> Nat]
    BY AmountsAssumption
  <2>8. QED BY <1>1, <2>2, <2>3, <2>4, <2>5, <2>6, <2>7 DEF TypeOK
<1>3. CallsOnRecord
  BY DEF CallsOnRecord, InFlightPc, Procs
<1>4. FillBookedOnce /\ RowsCarryFills
  BY <1>1 DEF FillBookedOnce, Filled, RowsCarryFills
<1>5. TodoAreRows
  BY DEF TodoAreRows
<1>6. QED BY <1>2, <1>3, <1>4, <1>5, AmountsAssumption DEF IInv, CashNeverNegative

LEMMA NextIInv ==
  ASSUME IInv, [Next]_vars
  PROVE  IInv' /\ DBStep
<1>1. CASE \E r \in Requests : SubmitOrder(r) \/ ExecuteOrder(r) \/ RefuseAtExchange(r)
  BY <1>1, SubmitOrderStep, ExecuteOrderStep, RefuseAtExchangeStep
<1>2. CASE \E k \in Reconcilers : StartReconcile(k) \/ ReconcileStep(k)
  BY <1>2, ReconcilerStep
<1>3. CASE \E o \in Operators : SetHalted(o)
  BY <1>3, SetHaltedStep
<1>4. CASE \E p \in Procs : Crash(p)
  BY <1>4, CrashStep
<1>5. CASE LoseLock \/ Tick
  BY <1>5, EnvironmentStep
<1>6. CASE UNCHANGED vars
  <2> USE <1>6 DEF vars
  <2>1. DBStep
    BY IdleStep
  <2>2. TypeOK'
    BY DEF IInv, TypeOK
  <2>3. CallsOnRecord'
    BY <2>1, CallsStayOnRecord
  <2>4. TodoAreRows'
    BY <2>1, TodoStayRows
  <2>5. QED BY <2>1, <2>2, <2>3, <2>4, AssembleIInv
<1>7. QED BY <1>1, <1>2, <1>3, <1>4, <1>5, <1>6 DEF Next

LEMMA Invariance == Spec => []IInv
BY InitIInv, NextIInv, PTL DEF Spec

\* The variables of the money path keep their types.
THEOREM TypeCorrectness == Spec => []TypeOK
BY Invariance, PTL DEF IInv

\* The agent is never overdrawn.
THEOREM NeverOverdrawn == Spec => []CashNeverNegative
BY Invariance, PTL DEF IInv

\* No fill of the exchange is booked by two rows.
THEOREM BookedOnce == Spec => []FillBookedOnce
BY Invariance, PTL DEF IInv

\* Nothing is executed that the gates have not approved or that has no row.
THEOREM VettedAndOnRecord == Spec => []OrdersVettedAndOnRecord
<1>1. IInv => OrdersVettedAndOnRecord
  BY DEF IInv, CallsOnRecord, OrdersVettedAndOnRecord, HasRow
<1>2. QED BY <1>1, Invariance, PTL

\* A booked or rejected row never changes, and no row is removed.
THEOREM RowsAreFinal == Spec => ResolvedRowsAreFinal
<1>1. IInv /\ [Next]_vars =>
        [/\ Len(rows') >= Len(rows)
         /\ \A i \in DOMAIN rows : rows[i].st # "pending" => rows'[i] = rows[i]]_rows
  BY NextIInv DEF DBStep
<1>2. QED BY <1>1, Invariance, PTL DEF Spec, ResolvedRowsAreFinal

-----------------------------------------------------------------------------
(* The agent's row adds up. *)

Rejected == {i \in DOMAIN rows : rows[i].st = "reject"}

\* b is the running balance of the table: it starts at the agent's initial cash, every row
\* moves it by its delta, and it ends at c.
RunningBalance(b, c) ==
  /\ b \in [0..Len(rows) -> Int]
  /\ b[0] = InitialCash
  /\ \A n \in 1..Len(rows) : b[n] = b[n - 1] + rows[n].delta
  /\ b[Len(rows)] = c

BalanceInv ==
  /\ \A i \in DOMAIN rows : rows[i].st = "pending" => rows[i].delta = 0
  /\ \E b : RunningBalance(b, cash)

CountInv ==
  /\ IsFiniteSet(Filled) /\ fillCount = Cardinality(Filled)
  /\ IsFiniteSet(Rejected) /\ rejectCount = Cardinality(Rejected)

\* By how much a new or a resolved row changes a counter of the agent's row.
One(e, st) == IF e.st = st THEN 1 ELSE 0

\* The agent's row moves with e.
MovesWith(e) ==
  /\ cash' = cash + e.delta
  /\ fillCount' = fillCount + One(e, "fill") /\ rejectCount' = rejectCount + One(e, "reject")

Inserts(e) ==
  /\ e.st = "pending" => e.delta = 0
  /\ rows' = Append(rows, e) /\ MovesWith(e)

Resolves(i, e) ==
  /\ rows[i].st = "pending" /\ e.st \in {"fill", "reject"}
  /\ rows' = [rows EXCEPT ![i] = e] /\ MovesWith(e)

\* What any step may do to the trades table and the agent's row.
Adds ==
  \/ UNCHANGED <<cash, rejectCount, fillCount, rows>>
  \/ \E e \in Row : Inserts(e)
  \/ \E i \in DOMAIN rows, e \in Row : Resolves(i, e)

-----------------------------------------------------------------------------
(* The statements. *)

LEMMA RejectAdds ==
  ASSUME IInv, BalanceInv, NEW i \in DOMAIN rows, RejectPendingTrade(i)
  PROVE  Adds
<1>1. CASE rows[i].st # "pending"
  BY <1>1 DEF RejectPendingTrade, Adds
<1>2. CASE rows[i].st = "pending"
  <2> DEFINE e == [rows[i] EXCEPT !.st = "reject"]
  <2>1. rows[i] \in Row /\ cash \in Int /\ rejectCount \in Nat /\ fillCount \in Nat
    BY ElementOfSeq DEF IInv, TypeOK
  <2>2. e \in Row /\ e.st = "reject" /\ e.delta = 0
    BY <1>2, <2>1 DEF Row, RowStatus, BalanceInv
  <2>3. rows' = [rows EXCEPT ![i] = e] /\ rejectCount' = rejectCount + 1 /\ UNCHANGED <<cash,
                                                                                        fillCount>>
    BY <1>2 DEF RejectPendingTrade
  <2> HIDE DEF e
  <2>4. Resolves(i, e)
    BY <1>2, <2>1, <2>2, <2>3 DEF Resolves, MovesWith, One
  <2> QED BY <2>2, <2>4 DEF Adds
<1> QED BY <1>1, <1>2

LEMMA FinalizeAdds ==
  ASSUME IInv, NEW i \in DOMAIN rows, NEW f \in Requests, FinalizeTrade(i, f)
  PROVE  Adds
<1>1. CASE ~(rows[i].st = "pending" /\ Bookable(f))
  BY <1>1 DEF FinalizeTrade, Adds
<1>2. CASE rows[i].st = "pending" /\ Bookable(f)
  <2> DEFINE e == [rows[i] EXCEPT !.st = "fill", !.fill = f,
                                  !.delta = fills[f].delta, !.qty = fills[f].qty]
  <2>1. /\ rows[i] \in Row /\ rejectCount \in Nat
        /\ fills[f].delta \in Int /\ fills[f].qty \in Nat
    BY ElementOfSeq DEF IInv, TypeOK
  <2>2. e \in Row /\ e.st = "fill" /\ e.delta = fills[f].delta
    BY <2>1 DEF Row, RowStatus
  <2>3. /\ rows' = [rows EXCEPT ![i] = e] /\ cash' = cash + fills[f].delta
        /\ fillCount' = fillCount + 1 /\ UNCHANGED rejectCount
    BY <1>2 DEF FinalizeTrade
  <2> HIDE DEF e
  <2>4. Resolves(i, e)
    BY <1>2, <2>1, <2>2, <2>3 DEF Resolves, MovesWith, One
  <2> QED BY <2>2, <2>4 DEF Adds
<1> QED BY <1>1, <1>2

LEMMA OrphanAdds ==
  ASSUME IInv, NEW f \in Requests, RecordOrphan(f)
  PROVE  Adds
<1>1. CASE ~Bookable(f)
  BY <1>1 DEF RecordOrphan, Adds
<1>2. CASE Bookable(f)
  <2> DEFINE e == [st |-> "fill", pair |-> req[f].pair, side |-> req[f].side,
                   ts |-> fills[f].ts, intent |-> Nobody, fill |-> f,
                   delta |-> fills[f].delta, qty |-> fills[f].qty]
  <2>1. /\ req[f].pair \in Pairs /\ req[f].side \in {"buy", "sell"} /\ fills[f].ts \in Nat
        /\ fills[f].delta \in Int /\ fills[f].qty \in Nat /\ rejectCount \in Nat
    BY DEF IInv, TypeOK
  <2>2. e \in Row /\ e.st = "fill" /\ e.delta = fills[f].delta
    BY <2>1 DEF Row, RowStatus
  <2>3. /\ rows' = Append(rows, e) /\ cash' = cash + fills[f].delta
        /\ fillCount' = fillCount + 1 /\ UNCHANGED rejectCount
    BY <1>2 DEF RecordOrphan
  <2> HIDE DEF e
  <2>4. Inserts(e)
    BY <2>1, <2>2, <2>3 DEF Inserts, MovesWith, One
  <2> QED BY <2>2, <2>4 DEF Adds
<1> QED BY <1>1, <1>2

\* The pending row of a write-ahead, and a rejected row with its count.
LEMMA InsertAdds ==
  ASSUME IInv, NEW r \in Requests, NEW st \in {"pending", "reject"},
         rows' = Append(rows, NewRow(r, st)), UNCHANGED <<cash, fillCount>>,
         rejectCount' = rejectCount + One(NewRow(r, st), "reject")
  PROVE  Adds
<1> DEFINE e == NewRow(r, st)
<1>1. cash \in Int /\ fillCount \in Nat
  BY DEF IInv, TypeOK
<1>2. e \in Row /\ e.st = st /\ e.delta = 0
  <2>1. req[r].pair \in Pairs /\ req[r].side \in {"buy", "sell"} /\ now \in Nat
    BY DEF IInv, TypeOK
  <2> QED BY <2>1 DEF Row, RowStatus, NewRow
<1> HIDE DEF e
<1>3. rows' = Append(rows, e) /\ rejectCount' = rejectCount + One(e, "reject")
  BY DEF e
<1>4. Inserts(e)
  BY <1>1, <1>2, <1>3 DEF Inserts, MovesWith, One
<1> QED BY <1>2, <1>4 DEF Adds

LEMMA RecordRejectedAdds ==
  ASSUME IInv, NEW r \in Requests, RecordRejected(r)
  PROVE  Adds
<1>1. CASE rows' = Append(rows, NewRow(r, "reject")) /\ rejectCount' = rejectCount + 1
           /\ UNCHANGED <<cash, halted, fillCount, boundVars>>
  <2>1. One(NewRow(r, "reject"), "reject") = 1
    BY DEF One, NewRow
  <2> QED BY <1>1, <2>1, InsertAdds
<1>2. CASE UNCHANGED dbVars
  BY <1>2 DEF Adds
<1> QED BY <1>1, <1>2 DEF RecordRejected

-----------------------------------------------------------------------------
(* The steps. *)

LEMMA CallAdds ==
  ASSUME IInv, BalanceInv, NEW r \in Requests, SubmitOrder(r)
  PROVE  Adds
<1>1. CASE CheckOrder(r)
  <2>1. UNCHANGED dbVars \/ RecordRejected(r)
    BY <1>1 DEF CheckOrder
  <2> QED BY <2>1, RecordRejectedAdds DEF Adds
<1>2. CASE \E g \in Gates : AskGate(r, g)
  <2>1. UNCHANGED dbVars \/ RecordRejected(r)
    BY <1>2 DEF AskGate
  <2> QED BY <2>1, RecordRejectedAdds DEF Adds
<1>3. CASE WriteAhead(r)
  <2>1. CASE rows' = Append(rows, NewRow(r, "pending"))
             /\ UNCHANGED <<cash, halted, rejectCount, fillCount, boundVars>>
    <3>1. One(NewRow(r, "pending"), "reject") = 0 /\ rejectCount \in Nat
      BY DEF One, NewRow, IInv, TypeOK
    <3>2. rejectCount' = rejectCount + One(NewRow(r, "pending"), "reject")
      BY <2>1, <3>1
    <3> QED BY <2>1, <3>2, InsertAdds
  <2>2. CASE UNCHANGED dbVars
    BY <2>2 DEF Adds
  <2> QED BY <1>3, <2>1, <2>2 DEF WriteAhead
<1>4. CASE Finalize(r) \/ RefuseOrder(r)
  <2>1. RowOf(r) \in DOMAIN rows
    BY <1>4, RowOfIsRow DEF Finalize, RefuseOrder, Goto, InFlightPc
  <2>2. UNCHANGED dbVars \/ FinalizeTrade(RowOf(r), r) \/ RejectPendingTrade(RowOf(r))
    BY <1>4 DEF Finalize, RefuseOrder
  <2> QED BY <2>1, <2>2, FinalizeAdds, RejectAdds DEF Adds
<1>5. CASE \/ Submit(r) \/ AcquireLock(r, "check") \/ SendOrder(r) \/ ReceiveAnswer(r)
           \/ ReleaseLock(r, "done")
  BY <1>5 DEF Submit, AcquireLock, SendOrder, ReceiveAnswer, ReleaseLock, Adds
<1> QED BY <1>1, <1>2, <1>3, <1>4, <1>5 DEF SubmitOrder

LEMMA ReconcilerAdds ==
  ASSUME IInv, BalanceInv, NEW k \in Reconcilers, StartReconcile(k) \/ ReconcileStep(k)
  PROVE  Adds
<1>1. CASE ResolvePending(k)
  <2>1. PICK i \in todo[k] :
          \/ \E f \in MatchPendingToFill(k, i) : FinalizeTrade(i, f)
          \/ RejectPendingTrade(i)
          \/ UNCHANGED dbVars
    BY <1>1 DEF ResolvePending, FinalizePendingFromHistory
  <2>2. i \in DOMAIN rows
    BY <2>1 DEF IInv, TodoAreRows
  <2>3. MatchPendingToFill(k, i) \subseteq Requests
    BY DEF MatchPendingToFill, Candidates, IInv, TypeOK
  <2> QED BY <2>1, <2>2, <2>3, FinalizeAdds, RejectAdds DEF Adds
<1>2. CASE InsertOrphan(k)
  <2>1. PICK f \in Orphans(k) : RecordOrphan(f) \/ UNCHANGED dbVars
    BY <1>2 DEF InsertOrphan
  <2>2. f \in Requests
    BY DEF Orphans, IInv, TypeOK
  <2> QED BY <2>1, <2>2, OrphanAdds DEF Adds
<1>3. CASE \/ StartReconcile(k) \/ AcquireLock(k, "fetch") \/ FetchHistory(k) \/ ReadPending(k)
           \/ ReadKnown(k) \/ FinishReconcile(k) \/ ReleaseLock(k, "idle")
  BY <1>3 DEF StartReconcile, AcquireLock, FetchHistory, ReadPending, ReadKnown, FinishReconcile,
              ReleaseLock, Adds
<1> QED BY <1>1, <1>2, <1>3 DEF ReconcileStep

LEMMA NextAdds ==
  ASSUME IInv, BalanceInv, [Next]_vars
  PROVE  Adds
<1>1. CASE \E r \in Requests : SubmitOrder(r)
  BY <1>1, CallAdds
<1>2. CASE \E r \in Requests : ExecuteOrder(r) \/ RefuseAtExchange(r)
  BY <1>2 DEF ExecuteOrder, RefuseAtExchange, Adds
<1>3. CASE \E k \in Reconcilers : StartReconcile(k) \/ ReconcileStep(k)
  BY <1>3, ReconcilerAdds
<1>4. CASE \E o \in Operators : SetHalted(o)
  BY <1>4 DEF SetHalted, AcquireLock, WriteHalted, ReleaseLock, Adds
<1>5. CASE (\E p \in Procs : Crash(p)) \/ LoseLock \/ Tick \/ UNCHANGED vars
  BY <1>5 DEF Crash, LoseLock, Tick, vars, Adds
<1> QED BY <1>1, <1>2, <1>3, <1>4, <1>5 DEF Next

-----------------------------------------------------------------------------
(* The balance and the counters follow the rows. *)

\* A row at the end moves the last balance.
LEMMA BalanceInserted ==
  ASSUME IInv, BalanceInv, NEW e \in Row, Inserts(e)
  PROVE  BalanceInv'
<1> DEFINE n == Len(rows)
<1>1. /\ rows \in Seq(Row) /\ n \in Nat /\ DOMAIN rows = 1..n /\ cash \in Int /\ e.delta \in Int
  BY LenProperties DEF IInv, TypeOK, Row
<1>2. /\ Len(rows') = n + 1 /\ DOMAIN rows' = 1..(n + 1) /\ rows'[n + 1] = e
      /\ \A j \in 1..n : rows'[j] = rows[j]
  BY <1>1, AppendProperties DEF Inserts
<1>3. PICK b : RunningBalance(b, cash)
  BY DEF BalanceInv
<1> DEFINE g == [j \in 0..(n + 1) |-> IF j = n + 1 THEN cash' ELSE b[j]]
<1>4. /\ b \in [0..n -> Int] /\ b[0] = InitialCash /\ b[n] = cash
      /\ \A j \in 1..n : b[j] = b[j - 1] + rows[j].delta
  BY <1>3 DEF RunningBalance
<1>5. cash' = cash + e.delta
  BY DEF Inserts, MovesWith
<1> HIDE DEF n
<1>6. /\ g \in [0..(n + 1) -> Int] /\ g[0] = InitialCash /\ g[n + 1] = cash'
  BY <1>1, <1>4, <1>5
<1>7. \A j \in 1..(n + 1) : g[j] = g[j - 1] + rows'[j].delta
  <2> SUFFICES ASSUME NEW j \in 1..(n + 1) PROVE g[j] = g[j - 1] + rows'[j].delta
    OBVIOUS
  <2>1. g[j - 1] = b[j - 1]
    BY <1>1
  <2>2. CASE j \in 1..n
    <3>1. g[j] = b[j]
      BY <1>1, <2>2
    <3> QED BY <1>2, <1>4, <2>1, <2>2, <3>1
  <2>3. CASE j = n + 1
    <3>1. g[j] = cash + e.delta /\ g[j - 1] = cash
      BY <1>1, <1>4, <1>5, <2>1, <2>3
    <3> QED BY <1>2, <2>3, <3>1
  <2> QED BY <1>1, <2>2, <2>3
<1> HIDE DEF g
<1>8. \E h : RunningBalance(h, cash)'
  BY <1>2, <1>6, <1>7 DEF RunningBalance
<1>9. \A i \in DOMAIN rows' : rows'[i].st = "pending" => rows'[i].delta = 0
  BY <1>1, <1>2 DEF BalanceInv, Inserts
<1> QED BY <1>8, <1>9 DEF BalanceInv

\* A resolved row moves its balance and all the later ones.
LEMMA BalanceResolved ==
  ASSUME IInv, BalanceInv, NEW i \in DOMAIN rows, NEW e \in Row, Resolves(i, e)
  PROVE  BalanceInv'
<1> DEFINE n == Len(rows)
<1>1. /\ rows \in Seq(Row) /\ n \in Nat /\ DOMAIN rows = 1..n /\ cash \in Int /\ e.delta \in Int /\ i \in 1..n
  BY LenProperties DEF IInv, TypeOK, Row
<1>1a. \A j \in 1..n : rows[j].delta \in Int
  <2>1. \A j \in DOMAIN rows : rows[j] \in Row
    BY <1>1
  <2> QED BY <1>1, <2>1 DEF Row
<1>2. /\ Len(rows') = n /\ DOMAIN rows' = 1..n
      /\ \A j \in 1..n : rows'[j] = IF j = i THEN e ELSE rows[j]
  BY <1>1, ChangeRow DEF Resolves
<1>3. PICK b : RunningBalance(b, cash)
  BY DEF BalanceInv
<1> DEFINE g == [j \in 0..n |-> IF j >= i THEN b[j] + e.delta ELSE b[j]]
<1>4. /\ b \in [0..n -> Int] /\ b[0] = InitialCash /\ b[n] = cash
      /\ \A j \in 1..n : b[j] = b[j - 1] + rows[j].delta
  BY <1>3 DEF RunningBalance
<1>5. cash' = cash + e.delta /\ rows[i].delta = 0
  BY DEF Resolves, MovesWith, BalanceInv
<1> HIDE DEF n
<1>6. /\ g \in [0..n -> Int] /\ g[0] = InitialCash /\ g[n] = cash'
  <2>1. \A j \in 0..n : (IF j >= i THEN b[j] + e.delta ELSE b[j]) \in Int
    BY <1>1, <1>4
  <2>2. 0 \in 0..n /\ n \in 0..n /\ ~ (0 >= i) /\ n >= i
    BY <1>1
  <2>3. g \in [0..n -> Int]
    BY <2>1
  <2>4. g[0] = b[0] /\ g[n] = b[n] + e.delta
    BY <2>2
  <2> QED BY <1>4, <1>5, <2>3, <2>4
<1>7. \A j \in 1..n : g[j] = g[j - 1] + rows'[j].delta
  <2> SUFFICES ASSUME NEW j \in 1..n PROVE g[j] = g[j - 1] + rows'[j].delta
    OBVIOUS
  <2>0. b[j - 1] \in Int /\ b[j] = b[j - 1] + rows[j].delta /\ rows[j].delta \in Int
    BY <1>1, <1>1a, <1>4
  <2>1. CASE j < i
    <3>1. g[j] = b[j] /\ g[j - 1] = b[j - 1]
      BY <1>1, <2>1
    <3> QED BY <1>1, <1>2, <2>0, <2>1, <3>1
  <2>2. CASE j = i
    <3>1. g[j] = b[j] + e.delta /\ g[j - 1] = b[j - 1]
      BY <1>1, <2>2
    <3> QED BY <1>1, <1>2, <1>5, <2>0, <2>2, <3>1
  <2>3. CASE j > i
    <3>1. g[j] = b[j] + e.delta /\ g[j - 1] = b[j - 1] + e.delta
      BY <1>1, <2>3
    <3> QED BY <1>1, <1>2, <2>0, <2>3, <3>1
  <2> QED BY <1>1, <2>1, <2>2, <2>3
<1> HIDE DEF g
<1>8. \E h : RunningBalance(h, cash)'
  BY <1>2, <1>6, <1>7 DEF RunningBalance
<1>9. \A j \in DOMAIN rows' : rows'[j].st = "pending" => rows'[j].delta = 0
  BY <1>1, <1>2 DEF BalanceInv, Resolves
<1> QED BY <1>8, <1>9 DEF BalanceInv

\* The rows in one state, after one row came into it.
LEMMA CountedOne ==
  ASSUME NEW S, IsFiniteSet(S), NEW i, i \notin S, NEW T, NEW st, NEW e,
         T = IF e.st = st THEN S \cup {i} ELSE S
  PROVE  IsFiniteSet(T) /\ Cardinality(T) = Cardinality(S) + One(e, st)
<1>1. Cardinality(S) \in Nat
  BY FS_CardinalityType
<1> QED BY <1>1, FS_AddElement DEF One

LEMMA CountsKept ==
  ASSUME IInv, CountInv, Adds
  PROVE  CountInv'
<1>1. ASSUME NEW i, i \notin Filled, i \notin Rejected, NEW e, MovesWith(e),
             Filled' = IF e.st = "fill" THEN Filled \cup {i} ELSE Filled,
             Rejected' = IF e.st = "reject" THEN Rejected \cup {i} ELSE Rejected
      PROVE  CountInv'
  <2>1. IsFiniteSet(Filled') /\ Cardinality(Filled') = Cardinality(Filled) + One(e, "fill")
    BY <1>1, CountedOne DEF CountInv
  <2>2. IsFiniteSet(Rejected') /\ Cardinality(Rejected') = Cardinality(Rejected) + One(e, "reject")
    BY <1>1, CountedOne DEF CountInv
  <2> QED BY <1>1, <2>1, <2>2 DEF CountInv, MovesWith
<1>2. rows \in Seq(Row)
  BY DEF IInv, TypeOK
<1>3. CASE UNCHANGED <<cash, rejectCount, fillCount, rows>>
  BY <1>3 DEF CountInv, Filled, Rejected
<1>4. CASE \E e \in Row : Inserts(e)
  <2>1. PICK e \in Row : Inserts(e)
    BY <1>4
  <2> DEFINE i == Len(rows) + 1
  <2>2. /\ DOMAIN rows' = DOMAIN rows \cup {i} /\ i \notin DOMAIN rows
        /\ rows'[i] = e /\ \A j \in DOMAIN rows : rows'[j] = rows[j]
    BY <1>2, <2>1, InsertRow DEF Inserts
  <2> HIDE DEF i
  <2>3. /\ i \notin Filled /\ i \notin Rejected
        /\ Filled' = IF e.st = "fill" THEN Filled \cup {i} ELSE Filled
        /\ Rejected' = IF e.st = "reject" THEN Rejected \cup {i} ELSE Rejected
    BY <2>2 DEF Filled, Rejected
  <2> QED BY <1>1, <2>1, <2>3 DEF Inserts
<1>5. CASE \E i \in DOMAIN rows, e \in Row : Resolves(i, e)
  <2>1. PICK i \in DOMAIN rows, e \in Row : Resolves(i, e)
    BY <1>5
  <2>2. DOMAIN rows' = DOMAIN rows /\ \A j \in DOMAIN rows : rows'[j] = IF j = i THEN e ELSE rows[j]
    BY <1>2, <2>1, ChangeRow DEF Resolves
  <2>3. /\ i \notin Filled /\ i \notin Rejected
        /\ Filled' = IF e.st = "fill" THEN Filled \cup {i} ELSE Filled
        /\ Rejected' = IF e.st = "reject" THEN Rejected \cup {i} ELSE Rejected
    BY <2>1, <2>2 DEF Filled, Rejected, Resolves
  <2> QED BY <1>1, <2>1, <2>3 DEF Resolves
<1> QED BY <1>3, <1>4, <1>5 DEF Adds

LEMMA BalanceKept ==
  ASSUME IInv, BalanceInv, Adds
  PROVE  BalanceInv'
<1>1. CASE UNCHANGED <<cash, rejectCount, fillCount, rows>>
  BY <1>1 DEF BalanceInv, RunningBalance
<1> QED BY <1>1, BalanceInserted, BalanceResolved DEF Adds

LEMMA InitAdds == Init => BalanceInv /\ CountInv
<1> SUFFICES ASSUME Init PROVE BalanceInv /\ CountInv
  OBVIOUS
<1>1. /\ rows = << >> /\ Len(rows) = 0 /\ DOMAIN rows = {}
      /\ cash = InitialCash /\ fillCount = 0 /\ rejectCount = 0
  BY DEF Init
<1>2. RunningBalance([j \in 0..0 |-> InitialCash], cash)
  BY <1>1, AmountsAssumption DEF RunningBalance
<1>3. Filled = {} /\ Rejected = {}
  BY <1>1 DEF Filled, Rejected
<1>4. CountInv
  BY <1>1, <1>3, FS_EmptySet DEF CountInv
<1> QED BY <1>1, <1>2, <1>4 DEF BalanceInv

-----------------------------------------------------------------------------
\* A set of naturals has a least element.
LEMMA LeastOf ==
  ASSUME NEW D, D \subseteq Nat, D # {}
  PROVE  \E j \in D : \A k \in D : ~ (k < j)
<1> DEFINE R == {p \in Nat \X Nat : p[1] < p[2]}
<1>1. R = OpToRel(<, Nat)
  BY Zenon DEF OpToRel
<1>2. IsWellFoundedOn(R, Nat)
  BY <1>1, NatLessThanWellFounded, Zenon
<1>3. PICK j \in D : \A k \in D : <<k, j>> \notin R
  BY <1>2, WFMin
<1>4. \A k, l \in Nat : k < l => <<k, l>> \in R
  OBVIOUS
<1> QED BY <1>3, <1>4

\* The running balance is the one that CashAfter computes: two functions that start alike and
\* move alike cannot differ, or they would differ first at some row.
LEMMA BalanceIsCashAfter ==
  ASSUME rows \in Seq(Row), NEW b, NEW c, RunningBalance(b, c)
  PROVE  c = CashAfter[Len(rows)]
<1> DEFINE n == Len(rows)
           Step(g) == [j \in 0..n |-> IF j = 0 THEN InitialCash ELSE g[j - 1] + rows[j].delta]
<1>1. n \in Nat
  BY LenProperties
<1>2. /\ b \in [0..n -> Int] /\ b[0] = InitialCash /\ b[n] = c
      /\ \A j \in 1..n : b[j] = b[j - 1] + rows[j].delta
  BY DEF RunningBalance
<1>3. b = Step(b)
  BY <1>1, <1>2
<1>4. CashAfter = CHOOSE g : g = Step(g)
  BY DEF CashAfter
<1>5. CashAfter = Step(CashAfter)
  BY <1>3, <1>4
<1> DEFINE D == {j \in 0..n : CashAfter[j] # b[j]}
<1>6. ASSUME D # {} PROVE FALSE
  <2>1. D \subseteq Nat
    BY <1>1
  <2>2. PICK j \in D : \A k \in D : ~ (k < j)
    BY <1>6, <2>1, LeastOf
  <2>3. j \in 0..n /\ CashAfter[j] # b[j]
    OBVIOUS
  <2>4. j # 0
    BY <1>2, <1>5, <2>3
  <2>5. j \in 1..n /\ j - 1 \in 0..n /\ j - 1 < j
    BY <1>1, <2>3, <2>4
  <2>6. CashAfter[j - 1] = b[j - 1]
    BY <2>2, <2>5
  <2>7. CashAfter[j] = CashAfter[j - 1] + rows[j].delta
    BY <1>5, <2>3, <2>4
  <2> QED BY <1>2, <2>3, <2>5, <2>6, <2>7
<1> QED BY <1>1, <1>2, <1>6

\* The agent's cash and counters are what the rows add up to: the state update and the row
\* change of one transaction never come apart.
THEOREM BooksAddUp == Spec => []StateMatchesRows
<1>1. IInv /\ BalanceInv /\ CountInv => StateMatchesRows
  BY BalanceIsCashAfter DEF IInv, TypeOK, BalanceInv, CountInv, StateMatchesRows, Rejected
<1>2. IInv /\ BalanceInv /\ CountInv /\ [Next]_vars => BalanceInv' /\ CountInv'
  BY NextAdds, BalanceKept, CountsKept
<1> QED BY <1>1, <1>2, InitAdds, Invariance, PTL DEF Spec
-----------------------------------------------------------------------------
(* The servers implement the ledger. *)

\* The ledger's view of the rows s of a table t.
BookOf(t, s) ==
  [f \in {t[i].fill : i \in s} |-> t[CHOOSE i \in s : t[i].fill = f].delta]

\* Where no two rows carry the same fill, the book says of a fill what its row says.
LEMMA BookOfRow ==
  ASSUME NEW t, NEW s, \A i, j \in s : t[i].fill = t[j].fill => i = j, NEW i \in s
  PROVE  BookOf(t, s)[t[i].fill] = t[i].delta
<1>1. (CHOOSE j \in s : t[j].fill = t[i].fill) = i
  <2>1. \A j \in s : t[j].fill = t[i].fill => j = i
    OBVIOUS
  <2>2. QED BY <2>1
<1>2. QED BY <1>1 DEF BookOf

LEMMA BookIsBookOf ==
  /\ L!ledgerVars = <<cash, BookOf(rows, Filled)>>
  /\ L!ledgerVars' = <<cash', BookOf(rows', Filled')>>
BY DEF L!ledgerVars, BookOf, BookedFills

\* A step that books nothing leaves the book as it is.
LEMMA SameBook ==
  ASSUME NEW t, NEW u, NEW s,
         \A i, j \in s : t[i].fill = t[j].fill => i = j,
         \A i \in s : u[i] = t[i]
  PROVE  BookOf(u, s) = BookOf(t, s)
<1>1. \A i \in s : BookOf(t, s)[t[i].fill] = t[i].delta
  BY BookOfRow
<1>2. \A i \in s : BookOf(u, s)[u[i].fill] = u[i].delta
  BY BookOfRow
<1>3. {t[i].fill : i \in s} = {u[i].fill : i \in s}
  OBVIOUS
<1>4. \A f \in {t[i].fill : i \in s} : BookOf(u, s)[f] = BookOf(t, s)[f]
  BY <1>1, <1>2
<1>5. /\ DOMAIN BookOf(t, s) = {t[i].fill : i \in s}
      /\ DOMAIN BookOf(u, s) = {u[i].fill : i \in s}
      /\ BookOf(t, s) = [f \in DOMAIN BookOf(t, s) |-> BookOf(t, s)[f]]
      /\ BookOf(u, s) = [f \in DOMAIN BookOf(u, s) |-> BookOf(u, s)[f]]
  BY DEF BookOf
<1>6. QED BY <1>3, <1>4, <1>5

LEMMA LedgerStep ==
  ASSUME IInv, IInv', DBStep
  PROVE  [L!LedgerNext]_(L!ledgerVars)
<1>1. \A i, j \in Filled : rows[i].fill = rows[j].fill => i = j
  BY DEF IInv, FillBookedOnce
<1>2. \A i, j \in Filled' : rows'[i].fill = rows'[j].fill => i = j
  BY DEF IInv, FillBookedOnce
<1>3. \A i \in Filled : i \in DOMAIN rows /\ rows'[i] = rows[i]
  BY DEF Filled, DBStep
<1>4. CASE Filled' = Filled /\ cash' = cash
  <2>1. BookOf(rows', Filled') = BookOf(rows, Filled)
    BY <1>1, <1>3, <1>4, SameBook
  <2>2. QED BY <1>4, <2>1, BookIsBookOf
<1>5. CASE \E i \in DOMAIN rows' \ Filled :
             /\ Filled' = Filled \cup {i}
             /\ rows'[i].fill \in Requests \ BookedFills
             /\ cash' = cash + rows'[i].delta
  <2>1. PICK i \in DOMAIN rows' \ Filled :
          /\ Filled' = Filled \cup {i}
          /\ rows'[i].fill \in Requests \ BookedFills
          /\ cash' = cash + rows'[i].delta
    BY <1>5
  <2> DEFINE b == BookOf(rows, Filled)
             c == BookOf(rows', Filled')
  <2>2. DOMAIN b = BookedFills /\ DOMAIN c = {rows'[j].fill : j \in Filled'}
    BY DEF BookOf, BookedFills
  <2> PICK f \in Requests : f = rows'[i].fill
    BY <2>1
  <2>3. f \notin DOMAIN b
    BY <2>1, <2>2
  <2>4. DOMAIN c = DOMAIN b \cup {f}
    BY <1>3, <2>1, <2>2 DEF BookedFills
  <2>5. \A j \in Filled : b[rows[j].fill] = rows[j].delta
    BY <1>1, BookOfRow
  <2>6. \A j \in Filled' : c[rows'[j].fill] = rows'[j].delta
    BY <1>2, BookOfRow
  <2> HIDE DEF b, c
  <2>7. \A g \in DOMAIN b : c[g] = b[g]
    <3> SUFFICES ASSUME NEW g \in DOMAIN b PROVE c[g] = b[g]
      OBVIOUS
    <3>2. PICK j \in Filled : g = rows[j].fill
      BY <2>2 DEF BookedFills
    <3>3. b[g] = rows[j].delta
      BY <2>5, <3>2
    <3>4. j \in Filled' /\ rows'[j] = rows[j]
      BY <1>3, <2>1
    <3>5. c[rows'[j].fill] = rows'[j].delta
      BY <2>6, <3>4
    <3>6. QED BY <3>2, <3>3, <3>4, <3>5
  <2>8. c[f] = rows'[i].delta
    BY <2>1, <2>6
  <2>9. cash' = cash + c[f] /\ cash' >= 0
    BY <2>1, <2>8 DEF IInv, CashNeverNegative
  <2>10. L!Book(f)
    BY <2>3, <2>4, <2>7, <2>9 DEF b, c, L!Book, BookOf, BookedFills
  <2>11. L!LedgerNext
    BY <2>10 DEF L!LedgerNext
  <2>12. QED BY <2>11
<1>6. QED BY <1>4, <1>5 DEF DBStep, BooksAtMostOne

\* Whatever the servers do, the agent's row and the filled rows of its trades
\* behave as the abstract ledger: every fill is booked once, with its cash.
THEOREM LedgerImplemented == Spec => ImplementsLedger
<1>1. Init => L!LedgerInit
  <2>1. SUFFICES ASSUME Init PROVE L!LedgerInit
    OBVIOUS
  <2>2. DOMAIN rows = {} /\ cash = InitialCash
    <3>1. rows = << >> /\ cash = InitialCash
      BY <2>1 DEF Init
    <3>2. << >> \in Seq(Row) /\ DOMAIN << >> = {}
      BY EmptySeq
    <3>3. QED BY <3>1, <3>2
  <2>3. BookedFills = {}
    BY <2>2 DEF Filled, BookedFills
  <2>4. QED BY <2>2, <2>3 DEF L!LedgerInit
<1>2. IInv /\ IInv' /\ [Next]_vars => [L!LedgerNext]_(L!ledgerVars)
  BY NextIInv, LedgerStep
<1>3. QED BY <1>1, <1>2, Invariance, PTL DEF Spec, ImplementsLedger, L!LedgerSpec

-----------------------------------------------------------------------------
(* What the agent's advisory lock guarantees while no lock connection breaks: *)
(* the steps between taking and releasing it are exclusive, so the state a    *)
(* call has checked is the state it sends its order on.                       *)

\* Where a process has taken the lock and not yet released it.
CriticalPc == {"check", "gates", "send", "await", "finalize", "refuse",
               "fetch", "pending", "resolve", "orphans", "set", "unlock"}

Exclusive == \A p \in Procs : pc[p] \in CriticalPc => lock = p

\* What r has read and inserted, by where it is.
Holds(r) ==
  /\ pc[r] \in {"gates", "send"} => ~halted /\ seen[r] = cash
  /\ pc[r] \in InFlightPc => PendingOf(r)

LInv == Exclusive /\ \A r \in Requests : Holds(r)

-----------------------------------------------------------------------------
(* Steps under the lock and outside it. *)

LEMMA Alone ==
  ASSUME LInv, NEW p \in Procs, NEW q \in Procs, pc[p] \in CriticalPc, pc[q] \in CriticalPc
  PROVE  p = q
BY DEF LInv, Exclusive

LEMMA PcStep ==
  ASSUME TypeOK, NEW p \in Procs, NEW from, NEW to, Goto(p, from, to)
  PROVE  pc[p] = from /\ pc'[p] = to /\ \A q \in Procs : q # p => pc'[q] = pc[q]
BY DEF TypeOK, Goto

\* The lock's holder may change anything: nobody else relies on it.
LEMMA HolderStep ==
  ASSUME IInv, LInv, NEW p \in Procs, pc[p] \in CriticalPc, pc'[p] \in CriticalPc,
         \A q \in Procs : q # p => pc'[q] = pc[q],
         lock' = lock, p \in Requests => Holds(p)'
  PROVE  LInv'
<1>1. \A q \in Procs : q # p => pc'[q] \notin CriticalPc
  BY Alone
<1>2. Exclusive'
  BY <1>1 DEF LInv, Exclusive
<1>3. \A r \in Requests : Holds(r)'
  BY <1>1 DEF Holds, CriticalPc, InFlightPc, Procs
<1>4. QED BY <1>2, <1>3 DEF LInv

\* A process that does not reach the lock changes nothing anybody relies on.
LEMMA OutsiderStep ==
  ASSUME IInv, LInv, UNCHANGED <<dbVars, seen, lock>>,
         \A q \in Procs : pc'[q] # pc[q] => pc'[q] \notin CriticalPc
  PROVE  LInv'
<1>1. Exclusive'
  BY DEF LInv, Exclusive
<1>2. \A r \in Requests : Holds(r)'
  BY DEF LInv, Holds, PendingOf, Pending, CriticalPc, InFlightPc, Procs
<1>3. QED BY <1>1, <1>2 DEF LInv

\* The lock is given up by its holder, or with it.
LEMMA LeaveStep ==
  ASSUME IInv, LInv, NEW p \in Procs, pc'[p] \notin CriticalPc,
         \A q \in Procs : q # p => pc'[q] = pc[q],
         UNCHANGED <<dbVars, seen>>,
         lock' = IF lock = p THEN Nobody ELSE lock
  PROVE  LInv'
<1>1. Exclusive'
  BY DEF LInv, Exclusive
<1>2. \A r \in Requests : Holds(r)'
  BY DEF LInv, Holds, PendingOf, Pending, CriticalPc, InFlightPc, Procs
<1>3. QED BY <1>1, <1>2 DEF LInv

LEMMA AcquireStep ==
  ASSUME IInv, LInv, NEW p \in Procs, NEW next \in {"check", "fetch", "set"},
         AcquireLock(p, next)
  PROVE  LInv'
<1> USE DEF AcquireLock
<1>1. pc'[p] = next /\ \A q \in Procs : q # p => pc'[q] = pc[q]
  BY PcStep DEF IInv
<1>2. \A q \in Procs : pc[q] \notin CriticalPc
  BY ProcessesAssumption DEF LInv, Exclusive
<1>3. Exclusive'
  BY <1>1, <1>2 DEF Exclusive
<1>4. \A r \in Requests : Holds(r)'
  BY <1>1, <1>2 DEF Holds, CriticalPc, InFlightPc, Procs
<1>5. QED BY <1>3, <1>4 DEF LInv

LEMMA ReleaseStep ==
  ASSUME IInv, LInv, NEW p \in Procs, NEW next \in {"done", "idle"}, ReleaseLock(p, next)
  PROVE  LInv'
<1> USE DEF ReleaseLock
<1>1. pc'[p] = next /\ \A q \in Procs : q # p => pc'[q] = pc[q]
  BY PcStep DEF IInv
<1>2. QED BY <1>1, LeaveStep DEF CriticalPc

-----------------------------------------------------------------------------
(* submit_order. *)

\* A pending row that is only read stays.
LEMMA KeepsHolding ==
  ASSUME LInv, NEW r \in Requests, UNCHANGED <<dbVars, seen>>,
         pc'[r] \in {"gates", "send"} => pc[r] \in {"gates", "send"},
         pc'[r] \in InFlightPc => pc[r] \in InFlightPc
  PROVE  Holds(r)'
BY DEF LInv, Holds, PendingOf, Pending

LEMMA CheckOrderLocks ==
  ASSUME IInv, LInv, NEW r \in Requests, CheckOrder(r)
  PROVE  LInv'
<1>1. PICK a \in 0..req[r].value :
        /\ a = Admissible(r)
        /\ \/ a > 0 /\ Goto(r, "check", "gates") /\ UNCHANGED <<dbVars, boundVars>>
           \/ Goto(r, "check", "unlock") /\ RecordRejected(r)
  BY DEF CheckOrder
<1>2. /\ seen' = [seen EXCEPT ![r] = cash] /\ lock' = lock
  BY DEF CheckOrder
<1>3. /\ pc[r] = "check" /\ pc'[r] \in {"gates", "unlock"}
      /\ \A q \in Procs : q # r => pc'[q] = pc[q]
  BY <1>1, PcStep DEF IInv, Procs
<1>4. Holds(r)'
  <2>1. CASE a > 0 /\ Goto(r, "check", "gates") /\ UNCHANGED <<dbVars, boundVars>>
    <3>1. ~halted
      BY <1>1, <2>1 DEF Admissible
    <3>2. seen'[r] = cash
      BY <1>2 DEF IInv, TypeOK
    <3>3. QED BY <1>3, <2>1, <3>1, <3>2 DEF Holds, InFlightPc
  <2>2. CASE Goto(r, "check", "unlock") /\ RecordRejected(r)
    <3>1. pc'[r] = "unlock"
      BY <2>2, PcStep DEF IInv, Procs
    <3>2. QED BY <3>1 DEF Holds, InFlightPc
  <2>3. QED BY <1>1, <2>1, <2>2
<1>5. QED BY <1>2, <1>3, <1>4, HolderStep DEF CriticalPc, Procs

LEMMA AskGateLocks ==
  ASSUME IInv, LInv, NEW r \in Requests, NEW g \in Gates, AskGate(r, g)
  PROVE  LInv'
<1>1. /\ \/ Goto(r, "gates", "gates") /\ UNCHANGED <<dbVars, boundVars>>
         \/ Goto(r, "gates", "unlock") /\ RecordRejected(r)
      /\ lock' = lock /\ seen' = seen
  BY DEF AskGate
<1>2. /\ pc[r] = "gates" /\ pc'[r] \in {"gates", "unlock"}
      /\ pc'[r] = "gates" => UNCHANGED dbVars
      /\ \A q \in Procs : q # r => pc'[q] = pc[q]
  BY <1>1, PcStep DEF IInv, Procs
<1>3. Holds(r)'
  BY <1>1, <1>2 DEF LInv, Holds, InFlightPc
<1>4. QED BY <1>1, <1>2, <1>3, HolderStep DEF CriticalPc, Procs

LEMMA WriteAheadLocks ==
  ASSUME IInv, LInv, NEW r \in Requests, WriteAhead(r)
  PROVE  LInv'
<1>1. lock' = lock /\ seen' = seen
  BY DEF WriteAhead
<1>2. /\ pc[r] = "gates" /\ pc'[r] \in {"send", "unlock"}
      /\ \A q \in Procs : q # r => pc'[q] = pc[q]
      /\ pc'[r] = "send" => /\ rows' = Append(rows, NewRow(r, "pending"))
                            /\ UNCHANGED <<cash, halted>>
  BY PcStep DEF WriteAhead, IInv, Procs
<1>3. Holds(r)'
  <2>1. CASE pc'[r] = "unlock"
    BY <2>1 DEF Holds, InFlightPc
  <2>2. CASE pc'[r] = "send"
    <3> DEFINE e == NewRow(r, "pending")
               n == Len(rows) + 1
    <3>1. rows \in Seq(Row) /\ rows' = Append(rows, e) /\ e.st = "pending" /\ e.intent = r
      BY <1>2, <2>2 DEF IInv, TypeOK, NewRow
    <3> HIDE DEF e
    <3>2. n \in DOMAIN rows' /\ rows'[n] = e
      BY <3>1, AppendProperties, LenProperties
    <3>3. PendingOf(r)'
      BY <3>1, <3>2 DEF Pending, PendingOf
    <3>4. ~halted' /\ seen'[r] = cash'
      BY <1>1, <1>2, <2>2 DEF LInv, Holds
    <3>5. QED BY <3>3, <3>4 DEF Holds
  <2>3. QED BY <1>2, <2>1, <2>2
<1>4. QED BY <1>1, <1>2, <1>3, HolderStep DEF CriticalPc, Procs

LEMMA SendOrderLocks ==
  ASSUME IInv, LInv, NEW r \in Requests, SendOrder(r) \/ ReceiveAnswer(r)
  PROVE  LInv'
<1>1. UNCHANGED <<dbVars, seen, lock>>
  BY DEF SendOrder, ReceiveAnswer
<1>2. /\ pc[r] \in {"send", "await"} /\ pc'[r] \in {"await", "finalize", "refuse"}
      /\ \A q \in Procs : q # r => pc'[q] = pc[q]
  BY PcStep DEF SendOrder, ReceiveAnswer, IInv, Procs
<1>3. Holds(r)'
  BY <1>1, <1>2, KeepsHolding DEF InFlightPc
<1>4. QED BY <1>1, <1>2, <1>3, HolderStep DEF CriticalPc, Procs

LEMMA SettleLocks ==
  ASSUME IInv, LInv, NEW r \in Requests, Finalize(r) \/ RefuseOrder(r)
  PROVE  LInv'
<1>1. lock' = lock
  BY DEF Finalize, RefuseOrder
<1>2. /\ pc[r] \in {"finalize", "refuse"} /\ pc'[r] = "unlock"
      /\ \A q \in Procs : q # r => pc'[q] = pc[q]
  BY PcStep DEF Finalize, RefuseOrder, IInv, Procs
<1>3. Holds(r)'
  BY <1>2 DEF Holds, InFlightPc
<1>4. QED BY <1>1, <1>2, <1>3, HolderStep DEF CriticalPc, Procs

LEMMA SubmitOrderLocks ==
  ASSUME IInv, LInv, NEW r \in Requests, SubmitOrder(r)
  PROVE  LInv'
<1>1. CASE Submit(r)
  <2>1. pc'[r] = "lock" /\ \A q \in Procs : q # r => pc'[q] = pc[q]
    BY <1>1, PcStep DEF Submit, IInv, Procs
  <2>2. UNCHANGED <<dbVars, seen, lock>>
    BY <1>1 DEF Submit
  <2>3. QED BY <2>1, <2>2, OutsiderStep DEF CriticalPc
<1>2. CASE AcquireLock(r, "check") \/ ReleaseLock(r, "done")
  BY <1>2, AcquireStep, ReleaseStep DEF Procs
<1>3. QED
  BY <1>1, <1>2, CheckOrderLocks, AskGateLocks, WriteAheadLocks, SendOrderLocks, SettleLocks
     DEF SubmitOrder

-----------------------------------------------------------------------------
(* Reconciliation, the halt switch, the environment. *)

LEMMA ReconcilerLocks ==
  ASSUME IInv, LInv, NEW k \in Reconcilers, StartReconcile(k) \/ ReconcileStep(k)
  PROVE  LInv'
<1>1. k \in Procs /\ k \notin Requests
  BY ProcessesAssumption DEF Procs
<1>2. CASE StartReconcile(k)
  <2>1. pc'[k] = "lock" /\ \A q \in Procs : q # k => pc'[q] = pc[q]
    BY <1>1, <1>2, PcStep DEF StartReconcile, IInv
  <2>2. UNCHANGED <<dbVars, seen, lock>>
    BY <1>2 DEF StartReconcile
  <2>3. QED BY <2>1, <2>2, OutsiderStep DEF CriticalPc
<1>3. CASE AcquireLock(k, "fetch") \/ ReleaseLock(k, "idle")
  BY <1>1, <1>3, AcquireStep, ReleaseStep
<1>4. CASE FetchHistory(k)
  <2>1. /\ pc[k] = "fetch" /\ pc'[k] \in {"unlock", "pending"}
        /\ \A q \in Procs : q # k => pc'[q] = pc[q]
    BY <1>1, <1>4, PcStep DEF FetchHistory, IInv
  <2>2. lock' = lock
    BY <1>4 DEF FetchHistory
  <2>3. QED BY <1>1, <2>1, <2>2, HolderStep DEF CriticalPc
<1>5. CASE ReadPending(k) \/ ResolvePending(k) \/ ReadKnown(k) \/ InsertOrphan(k)
           \/ FinishReconcile(k)
  <2>1. /\ pc[k] \in {"pending", "resolve", "orphans"}
        /\ pc'[k] \in {"resolve", "orphans", "unlock"}
        /\ \A q \in Procs : q # k => pc'[q] = pc[q]
    BY <1>1, <1>5, PcStep
       DEF ReadPending, ResolvePending, FinalizePendingFromHistory, ReadKnown, InsertOrphan,
           FinishReconcile, IInv
  <2>2. lock' = lock
    BY <1>5 DEF ReadPending, ResolvePending, FinalizePendingFromHistory, ReadKnown, InsertOrphan,
        FinishReconcile
  <2>3. QED BY <1>1, <2>1, <2>2, HolderStep DEF CriticalPc
<1>6. QED BY <1>2, <1>3, <1>4, <1>5 DEF ReconcileStep

LEMMA SetHaltedLocks ==
  ASSUME IInv, LInv, NEW o \in Operators, SetHalted(o)
  PROVE  LInv'
<1>1. o \in Procs /\ o \notin Requests
  BY ProcessesAssumption DEF Procs
<1>2. CASE /\ Goto(o, "new", "lock")
           /\ UNCHANGED <<now, lock, dbVars, exchVars, callVars, recVars, boundVars>>
  <2>1. pc'[o] = "lock" /\ \A q \in Procs : q # o => pc'[q] = pc[q]
    BY <1>1, <1>2, PcStep DEF IInv
  <2>2. QED BY <1>2, <2>1, OutsiderStep DEF CriticalPc
<1>3. CASE WriteHalted(o)
  <2>1. /\ pc[o] = "set" /\ pc'[o] = "unlock" /\ lock' = lock
        /\ \A q \in Procs : q # o => pc'[q] = pc[q]
    BY <1>1, <1>3, PcStep DEF WriteHalted, IInv
  <2>2. QED BY <1>1, <2>1, HolderStep DEF CriticalPc
<1>4. CASE AcquireLock(o, "set") \/ ReleaseLock(o, "done")
  BY <1>1, <1>4, AcquireStep, ReleaseStep
<1>5. QED BY <1>2, <1>3, <1>4 DEF SetHalted

LEMMA CrashLocks ==
  ASSUME IInv, LInv, NEW p \in Procs, Crash(p)
  PROVE  LInv'
<1>1. /\ pc'[p] \in {"idle", "done"} /\ \A q \in Procs : q # p => pc'[q] = pc[q]
  BY DEF Crash, IInv, TypeOK
<1>2. UNCHANGED <<dbVars, seen>> /\ lock' = IF lock = p THEN Nobody ELSE lock
  BY DEF Crash
<1>3. QED BY <1>1, <1>2, LeaveStep DEF CriticalPc

LEMMA NextLocks ==
  ASSUME MaxLockLosses = 0, IInv, LInv, [Next]_vars
  PROVE  LInv'
<1>1. CASE \E r \in Requests : SubmitOrder(r)
  BY <1>1, SubmitOrderLocks
<1>2. CASE \E r \in Requests : ExecuteOrder(r) \/ RefuseAtExchange(r)
  BY <1>2, OutsiderStep DEF ExecuteOrder, RefuseAtExchange
<1>3. CASE \E k \in Reconcilers : StartReconcile(k) \/ ReconcileStep(k)
  BY <1>3, ReconcilerLocks
<1>4. CASE \E o \in Operators : SetHalted(o)
  BY <1>4, SetHaltedLocks
<1>5. CASE \E p \in Procs : Crash(p)
  BY <1>5, CrashLocks
<1>6. CASE LoseLock
  BY <1>6 DEF LoseLock, IInv, TypeOK
<1>7. CASE Tick \/ UNCHANGED vars
  BY <1>7, OutsiderStep DEF Tick, vars
<1>8. QED BY <1>1, <1>2, <1>3, <1>4, <1>5, <1>6, <1>7 DEF Next

LEMMA InitLocks == Init => LInv
BY DEF Init, LInv, Exclusive, Holds, CriticalPc, InFlightPc, Procs

LEMMA Locking == MaxLockLosses = 0 /\ Spec => []LInv
<1>1. SUFFICES ASSUME MaxLockLosses = 0 PROVE Spec => []LInv
  OBVIOUS
<1>2. IInv /\ LInv /\ [Next]_vars => LInv'
  BY <1>1, NextLocks
<1>3. QED BY <1>2, InitLocks, Invariance, PTL DEF Spec

-----------------------------------------------------------------------------
(* What follows for the orders. *)

\* Only a call that is about to send does.
LEMMA OnlySendOrderSends ==
  ASSUME TypeOK, [Next]_vars, NEW r \in Requests, Sends(r)
  PROVE  pc[r] = "send"
<1>1. order'[r] # order[r] /\ order'[r] # "filled" /\ order'[r] # "refused"
  BY DEF Sends
<1>2. CASE \E q \in Requests : SubmitOrder(q)
  <2>1. PICK q \in Requests : SubmitOrder(q)
    BY <1>2
  <2>2. SendOrder(q)
    BY <1>1, <2>1 DEF SubmitOrder, Submit, AcquireLock, CheckOrder, AskGate, WriteAhead,
                      ReceiveAnswer, Finalize, RefuseOrder, ReleaseLock
  <2>3. q = r
    BY <1>1, <2>2 DEF SendOrder, TypeOK
  <2>4. QED BY <2>2, <2>3 DEF SendOrder, Goto
<1>3. CASE \E q \in Requests : ExecuteOrder(q) \/ RefuseAtExchange(q)
  BY <1>1, <1>3 DEF ExecuteOrder, RefuseAtExchange, TypeOK
<1>4. CASE \E k \in Reconcilers : StartReconcile(k) \/ ReconcileStep(k)
  BY <1>1, <1>4 DEF StartReconcile, ReconcileStep, AcquireLock, FetchHistory, ReadPending,
                    ResolvePending, FinalizePendingFromHistory, ReadKnown, InsertOrphan,
                    FinishReconcile, ReleaseLock
<1>5. CASE \E o \in Operators : SetHalted(o)
  BY <1>1, <1>5 DEF SetHalted, AcquireLock, WriteHalted, ReleaseLock
<1>6. CASE (\E p \in Procs : Crash(p)) \/ LoseLock \/ Tick \/ UNCHANGED vars
  BY <1>1, <1>6 DEF Crash, LoseLock, Tick, vars
<1>7. QED BY <1>2, <1>3, <1>4, <1>5, <1>6 DEF Next

\* No order goes out for a halted agent: what CheckOrder read still holds.
THEOREM HaltHolds == MaxLockLosses = 0 /\ Spec => HaltStopsOrders
<1>1. IInv /\ LInv /\ [Next]_vars => [\A r \in Requests : Sends(r) => ~halted]_<<order, halted>>
  BY OnlySendOrderSends DEF IInv, LInv, Holds
<1>2. QED BY <1>1, Locking, Invariance, PTL DEF Spec, HaltStopsOrders

\* Every order goes out on the cash its call has checked.
THEOREM CashIsFresh == MaxLockLosses = 0 /\ Spec => OrdersUseFreshCash
<1>1. IInv /\ LInv /\ [Next]_vars =>
        [\A r \in Requests : Sends(r) => seen[r] = cash]_<<order, seen, cash>>
  BY OnlySendOrderSends DEF IInv, LInv, Holds
<1>2. QED BY <1>1, Locking, Invariance, PTL DEF Spec, OrdersUseFreshCash

\* The row of a call whose order is at the exchange stays pending.
THEOREM RowsInFlight == MaxLockLosses = 0 /\ Spec => []InFlightRowsStayPending
<1>1. LInv => InFlightRowsStayPending
  BY DEF LInv, Holds, InFlightRowsStayPending, InFlightPc
<1>2. QED BY <1>1, Locking, PTL

-----------------------------------------------------------------------------
(* Whose fill a row carries. *)

\* Where a call is that has inserted a row or sent its order.
LatePc == {"send", "await", "finalize", "refuse", "unlock", "done"}
SentPc == LatePc \ {"send"}

\* What a call or a reconciliation takes for executed, the exchange has executed.
CallInv ==
  /\ \A r \in Requests : HasRow(r) => pc[r] \in LatePc
  /\ \A r \in Requests : order[r] # "none" => pc[r] \in SentPc
  /\ \A r \in Requests : pc[r] = "finalize" => order[r] = "filled"
  /\ \A k \in Reconcilers : \A f \in hist[k] : order[f] = "filled"

WellBooked(i) ==
  /\ order[rows[i].fill] = "filled"
  /\ \/ BookedWithOwn(i)
     \/ BookedWithLookalike(i) /\ Ended(rows[i].intent) /\ Ended(rows[i].fill)

FillInv == CallInv /\ \A i \in Filled : WellBooked(i)

\* Calls only go on, and what was executed stays so.
CallsGoOn ==
  /\ \A r \in Requests : /\ pc[r] \in LatePc => pc'[r] \in LatePc /\ req'[r] = req[r]
                         /\ pc[r] \in SentPc => pc'[r] \in SentPc
                         /\ Ended(r) => Ended(r)'
                         /\ HasRow(r)' => HasRow(r) \/ pc'[r] \in LatePc
                         /\ order'[r] # order[r] => pc'[r] \in SentPc
                         /\ order[r] = "filled" => order'[r] = "filled" /\ fills'[r] = fills[r]
                         /\ pc'[r] = "finalize" => pc[r] = "finalize" \/ order'[r] = "filled"
  /\ \A k \in Reconcilers : \A f \in hist'[k] : f \in hist[k] \/ order'[f] = "filled"

LEMMA FillsKept ==
  ASSUME IInv, DBStep, FillInv, CallsGoOn, hist' \in [Reconcilers -> SUBSET Requests],
         \A i \in Filled' \ Filled : WellBooked(i)'
  PROVE  FillInv'
<1>1. CallInv'
  <2>1. CallInv /\ hist \in [Reconcilers -> SUBSET Requests]
    BY DEF FillInv, IInv, TypeOK
  <2>2. /\ \A r \in Requests : HasRow(r)' => pc'[r] \in LatePc
        /\ \A r \in Requests : order'[r] # "none" => pc'[r] \in SentPc
    BY <2>1 DEF CallInv, CallsGoOn
  <2>3. \A r \in Requests : pc'[r] = "finalize" => order'[r] = "filled"
    BY <2>1 DEF CallInv, CallsGoOn
  <2>4. \A k \in Reconcilers : \A f \in hist'[k] : order'[f] = "filled"
    BY <2>1 DEF CallInv, CallsGoOn
  <2> QED BY <2>2, <2>3, <2>4 DEF CallInv
<1>2. ASSUME NEW i \in Filled PROVE WellBooked(i)'
  <2>0. PICK r, f : r = rows[i].intent /\ f = rows[i].fill
    OBVIOUS
  <2>1. rows'[i] = rows[i] /\ i \in DOMAIN rows
    BY DEF DBStep, Filled
  <2>2. f \in Requests /\ r \in Requests \cup {Nobody}
    <3>1. rows[i] \in Row
      BY <2>1, ElementOfSeq, LenProperties DEF IInv, TypeOK
    <3> QED BY <2>0, <2>1, <3>1 DEF Row, Filled, IInv, RowsCarryFills
  <2>3. WellBooked(i)
    BY DEF FillInv
  <2>4. order[f] = "filled" /\ pc[f] \in LatePc
    BY <2>0, <2>2, <2>3 DEF WellBooked, FillInv, CallInv, SentPc
  <2>5. order'[f] = "filled" /\ fills'[f] = fills[f] /\ req'[f] = req[f]
    BY <2>2, <2>4 DEF CallsGoOn
  <2>6. CASE BookedWithOwn(i)
    BY <2>0, <2>1, <2>5, <2>6 DEF WellBooked, BookedWithOwn
  <2>7. CASE ~BookedWithOwn(i)
    <3>1. r \in Requests /\ BookedWithLookalike(i) /\ Ended(r) /\ Ended(f)
      BY <2>0, <2>2, <2>3, <2>7 DEF WellBooked, BookedWithOwn
    <3>2. Ended(r)' /\ Ended(f)'
      BY <2>2, <3>1 DEF CallsGoOn
    <3>3. BookedWithLookalike(i)'
      BY <2>0, <2>1, <2>5, <3>1 DEF BookedWithLookalike, Distance
    <3>4. Ended(rows[i].intent)' /\ Ended(rows[i].fill)'
      BY <2>0, <2>1, <3>2 DEF Ended
    <3> QED BY <2>0, <2>1, <2>5, <3>3, <3>4 DEF WellBooked
  <2> QED BY <2>6, <2>7
<1> QED BY <1>1, <1>2 DEF FillInv

-----------------------------------------------------------------------------
(* The statements. *)

LEMMA NothingBooked ==
  ASSUME UNCHANGED rows
  PROVE  Filled' = Filled /\ \A r \in Requests : HasRow(r)' => HasRow(r)
BY DEF Filled, HasRow

LEMMA RowInserted ==
  ASSUME IInv, NEW r \in Requests, NEW st \in {"pending", "reject"},
         rows' = Append(rows, NewRow(r, st)), DBStep
  PROVE  Filled' = Filled /\ \A q \in Requests : HasRow(q)' => HasRow(q) \/ q = r
<1> DEFINE e == NewRow(r, st)
           n == Len(rows) + 1
<1>1. rows \in Seq(Row) /\ e.st = st /\ e.intent = r
  BY DEF IInv, TypeOK, NewRow
<1> HIDE DEF e
<1>2. /\ DOMAIN rows' = DOMAIN rows \cup {n} /\ n \notin DOMAIN rows
      /\ rows'[n] = e /\ \A j \in DOMAIN rows : rows'[j] = rows[j]
  BY <1>1, AppendProperties, LenProperties DEF e
<1> HIDE DEF n
<1> QED BY <1>1, <1>2 DEF Filled, HasRow

LEMMA RejectionRecorded ==
  ASSUME IInv, DBStep, NEW r \in Requests, RecordRejected(r)
  PROVE  Filled' = Filled /\ \A q \in Requests : HasRow(q)' => HasRow(q) \/ q = r
BY RowInserted, NothingBooked DEF RecordRejected

\* What a statement changes that looks at row i.
LEMMA RowChanged ==
  ASSUME IInv, NEW i \in DOMAIN rows, NEW e \in Row, e.intent = rows[i].intent,
         rows' = [rows EXCEPT ![i] = e]
  PROVE  /\ \A r \in Requests : HasRow(r)' => HasRow(r)
         /\ \A j \in Filled' \ Filled : j = i /\ rows'[j] = e
<1>1. DOMAIN rows' = DOMAIN rows /\ \A j \in DOMAIN rows : rows'[j] = IF j = i THEN e ELSE rows[j]
  BY ChangeRow DEF IInv, TypeOK
<1> QED BY <1>1 DEF HasRow, Filled

LEMMA RowRejected ==
  ASSUME IInv, NEW i \in DOMAIN rows, RejectPendingTrade(i)
  PROVE  Filled' \subseteq Filled /\ \A r \in Requests : HasRow(r)' => HasRow(r)
<1>1. CASE rows[i].st # "pending"
  BY <1>1, NothingBooked DEF RejectPendingTrade
<1>2. CASE rows[i].st = "pending"
  <2> DEFINE e == [rows[i] EXCEPT !.st = "reject"]
  <2>1. rows[i] \in Row
    BY ElementOfSeq, LenProperties DEF IInv, TypeOK
  <2>2. e \in Row /\ e.intent = rows[i].intent /\ e.st = "reject"
    BY <2>1 DEF Row, RowStatus
  <2>3. rows' = [rows EXCEPT ![i] = e]
    BY <1>2 DEF RejectPendingTrade
  <2> HIDE DEF e
  <2>4. /\ \A r \in Requests : HasRow(r)' => HasRow(r)
        /\ \A j \in Filled' \ Filled : j = i /\ rows'[j] = e
    BY <2>2, <2>3, RowChanged
  <2>5. \A j \in Filled' : rows'[j].st = "fill"
    BY DEF Filled
  <2> QED BY <2>2, <2>4, <2>5
<1> QED BY <1>1, <1>2

LEMMA RowFinalized ==
  ASSUME IInv, NEW i \in DOMAIN rows, NEW f \in Requests, FinalizeTrade(i, f)
  PROVE  /\ \A r \in Requests : HasRow(r)' => HasRow(r)
         /\ \A j \in Filled' \ Filled :
              /\ j = i /\ rows'[j].fill = f /\ rows'[j].intent = rows[i].intent
              /\ rows'[j].pair = rows[i].pair /\ rows'[j].side = rows[i].side /\ rows'[j].ts = rows[i].ts
<1>1. CASE ~(rows[i].st = "pending" /\ Bookable(f))
  BY <1>1, NothingBooked DEF FinalizeTrade
<1>2. CASE rows[i].st = "pending" /\ Bookable(f)
  <2> DEFINE e == [rows[i] EXCEPT !.st = "fill", !.fill = f,
                                  !.delta = fills[f].delta, !.qty = fills[f].qty]
  <2>1. rows[i] \in Row /\ fills[f].delta \in Int /\ fills[f].qty \in Nat
    BY ElementOfSeq, LenProperties DEF IInv, TypeOK
  <2>2. /\ e \in Row /\ e.intent = rows[i].intent /\ e.fill = f
        /\ e.pair = rows[i].pair /\ e.side = rows[i].side /\ e.ts = rows[i].ts
    BY <2>1 DEF Row, RowStatus
  <2>3. rows' = [rows EXCEPT ![i] = e]
    BY <1>2 DEF FinalizeTrade
  <2> HIDE DEF e
  <2>4. /\ \A r \in Requests : HasRow(r)' => HasRow(r)
        /\ \A j \in Filled' \ Filled : j = i /\ rows'[j] = e
    BY <2>2, <2>3, RowChanged
  <2> QED BY <2>2, <2>4
<1> QED BY <1>1, <1>2

LEMMA OrphanBooked ==
  ASSUME IInv, NEW f \in Requests, RecordOrphan(f)
  PROVE  /\ \A r \in Requests : HasRow(r)' => HasRow(r)
         /\ \A j \in Filled' \ Filled : rows'[j].fill = f /\ rows'[j].intent = Nobody
<1>1. CASE ~Bookable(f)
  BY <1>1, NothingBooked DEF RecordOrphan
<1>2. CASE Bookable(f)
  <2> DEFINE e == [st |-> "fill", pair |-> req[f].pair, side |-> req[f].side,
                   ts |-> fills[f].ts, intent |-> Nobody, fill |-> f,
                   delta |-> fills[f].delta, qty |-> fills[f].qty]
             n == Len(rows) + 1
  <2>1. rows \in Seq(Row) /\ rows' = Append(rows, e) /\ e.fill = f /\ e.intent = Nobody
    BY <1>2 DEF RecordOrphan, IInv, TypeOK
  <2> HIDE DEF e
  <2>2. /\ DOMAIN rows' = DOMAIN rows \cup {n}
        /\ rows'[n] = e /\ \A j \in DOMAIN rows : rows'[j] = rows[j]
    BY <2>1, AppendProperties, LenProperties
  <2> HIDE DEF n
  <2>3. Nobody \notin Requests
    BY ProcessesAssumption DEF Procs
  <2> QED BY <2>1, <2>2, <2>3 DEF Filled, HasRow
<1> QED BY <1>1, <1>2

-----------------------------------------------------------------------------
(* submit_order. *)

\* A step of call r alone, which books nothing or with its own fill.
LEMMA OwnStep ==
  ASSUME IInv, IInv', DBStep, FillInv, NEW r \in Requests,
         \A q \in Procs : q # r => pc'[q] = pc[q],
         UNCHANGED <<fills, hist>>,
         pc[r] \in LatePc => pc'[r] \in LatePc,
         pc[r] \in SentPc => pc'[r] \in SentPc, Ended(r) => Ended(r)',
         pc'[r] = "finalize" => order[r] = "filled",
         \A q \in Requests : q # r => req'[q] = req[q] /\ order'[q] = order[q],
         order[r] = "filled" => order'[r] = "filled",
         pc[r] \in LatePc => req'[r] = req[r], order'[r] # order[r] => pc'[r] \in SentPc,
         \A q \in Requests \ {r} : HasRow(q)' => HasRow(q), HasRow(r)' => HasRow(r) \/ pc'[r] \in LatePc,
         \A i \in Filled' \ Filled : order'[rows'[i].fill] = "filled" /\ BookedWithOwn(i)'
  PROVE  FillInv'
<1>1. Requests \subseteq Procs
  BY DEF Procs
<1>2. \A q \in Requests : (Ended(q) => Ended(q)')
  BY <1>1 DEF Ended
<1>3. CallsGoOn
  BY <1>1, <1>2 DEF CallsGoOn
<1>4. \A i \in Filled' \ Filled : WellBooked(i)'
  BY DEF WellBooked
<1>5. hist' \in [Reconcilers -> SUBSET Requests]
  BY DEF IInv, TypeOK
<1> QED BY <1>3, <1>4, <1>5, FillsKept

LEMMA CallFills ==
  ASSUME IInv, IInv', DBStep, FillInv, NEW r \in Requests, SubmitOrder(r)
  PROVE  FillInv'
<1>0. TypeOK /\ r \in Procs /\ CallInv
  BY DEF IInv, FillInv, Procs
<1>1. CASE Submit(r)
  <2>1. pc[r] = "new" /\ pc'[r] = "lock" /\ \A q \in Procs : q # r => pc'[q] = pc[q]
    BY <1>0, <1>1, PcStep DEF Submit
  <2>2. /\ \A q \in Requests : q # r => req'[q] = req[q]
        /\ UNCHANGED <<fills, hist, order, rows>>
    BY <1>0, <1>1 DEF Submit, TypeOK
  <2>3. Filled' = Filled /\ (HasRow(r)' => HasRow(r)) /\ \A q \in Requests \ {r} : HasRow(q)' => HasRow(q)
    BY <2>2, NothingBooked
  <2>4. Ended(r) => Ended(r)'
    BY <2>1 DEF Ended
  <2> QED BY <2>1, <2>2, <2>3, <2>4, OwnStep DEF LatePc, SentPc, HasRow
<1>2. CASE AcquireLock(r, "check")
  <2>1. pc[r] = "lock" /\ pc'[r] = "check" /\ \A q \in Procs : q # r => pc'[q] = pc[q]
    BY <1>0, <1>2, PcStep DEF AcquireLock
  <2>2. UNCHANGED <<fills, hist, order, rows, req>>
    BY <1>2 DEF AcquireLock
  <2>3. Filled' = Filled /\ (HasRow(r)' => HasRow(r)) /\ \A q \in Requests \ {r} : HasRow(q)' => HasRow(q)
    BY <2>2, NothingBooked
  <2>4. Ended(r) => Ended(r)'
    BY <2>1 DEF Ended
  <2> QED BY <2>1, <2>2, <2>3, <2>4, OwnStep DEF LatePc, SentPc, HasRow
<1>3. CASE CheckOrder(r)
  <2>1. /\ UNCHANGED <<fills, hist, order, req>>
        /\ \/ Goto(r, "check", "gates") /\ UNCHANGED rows
           \/ Goto(r, "check", "unlock") /\ RecordRejected(r)
    BY <1>3 DEF CheckOrder
  <2>2. pc[r] = "check" /\ pc'[r] \in {"gates", "unlock"} /\ \A q \in Procs : q # r => pc'[q] = pc[q]
    BY <1>0, <2>1, PcStep
  <2>3. /\ Filled' = Filled /\ \A q \in Requests \ {r} : HasRow(q)' => HasRow(q)
        /\ HasRow(r)' => HasRow(r) \/ pc'[r] = "unlock"
    <3>1. CASE Goto(r, "check", "gates") /\ UNCHANGED rows
      <4>1. Filled' = Filled /\ \A q \in Requests : HasRow(q)' => HasRow(q)
        BY <3>1, NothingBooked
      <4> QED BY <4>1 DEF HasRow
    <3>2. CASE Goto(r, "check", "unlock") /\ RecordRejected(r)
      <4>1. pc'[r] = "unlock"
        BY <1>0, <3>2, PcStep
      <4> QED BY <3>2, <4>1, RejectionRecorded
    <3> QED BY <2>1, <3>1, <3>2
  <2> QED BY <2>1, <2>2, <2>3, OwnStep DEF LatePc, SentPc, HasRow, Ended
<1>4. ASSUME NEW g \in Gates, AskGate(r, g) PROVE FillInv'
  <2>1. /\ UNCHANGED <<fills, hist, order, req>>
        /\ \/ Goto(r, "gates", "gates") /\ UNCHANGED rows
           \/ Goto(r, "gates", "unlock") /\ RecordRejected(r)
    BY <1>4 DEF AskGate
  <2>2. pc[r] = "gates" /\ pc'[r] \in {"gates", "unlock"} /\ \A q \in Procs : q # r => pc'[q] = pc[q]
    BY <1>0, <2>1, PcStep
  <2>3. /\ Filled' = Filled /\ \A q \in Requests \ {r} : HasRow(q)' => HasRow(q)
        /\ HasRow(r)' => HasRow(r) \/ pc'[r] = "unlock"
    <3>1. CASE Goto(r, "gates", "gates") /\ UNCHANGED rows
      <4>1. Filled' = Filled /\ \A q \in Requests : HasRow(q)' => HasRow(q)
        BY <3>1, NothingBooked
      <4> QED BY <4>1 DEF HasRow
    <3>2. CASE Goto(r, "gates", "unlock") /\ RecordRejected(r)
      <4>1. pc'[r] = "unlock"
        BY <1>0, <3>2, PcStep
      <4> QED BY <3>2, <4>1, RejectionRecorded
    <3> QED BY <2>1, <3>1, <3>2
  <2> QED BY <2>1, <2>2, <2>3, OwnStep DEF LatePc, SentPc, HasRow, Ended
<1>5. CASE WriteAhead(r)
  <2>1. /\ UNCHANGED <<fills, hist, order, req>>
        /\ \/ Goto(r, "gates", "send") /\ rows' = Append(rows, NewRow(r, "pending"))
           \/ Goto(r, "gates", "unlock") /\ UNCHANGED rows
    BY <1>5 DEF WriteAhead
  <2>2. pc[r] = "gates" /\ pc'[r] \in {"send", "unlock"} /\ \A q \in Procs : q # r => pc'[q] = pc[q]
    BY <1>0, <2>1, PcStep
  <2>3. Filled' = Filled /\ \A q \in Requests \ {r} : HasRow(q)' => HasRow(q)
    BY <2>1, NothingBooked, RowInserted
  <2> QED BY <2>1, <2>2, <2>3, OwnStep DEF LatePc, SentPc, HasRow, Ended
<1>6. CASE SendOrder(r)
  <2>1. /\ UNCHANGED <<fills, hist, rows, req>> /\ Goto(r, "send", "await")
        /\ order' = [order EXCEPT ![r] = "sent"]
    BY <1>6 DEF SendOrder
  <2>2. pc[r] = "send" /\ pc'[r] = "await" /\ order[r] = "none"
        /\ \A q \in Procs : q # r => pc'[q] = pc[q]
    BY <1>0, <2>1, PcStep DEF CallInv, SentPc
  <2>3. \A q \in Requests : q # r => order'[q] = order[q]
    BY <1>0, <2>1 DEF TypeOK
  <2>4. Filled' = Filled /\ (HasRow(r)' => HasRow(r)) /\ \A q \in Requests \ {r} : HasRow(q)' => HasRow(q)
    BY <2>1, NothingBooked
  <2>5. Ended(r) => Ended(r)'
    BY <2>2 DEF Ended
  <2> QED BY <2>1, <2>2, <2>3, <2>4, <2>5, OwnStep DEF LatePc, SentPc, HasRow
<1>7. CASE ReceiveAnswer(r)
  <2>1. /\ UNCHANGED <<fills, hist, rows, req, order>>
        /\ \/ Goto(r, "await", "finalize") /\ order[r] = "filled"
           \/ Goto(r, "await", "refuse")
    BY <1>7 DEF ReceiveAnswer
  <2>2. /\ pc[r] = "await" /\ pc'[r] \in {"finalize", "refuse"}
        /\ pc'[r] = "finalize" => order[r] = "filled"
        /\ \A q \in Procs : q # r => pc'[q] = pc[q]
    BY <1>0, <2>1, PcStep
  <2>3. Filled' = Filled /\ (HasRow(r)' => HasRow(r)) /\ \A q \in Requests \ {r} : HasRow(q)' => HasRow(q)
    BY <2>1, NothingBooked
  <2>4. Ended(r) => Ended(r)'
    BY <2>2 DEF Ended
  <2> QED BY <2>1, <2>2, <2>3, <2>4, OwnStep DEF LatePc, SentPc, HasRow
<1>8. CASE Finalize(r)
  <2>1. /\ UNCHANGED <<fills, hist, req, order>> /\ Goto(r, "finalize", "unlock")
        /\ FinalizeTrade(RowOf(r), r) \/ UNCHANGED rows
    BY <1>8 DEF Finalize
  <2>2. /\ pc[r] = "finalize" /\ pc'[r] = "unlock" /\ order[r] = "filled"
        /\ \A q \in Procs : q # r => pc'[q] = pc[q]
    BY <1>0, <2>1, PcStep DEF CallInv
  <2>3. RowOf(r) \in DOMAIN rows /\ rows[RowOf(r)].intent = r
    BY <1>0, <2>2 DEF RowOf, IInv, CallsOnRecord, InFlightPc, HasRow
  <2>4. /\ \A q \in Requests \ {r} : HasRow(q)' => HasRow(q)
        /\ \A i \in Filled' \ Filled : order'[rows'[i].fill] = "filled" /\ BookedWithOwn(i)'
    BY <2>1, <2>2, <2>3, NothingBooked, RowFinalized DEF BookedWithOwn
  <2> QED BY <2>1, <2>2, <2>4, OwnStep DEF LatePc, SentPc, HasRow, Ended
<1>9. CASE RefuseOrder(r)
  <2>1. /\ UNCHANGED <<fills, hist, req, order>> /\ Goto(r, "refuse", "unlock")
        /\ RejectPendingTrade(RowOf(r)) \/ UNCHANGED rows
    BY <1>9 DEF RefuseOrder
  <2>2. /\ pc[r] = "refuse" /\ pc'[r] = "unlock" /\ \A q \in Procs : q # r => pc'[q] = pc[q]
    BY <1>0, <2>1, PcStep
  <2>3. RowOf(r) \in DOMAIN rows
    BY <1>0, <2>2 DEF RowOf, IInv, CallsOnRecord, InFlightPc, HasRow
  <2>4. Filled' \subseteq Filled /\ \A q \in Requests \ {r} : HasRow(q)' => HasRow(q)
    BY <2>1, <2>3, NothingBooked, RowRejected
  <2> QED BY <2>1, <2>2, <2>4, OwnStep DEF LatePc, SentPc, HasRow, Ended
<1>10. CASE ReleaseLock(r, "done")
  <2>1. pc[r] = "unlock" /\ pc'[r] = "done" /\ \A q \in Procs : q # r => pc'[q] = pc[q]
    BY <1>0, <1>10, PcStep DEF ReleaseLock
  <2>2. UNCHANGED <<fills, hist, order, rows, req>>
    BY <1>10 DEF ReleaseLock
  <2>3. Filled' = Filled /\ (HasRow(r)' => HasRow(r)) /\ \A q \in Requests \ {r} : HasRow(q)' => HasRow(q)
    BY <2>2, NothingBooked
  <2>4. Ended(r) => Ended(r)'
    BY <2>1 DEF Ended
  <2> QED BY <2>1, <2>2, <2>3, <2>4, OwnStep DEF LatePc, SentPc, HasRow
<1> QED BY <1>1, <1>2, <1>3, <1>4, <1>5, <1>6, <1>7, <1>8, <1>9, <1>10 DEF SubmitOrder

-----------------------------------------------------------------------------
(* The exchange, reconciliation, the environment. *)

\* No call moves.
LEMMA OthersStep ==
  ASSUME IInv, IInv', DBStep, FillInv, UNCHANGED req,
         \A q \in Requests : /\ pc[q] \in LatePc => pc'[q] \in LatePc
                             /\ pc[q] \in SentPc => pc'[q] \in SentPc
                             /\ Ended(q) => Ended(q)'
                             /\ pc'[q] = "finalize" => pc[q] = "finalize"
                             /\ HasRow(q)' => HasRow(q)
                             /\ order'[q] # order[q] => order[q] = "sent"
                             /\ fills'[q] # fills[q] => order[q] = "sent",
         \A k \in Reconcilers : \A f \in hist'[k] : f \in hist[k] \/ order'[f] = "filled",
         \A i \in Filled' \ Filled : WellBooked(i)'
  PROVE  FillInv'
<1>1. \A q \in Requests : order[q] # "none" => pc[q] \in SentPc
  BY DEF FillInv, CallInv
<1>2. CallsGoOn
  BY <1>1 DEF CallsGoOn
<1>3. hist' \in [Reconcilers -> SUBSET Requests]
  BY DEF IInv, TypeOK
<1> QED BY <1>2, <1>3, FillsKept

LEMMA ExchangeFills ==
  ASSUME IInv, IInv', DBStep, FillInv, NEW r \in Requests, ExecuteOrder(r) \/ RefuseAtExchange(r)
  PROVE  FillInv'
<1>1. /\ UNCHANGED <<rows, pc, req, hist>> /\ order[r] = "sent"
      /\ \E a \in {"filled", "refused"} : order' = [order EXCEPT ![r] = a]
  BY DEF ExecuteOrder, RefuseAtExchange
<1>2. fills' = fills \/ \E e : fills' = [fills EXCEPT ![r] = e]
  BY DEF ExecuteOrder, RefuseAtExchange
<1>3. \A q \in Requests : /\ order'[q] # order[q] => order[q] = "sent"
                          /\ fills'[q] # fills[q] => order[q] = "sent"
  BY <1>1, <1>2 DEF IInv, TypeOK
<1> QED BY <1>1, <1>3, OthersStep, NothingBooked DEF Ended

LEMMA ReconcilerFills ==
  ASSUME IInv, IInv', DBStep, LInv, FillInv, NEW k \in Reconcilers, StartReconcile(k) \/ ReconcileStep(k)
  PROVE  FillInv'
<1>0. /\ k \in Procs /\ k \notin Requests /\ TypeOK /\ CallInv
  BY ProcessesAssumption DEF Procs, IInv, FillInv
<1>1. UNCHANGED <<req, order, fills>> /\ \A q \in Requests : pc'[q] = pc[q]
  BY <1>0, PcStep
     DEF StartReconcile, ReconcileStep, AcquireLock, FetchHistory, ReadPending, ResolvePending, ReadKnown,
         InsertOrphan, FinishReconcile, ReleaseLock, Procs
<1>2. \A q \in Requests : Ended(q) => Ended(q)'
  BY <1>1 DEF Ended
<1>3. CASE \/ StartReconcile(k) \/ AcquireLock(k, "fetch") \/ ReadPending(k) \/ ReadKnown(k)
           \/ ReleaseLock(k, "idle")
  <2>1. UNCHANGED <<rows, hist>>
    BY <1>3 DEF StartReconcile, AcquireLock, ReadPending, ReadKnown, ReleaseLock
  <2> QED BY <1>1, <1>2, <2>1, OthersStep, NothingBooked
<1>4. CASE FetchHistory(k)
  <2>1. rows' = rows
    BY <1>4 DEF FetchHistory
  <2>2. \A m \in Reconcilers : \A f \in hist'[m] : f \in hist[m] \/ order'[f] = "filled"
    BY <1>0, <1>1, <1>4 DEF FetchHistory, TypeOK
  <2> QED BY <1>1, <1>2, <2>1, <2>2, OthersStep, NothingBooked
<1>5. CASE FinishReconcile(k)
  <2>1. rows' = rows
    BY <1>5 DEF FinishReconcile
  <2>2. \A m \in Reconcilers : \A f \in hist'[m] : f \in hist[m]
    BY <1>0, <1>5 DEF FinishReconcile, TypeOK
  <2> QED BY <1>1, <1>2, <2>1, <2>2, OthersStep, NothingBooked
<1>6. CASE InsertOrphan(k)
  <2>1. PICK f \in Orphans(k) : /\ hist' = [hist EXCEPT ![k] = @ \ {f}]
                                /\ RecordOrphan(f) \/ UNCHANGED rows
    BY <1>6 DEF InsertOrphan
  <2>2. f \in Requests /\ f \in hist[k] /\ order[f] = "filled"
    BY <1>0 DEF Orphans, TypeOK, CallInv
  <2>3. \A m \in Reconcilers : \A g \in hist'[m] : g \in hist[m]
    BY <1>0, <2>1 DEF TypeOK
  <2>4. \A q \in Requests : HasRow(q)' => HasRow(q)
    BY <2>1, <2>2, NothingBooked, OrphanBooked
  <2>5. \A i \in Filled' \ Filled : WellBooked(i)'
    BY <1>1, <2>1, <2>2, NothingBooked, OrphanBooked DEF WellBooked, BookedWithOwn
  <2> QED BY <1>1, <1>2, <2>3, <2>4, <2>5, OthersStep
<1>7. CASE ResolvePending(k)
  <2>1. hist' = hist /\ Goto(k, "resolve", "resolve")
    BY <1>7 DEF ResolvePending
  <2>2. PICK i \in todo[k] :
          \/ \E f \in MatchPendingToFill(k, i) : FinalizeTrade(i, f)
          \/ RejectPendingTrade(i) \/ UNCHANGED rows
    BY <1>7 DEF ResolvePending, FinalizePendingFromHistory
  <2>3. i \in DOMAIN rows
    BY DEF IInv, TodoAreRows
  <2>4. CASE RejectPendingTrade(i) \/ UNCHANGED rows
    BY <1>1, <1>2, <2>1, <2>3, <2>4, OthersStep, NothingBooked, RowRejected
  <2>5. ASSUME NEW f \in MatchPendingToFill(k, i), FinalizeTrade(i, f) PROVE FillInv'
    <3>1. /\ f \in Requests /\ order[f] = "filled"
          /\ req[f].pair = rows[i].pair /\ req[f].side = rows[i].side
          /\ Distance(fills[f].ts, rows[i].ts) <= MatchWindow
      BY <1>0 DEF MatchPendingToFill, Candidates, TypeOK, CallInv
    <3>2. /\ \A q \in Requests : HasRow(q)' => HasRow(q)
          /\ \A j \in Filled' \ Filled :
              /\ j = i /\ rows'[j].fill = f /\ rows'[j].intent = rows[i].intent
              /\ rows'[j].pair = rows[i].pair /\ rows'[j].side = rows[i].side /\ rows'[j].ts = rows[i].ts
      BY <2>3, <2>5, <3>1, RowFinalized
    <3>3. \A q \in Requests : pc[q] \in LatePc => Ended(q)
      <4>1. lock = k
        BY <1>0, <2>1 DEF LInv, Exclusive, CriticalPc, Goto
      <4>2. \A q \in Requests : pc[q] \notin CriticalPc
        BY <1>0, <4>1 DEF LInv, Exclusive, Procs
      <4> QED BY <4>2 DEF LatePc, CriticalPc, Ended
    <3>4. ASSUME NEW j \in Filled' \ Filled PROVE WellBooked(j)'
      <4>1. /\ j = i /\ rows'[j].fill = f /\ rows'[j].intent = rows[i].intent
            /\ rows'[j].pair = rows[i].pair /\ rows'[j].side = rows[i].side /\ rows'[j].ts = rows[i].ts
        BY <3>2
      <4>2. rows[i].intent \in Requests \cup {Nobody}
        <5>1. rows[i] \in Row
          BY <2>3, ElementOfSeq, LenProperties DEF IInv, TypeOK
        <5> QED BY <5>1 DEF Row
      <4>3. CASE rows[i].intent = Nobody
        BY <1>1, <3>1, <4>1, <4>3 DEF WellBooked, BookedWithOwn
      <4>4. CASE rows[i].intent \in Requests
        <5>1. HasRow(rows[i].intent)
          BY <2>3 DEF HasRow
        <5>2. Ended(rows[i].intent) /\ Ended(f)
          BY <1>0, <3>1, <3>3, <4>4, <5>1 DEF CallInv, SentPc
        <5>3. pc'[rows[i].intent] = pc[rows[i].intent] /\ pc'[f] = pc[f]
          BY <1>1, <3>1, <4>4
        <5>4. Ended(rows[j].intent)' /\ Ended(rows[j].fill)'
          BY <4>1, <5>2, <5>3 DEF Ended
        <5>5. BookedWithLookalike(j)'
          BY <1>1, <3>1, <4>1 DEF BookedWithLookalike, Distance
        <5>6. order'[rows'[j].fill] = "filled"
          BY <1>1, <3>1, <4>1
        <5> QED BY <5>4, <5>5, <5>6 DEF WellBooked
      <4> QED BY <4>2, <4>3, <4>4
    <3> QED BY <1>1, <1>2, <2>1, <3>2, <3>4, OthersStep
  <2> QED BY <2>2, <2>4, <2>5
<1> QED BY <1>3, <1>4, <1>5, <1>6, <1>7 DEF ReconcileStep

LEMMA EnvironmentFills ==
  ASSUME IInv, IInv', DBStep, FillInv,
         \/ \E o \in Operators : SetHalted(o)
         \/ (\E p \in Procs : Crash(p)) \/ LoseLock \/ Tick \/ UNCHANGED vars
  PROVE  FillInv'
<1>0. TypeOK
  BY DEF IInv
<1>1. CASE \E o \in Operators : SetHalted(o)
  <2>1. PICK o \in Operators : SetHalted(o)
    BY <1>1
  <2>2. UNCHANGED <<req, order, fills, rows, hist>>
    BY <2>1 DEF SetHalted, AcquireLock, WriteHalted, ReleaseLock
  <2>3. o \in Procs /\ o \notin Requests
    BY ProcessesAssumption DEF Procs
  <2>4. \A q \in Requests : pc'[q] = pc[q]
    BY <1>0, <2>1, <2>3, PcStep DEF SetHalted, AcquireLock, WriteHalted, ReleaseLock, Procs
  <2> QED BY <2>2, <2>4, OthersStep, NothingBooked DEF Ended
<1>2. CASE \E p \in Procs : Crash(p)
  <2>1. PICK p \in Procs : Crash(p)
    BY <1>2
  <2>2. UNCHANGED <<req, order, fills, rows>>
    BY <2>1 DEF Crash
  <2>3. \A k \in Reconcilers : \A f \in hist'[k] : f \in hist[k]
    BY <1>0, <2>1 DEF Crash, TypeOK
  <2>4. \A q \in Requests : pc'[q] = pc[q] \/ pc'[q] = "done"
    BY <1>0, <2>1, ProcessesAssumption DEF Crash, TypeOK, Procs
  <2> QED BY <2>2, <2>3, <2>4, OthersStep, NothingBooked DEF Ended, LatePc, SentPc
<1>3. CASE LoseLock \/ Tick \/ UNCHANGED vars
  <2>1. UNCHANGED <<req, order, fills, rows, hist, pc>>
    BY <1>3 DEF LoseLock, Tick, vars
  <2> QED BY <2>1, OthersStep, NothingBooked DEF Ended
<1> QED BY <1>1, <1>2, <1>3

LEMMA FillStep ==
  ASSUME IInv, LInv, FillInv, [Next]_vars
  PROVE  FillInv'
<1>1. IInv' /\ DBStep
  BY NextIInv
<1> QED BY <1>1, CallFills, ExchangeFills, ReconcilerFills, EnvironmentFills DEF Next

LEMMA FillInit == Init => FillInv
<1> SUFFICES ASSUME Init PROVE FillInv
  OBVIOUS
<1>1. rows = << >> /\ DOMAIN rows = {}
  BY EmptySeq DEF Init
<1>2. Filled = {} /\ \A r \in Requests : ~HasRow(r)
  BY <1>1 DEF Filled, HasRow
<1>3. CallInv
  BY <1>2, ProcessesAssumption DEF Init, CallInv, Procs
<1> QED BY <1>2, <1>3 DEF FillInv

\* While no lock connection breaks, a row carries the fill of its own order unless reconciliation
\* gives it another one that it cannot tell from it, after both calls have ended: the lock keeps
\* matchPendingToFill away from the rows and the fills of calls that are still to book them.
THEOREM OwnFills == MaxLockLosses = 0 /\ Spec => []OwnFillWhileCallsLive
<1> SUFFICES ASSUME MaxLockLosses = 0 PROVE Spec => []OwnFillWhileCallsLive
  OBVIOUS
<1>1. FillInv => OwnFillWhileCallsLive
  BY DEF FillInv, WellBooked, OwnFillWhileCallsLive
<1>2. IInv /\ LInv /\ FillInv /\ [Next]_vars => FillInv'
  BY FillStep
<1>3. Spec => []LInv
  BY Locking
<1> QED BY <1>1, <1>2, <1>3, FillInit, Invariance, PTL DEF Spec
=============================================================================
