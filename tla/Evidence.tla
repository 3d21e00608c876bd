------------------------------ MODULE Evidence ------------------------------
(***************************************************************************)
(* The evidence of one agent's fills: the chain of decision hashes in      *)
(* decision_traces, the evidence column of the trades table, and the       *)
(* attestation of each fill on the ERC-8004 ValidationRegistry.            *)
(*                                                                         *)
(* Calls of submit_order run on servers; each server runs Start (start-up  *)
(* reconciliation, recovery of attestations) and then the reconciliation   *)
(* poller.  What a call does before its order is at the exchange, and the  *)
(* money, is TradeLedger's.  A hash is modelled by what is hashed: the     *)
(* hash of a trade's data on top of hash h is h with one link more.        *)
(* A ValidationRegistry is configured and signing a checkpoint succeeds.   *)
(***************************************************************************)
EXTENDS Integers, Sequences, SequencesExt

CONSTANTS
  Calls,        \* submit_order calls, each with one order
  Legacy,       \* fills from before the evidence column existed
  Servers,      \* server instances
  Nobody,       \* no process
  Answers,      \* what posting may end with, of AllAnswers
  MaxAttempts,  \* maxAttestationAttempts (3)
  EarlyCalls,   \* the calls that may arrive before a server has finished its start-up
  FaultKinds,   \* what goes wrong, of AllFaults
  MaxFaults     \* bound: how often it does

VARIABLES
  lock,         \* the agent's advisory lock
  rows,         \* the trades table's pending and filled rows, in the order of their ids
  orphans,      \* fills at the exchange whose row was rejected (their answer was lost)
  traces,       \* decision_traces.decision_hash in the order of seq
  posts,        \* the attestations of a trade on the chain: the hash each one carries
  spent,        \* history: how many of them since the wallet was last found empty
  pc, at,       \* where each process is, and the server of each call
  hash,         \* the decision hash a process has computed; NoHash if it has none
  todo,         \* the rows a server's pass still has to look at
  missing,      \* the orphan fills it still has to insert
  jobs,         \* the rows recoverAttestations has read
  job,          \* the row attemptAttestation works on
  answer,       \* what PostEIP712Attestation returned
  over,         \* are the 30 seconds of a call's attestDBCtx over?
  breaker,      \* attestationDisabled of each server
  startup,      \* is the server's pass its start-up reconciliation?
  faults

tables   == <<rows, orphans, traces>>
attempt  == <<job, answer, over>>
passVars == <<todo, missing, jobs, startup>>
chain    == <<posts, spent>>
vars == <<lock, tables, chain, pc, at, hash, passVars, attempt, breaker, faults>>

Procs == Calls \cup Servers
AllAnswers == {"mined", "technical", "funds", "unauthorized", "revert"}
AllFaults == {"answer", "read", "finalize", "orphan", "trace", "evidence", "column", "slow",
              "crash", "shutdown"}

ASSUME EvidenceAssumption ==
  /\ Servers # {} /\ Calls \cap Servers = {} /\ Legacy \cap Procs = {} /\ IsFiniteSet(Legacy)
  /\ Nobody \notin Procs \cup Legacy
  /\ Answers \subseteq AllAnswers /\ FaultKinds \subseteq AllFaults
  /\ MaxAttempts \in Nat \ {0} /\ MaxFaults \in Nat /\ EarlyCalls \subseteq Calls

-----------------------------------------------------------------------------
(* Data. *)

NoHash == << >>                            \* no hash, and ZeroHash below the first link
LegacyHash == <<[of |-> Nobody, data |-> "legacy"]>>

\* ComputeDecisionHash: the trade's evidence data chained to the latest trace.
Latest == IF traces = << >> THEN NoHash ELSE traces[Len(traces)]
Link(t, data) == Append(Latest, [of |-> t, data |-> data])
PrevHash(h) == SubSeq(h, 1, Len(h) - 1)

Status == {"none", "pending", "pending_confirm", "waiting_for_gas", "success", "error", "disabled"}
Terminal == {"success", "error", "disabled"}

Row(t, st, data) ==
  [of |-> t, st |-> st, data |-> data, hash |-> NoHash, column |-> NoHash,
   att |-> "none", tries |-> 0]

RowOf(r) == CHOOSE i \in DOMAIN rows : rows[i].of = r
PendingRows == {i \in DOMAIN rows : rows[i].st = "pending"}
FilledRows == {i \in DOMAIN rows : rows[i].st = "fill"}
First(S) == CHOOSE i \in S : \A j \in S : i <= j

\* Variants of the two recovery queries: one overlooks orphan fills, one takes up errors.
WithoutHashNoOrphans == {i \in FilledRows : rows[i].hash = NoHash /\ rows[i].data # "history"}
RecoverableOnError == {i \in FilledRows : rows[i].att \notin Terminal \ {"error"}}

\* GetFilledTradesWithoutEvidence(hash).
WithoutHash == {i \in FilledRows : rows[i].hash = NoHash}

\* GetFilledTradesPendingAttestation.
Recoverable == {i \in FilledRows : rows[i].att \notin Terminal}

\* A recoverable row as recoverAttestations reads it, or as a call knows its own.
NoJob == [row |-> 0, hash |-> NoHash, att |-> "none", tries |-> 0]

Goto(p, from, to) == pc[p] = from /\ pc' = [pc EXCEPT ![p] = to]

Fault(kind) == kind \in FaultKinds /\ faults < MaxFaults /\ faults' = faults + 1
NoFault == UNCHANGED faults

ServerOf(p) == IF p \in Calls THEN at[p] ELSE p

\* Start has come to its pollers.
Ready(s) == pc[s] = "idle" \/ ~startup[s]

-----------------------------------------------------------------------------
(* Statements. *)

\* INSERT ... ON CONFLICT (decision_hash) DO NOTHING.
InsertTrace(h) ==
  traces' = IF h = NoHash \/ h \in Range(traces) THEN traces ELSE Append(traces, h)

\* Variant: the trace is forgotten.
FinalizeTradeUntraced(i, data, h) ==
  /\ rows' = IF rows[i].st = "pending"
             THEN [rows EXCEPT ![i].st = "fill", ![i].data = data, ![i].hash = h, ![i].column = h]
             ELSE rows
  /\ UNCHANGED traces

\* FinalizeTrade: the row, its evidence and its trace in one transaction.  An
\* attestation already in the evidence stays (evidence || new).
FinalizeTrade(i, data, h) ==
  IF rows[i].st = "pending"
  THEN /\ rows' = [rows EXCEPT ![i].st = "fill", ![i].data = data, ![i].hash = h, ![i].column = h]
       /\ InsertTrace(h)
  ELSE UNCHANGED <<rows, traces>>

\* updateEvidenceWithRetry of the attestation object: three attempts, or it fails.
\* The context of a call's writes ends 30 seconds after step 10 began.
Writes(p, i, status, tries) ==
  /\ ~over[p] /\ NoFault
  /\ rows' = [rows EXCEPT ![i].att = status, ![i].tries = tries]
WriteFails(p) ==
  /\ IF over[p] THEN NoFault ELSE Fault("evidence")
  /\ UNCHANGED rows
MayWrite(p, i, status, tries) == Writes(p, i, status, tries) \/ WriteFails(p)

-----------------------------------------------------------------------------
(* submit_order: the order, the booking and step 10. *)

\* Variant: the order goes out without the agent's lock.
PlaceOrderUnlocked(r) ==
  /\ lock' = IF lock = Nobody THEN r ELSE lock
  /\ \E s \in Servers : Ready(s) /\ at' = [at EXCEPT ![r] = s]
  /\ Goto(r, "new", "latest") /\ NoFault
  /\ rows' = Append(rows, Row(r, "pending", "intent"))
  /\ UNCHANGED <<orphans, traces, chain, hash, passVars, attempt, breaker>>

\* The call takes the lock, its write-ahead row is in the table and the exchange
\* has executed the order.  If the answer is lost the row is rejected, and the
\* fill stays behind.  (Steps 0 to 5 are in TradeLedger.)
PlaceOrder(r) ==
  /\ lock = Nobody /\ lock' = r
  /\ \E s \in Servers :
       /\ r \in EarlyCalls \/ Ready(s)
       /\ at' = [at EXCEPT ![r] = s]
  /\ \/ /\ Goto(r, "new", "latest") /\ NoFault
        /\ rows' = Append(rows, Row(r, "pending", "intent"))
        /\ UNCHANGED <<orphans, traces>>
     \/ /\ Goto(r, "new", "unlock_lost") /\ Fault("answer")
        /\ orphans' = orphans \cup {r}
        /\ UNCHANGED <<rows, traces>>
  /\ UNCHANGED <<chain, hash, passVars, attempt, breaker>>

\* GetLatestTraceHash and ComputeDecisionHash.  If the read fails the trade goes
\* without a hash for now.
ComputeHash(r) ==
  /\ Goto(r, "latest", "finalize")
  /\ \/ hash' = [hash EXCEPT ![r] = Link(r, "answer")] /\ NoFault
     \/ hash' = [hash EXCEPT ![r] = NoHash] /\ Fault("read")
  /\ UNCHANGED <<lock, tables, chain, at, passVars, attempt, breaker>>

\* Step 7.  A failure is logged and the call goes on.
Finalize(r) ==
  /\ Goto(r, "finalize", "unlock")
  /\ \/ FinalizeTrade(RowOf(r), "answer", hash[r]) /\ NoFault
     \/ UNCHANGED <<rows, traces>> /\ Fault("finalize")
  /\ UNCHANGED <<lock, orphans, chain, at, hash, passVars, attempt, breaker>>

\* The lock is released before steps 9 to 11.
Unlock(r) ==
  /\ \/ Goto(r, "unlock", "attest") \/ Goto(r, "unlock_lost", "done")
  /\ lock' = IF lock = r THEN Nobody ELSE lock
  /\ UNCHANGED <<tables, chain, at, hash, passVars, attempt, breaker, faults>>

\* Step 10: the breaker, the agent's keys (loaded by Start), or an attempt with
\* the state of a fresh trade.
Attest(r) ==
  LET i == RowOf(r) IN
  /\ \/ /\ breaker[at[r]] /\ Goto(r, "attest", "done")
        /\ MayWrite(r, i, "waiting_for_gas", 0) /\ UNCHANGED job
     \/ /\ ~breaker[at[r]] /\ pc[at[r]] = "boot" /\ Goto(r, "attest", "done")
        /\ MayWrite(r, i, "disabled", 0) /\ UNCHANGED job
     \/ /\ ~breaker[at[r]] /\ pc[at[r]] # "boot" /\ Goto(r, "attest", "mark")
        /\ job' = [job EXCEPT ![r] = [NoJob EXCEPT !.row = i, !.hash = hash[r]]]
        /\ NoFault /\ UNCHANGED rows
  /\ hash' = [hash EXCEPT ![r] = NoHash]
  /\ UNCHANGED <<lock, orphans, traces, chain, at, passVars, answer, over, breaker>>

-----------------------------------------------------------------------------
(* attemptAttestation, for calls and for the recovery. *)

\* Where a process goes when its attempt has come to a status: the recovery stops
\* when the wallet is empty or the breaker has tripped.
After(p, status, tripped) ==
  IF p \in Calls THEN "done"
  ELSE IF status = "waiting_for_gas" \/ (status = "error" /\ tripped) THEN "idle"
  ELSE "jobs"

\* The attempt ends, and its locals with it.
EndAttempt(p, from, status, tripped) ==
  /\ Goto(p, from, After(p, status, tripped))
  /\ job' = [job EXCEPT ![p] = NoJob] /\ answer' = [answer EXCEPT ![p] = "none"]
  /\ over' = [over EXCEPT ![p] = FALSE]

\* Variant: a marker that could not be written is only logged.
MarkBestEffort(p) ==
  /\ Goto(p, "mark", "post")
  /\ MayWrite(p, job[p].row, "pending", job[p].tries + 1)
  /\ UNCHANGED <<lock, orphans, traces, chain, at, hash, passVars, attempt, breaker>>

\* The cap, then the durable marker without which nothing is posted.
Mark(p) ==
  LET i == job[p].row
      capped == job[p].att = "pending" /\ job[p].tries >= MaxAttempts
      tripped == breaker[ServerOf(p)]
  IN /\ \/ capped /\ EndAttempt(p, "mark", "error", tripped) /\ MayWrite(p, i, "error", 0)
        \/ /\ ~capped /\ Goto(p, "mark", "post") /\ UNCHANGED attempt
           /\ Writes(p, i, "pending", job[p].tries + 1)
        \/ ~capped /\ EndAttempt(p, "mark", "error", tripped) /\ WriteFails(p)
     /\ UNCHANGED <<lock, orphans, traces, chain, at, hash, passVars, breaker>>

\* The trade a process attests, and its transaction on the chain.
TradeOf(p) == rows[job[p].row].of
Carried(p) ==
  /\ posts' = [posts EXCEPT ![TradeOf(p)] = Append(@, job[p].hash)]
  /\ spent' = [spent EXCEPT ![TradeOf(p)] = @ + 1]

\* PostEIP712Attestation, 90 seconds at most.  A technical error says nothing
\* about the transaction.  A call that waits long finds its writes' context over.
Post(p) ==
  /\ Goto(p, "post", "settle")
  /\ \E a \in Answers :
       /\ answer' = [answer EXCEPT ![p] = a]
       /\ \/ a \in {"mined", "technical"} /\ Carried(p)
          \/ a \in {"technical", "unauthorized", "revert"} /\ UNCHANGED chain
          \/ a = "funds" /\ UNCHANGED posts /\ spent' = [spent EXCEPT ![TradeOf(p)] = 0]
  /\ \/ NoFault /\ UNCHANGED over
     \/ p \in Calls /\ Fault("slow") /\ over' = [over EXCEPT ![p] = TRUE]
  /\ UNCHANGED <<lock, tables, at, hash, passVars, job, breaker>>

\* The status written after the chain's answer.
Outcome(p) ==
  LET a == answer[p] IN
  IF a = "mined" THEN "success"
  ELSE IF a = "funds" THEN "waiting_for_gas"
  ELSE IF a = "technical" /\ job[p].tries + 1 < MaxAttempts THEN "pending"
  ELSE "error"

\* The terminal or pending write; the breaker trips whether it succeeds or not.
Settle(p) ==
  LET i == job[p].row
      status == Outcome(p)
      tripped == breaker[ServerOf(p)] \/ answer[p] \in {"funds", "unauthorized"}
  IN /\ breaker' = [breaker EXCEPT ![ServerOf(p)] = tripped]
     /\ \/ /\ EndAttempt(p, "settle", status, tripped)
           /\ Writes(p, i, status, IF status = "pending" THEN job[p].tries + 1 ELSE 0)
        \/ status = "success" /\ Goto(p, "settle", "confirm") /\ WriteFails(p) /\ UNCHANGED attempt
        \/ status # "success" /\ EndAttempt(p, "settle", status, tripped) /\ WriteFails(p)
     /\ UNCHANGED <<lock, orphans, traces, chain, at, hash, passVars>>

\* The durable fallback for a success that could not be written.
Confirm(p) ==
  /\ EndAttempt(p, "confirm", "pending_confirm", FALSE)
  /\ MayWrite(p, job[p].row, "pending_confirm", 0)
  /\ UNCHANGED <<lock, orphans, traces, chain, at, hash, passVars, breaker>>

AttemptAttestation(p) == Mark(p) \/ Post(p) \/ Settle(p) \/ Confirm(p)

SubmitOrder(r) ==
  PlaceOrder(r) \/ ComputeHash(r) \/ Finalize(r) \/ Unlock(r) \/ Attest(r) \/ AttemptAttestation(r)

-----------------------------------------------------------------------------
(* A server: Start, reconcileAllAgents and reconcileAgent. *)

\* Start loads the agents' keys.
LoadKeys(s) ==
  /\ Goto(s, "boot", "lock")
  /\ UNCHANGED <<lock, tables, chain, at, hash, passVars, attempt, breaker, faults>>

\* The start-up pass or the ticker's next one: the lock, the fill history and the
\* pending rows (see TradeLedger).
BeginPass(s) ==
  /\ lock = Nobody /\ lock' = s
  /\ Goto(s, "lock", "resolve") \/ Goto(s, "idle", "resolve")
  /\ startup' = [startup EXCEPT ![s] = pc[s] = "lock"]
  /\ todo' = [todo EXCEPT ![s] = PendingRows]
  /\ missing' = [missing EXCEPT ![s] = orphans]
  /\ UNCHANGED <<tables, chain, at, hash, jobs, attempt, breaker, faults>>

\* finalizePendingFromHistory: hash and booking of the next pending row, from the
\* history's fill.
ResolvePending(s) ==
  /\ pc[s] = "resolve" /\ todo[s] # {}
  /\ \/ /\ \E h \in {Link(rows[First(todo[s])].of, "history"), NoHash} :
             /\ IF h = NoHash THEN Fault("read") ELSE NoFault
             /\ FinalizeTrade(First(todo[s]), "history", h)
     \/ Fault("finalize") /\ UNCHANGED <<rows, traces>>
  /\ todo' = [todo EXCEPT ![s] = @ \ {First(@)}]
  /\ UNCHANGED <<lock, orphans, chain, pc, at, hash, missing, jobs, startup, attempt, breaker>>

\* insertOrphanFill: a filled row with data, without hash and trace.
InsertOrphan(s) ==
  /\ pc[s] = "resolve" /\ todo[s] = {}
  /\ \E r \in missing[s] :
       /\ missing' = [missing EXCEPT ![s] = @ \ {r}]
       /\ \/ /\ rows' = Append(rows, Row(r, "fill", "history"))
             /\ orphans' = orphans \ {r} /\ NoFault
          \/ Fault("orphan") /\ UNCHANGED <<rows, orphans>>
  /\ UNCHANGED <<lock, traces, chain, pc, at, hash, todo, jobs, startup, attempt, breaker>>

\* recoverHashChains: the query.
QueryWithoutHash(s) ==
  /\ todo[s] = {} /\ missing[s] = {}
  /\ Goto(s, "resolve", "hash")
  /\ todo' = [todo EXCEPT ![s] = WithoutHash]
  /\ UNCHANGED <<lock, tables, chain, at, hash, missing, jobs, startup, attempt, breaker, faults>>

Skip(s) == todo' = [todo EXCEPT ![s] = @ \ {First(@)}]

\* A row without data is stamped.
StampLegacy(s) ==
  /\ pc[s] = "hash" /\ todo[s] # {} /\ rows[First(todo[s])].data = "none"
  /\ \/ /\ rows' = [rows EXCEPT ![First(todo[s])].hash = LegacyHash,
                                ![First(todo[s])].att = "disabled", ![First(todo[s])].tries = 0]
        /\ NoFault
     \/ UNCHANGED rows /\ Fault("evidence")
  /\ Skip(s)
  /\ UNCHANGED <<lock, orphans, traces, chain, pc, at, hash, missing, jobs, startup, attempt, breaker>>

\* The hash of the next row on top of the latest trace, and its trace.
RestoreTrace(s) ==
  /\ todo[s] # {} /\ rows[First(todo[s])].data # "none"
  /\ LET t == rows[First(todo[s])] IN
     \/ /\ hash' = [hash EXCEPT ![s] = Link(t.of, t.data)]
        /\ InsertTrace(hash'[s])
        /\ Goto(s, "hash", "evidence") /\ NoFault /\ UNCHANGED todo
     \/ /\ Goto(s, "hash", "hash") /\ Skip(s)
        /\ Fault("read") \/ Fault("trace")
        /\ UNCHANGED <<traces, hash>>
  /\ UNCHANGED <<lock, rows, orphans, chain, at, missing, jobs, startup, attempt, breaker>>

\* UpdateEvidence; only then is the row hashed.
RestoreEvidence(s) ==
  /\ \/ /\ Goto(s, "evidence", "column") /\ NoFault /\ UNCHANGED todo
        /\ rows' = [rows EXCEPT ![First(todo[s])].hash = hash[s]]
     \/ /\ Goto(s, "evidence", "hash") /\ Skip(s) /\ Fault("evidence")
        /\ UNCHANGED rows
  /\ UNCHANGED <<lock, orphans, traces, chain, at, hash, missing, jobs, startup, attempt, breaker>>

\* UpdateTradeHash: the column, if it is empty.  An error is only logged.
RestoreColumn(s) ==
  /\ Goto(s, "column", "hash") /\ Skip(s)
  /\ \/ /\ rows' = [rows EXCEPT ![First(todo[s])].column = IF @ = NoHash THEN hash[s] ELSE @]
        /\ NoFault
     \/ UNCHANGED rows /\ Fault("column")
  /\ UNCHANGED <<lock, orphans, traces, chain, at, hash, missing, jobs, startup, attempt, breaker>>

\* The end of the locked part.
EndPass(s) ==
  /\ todo[s] = {}
  /\ Goto(s, "hash", IF startup[s] THEN "recover" ELSE "idle")
  /\ lock' = IF lock = s THEN Nobody ELSE lock
  /\ hash' = [hash EXCEPT ![s] = NoHash]
  /\ UNCHANGED <<tables, chain, at, passVars, attempt, breaker, faults>>

-----------------------------------------------------------------------------
(* recoverAttestations: at start-up only, and without the lock. *)

\* readAttestationState: attempts count for a pending row only.
JobOf(i) == [row |-> i, hash |-> rows[i].hash, att |-> rows[i].att,
             tries |-> IF rows[i].att = "pending" THEN rows[i].tries ELSE 0]

ReadJobs(s) ==
  /\ Goto(s, "recover", IF breaker[s] THEN "idle" ELSE "jobs")
  /\ jobs' = [jobs EXCEPT ![s] = IF breaker[s] THEN {} ELSE {JobOf(i) : i \in Recoverable}]
  /\ UNCHANGED <<lock, tables, chain, at, hash, todo, missing, startup, attempt, breaker, faults>>

\* The next row: finalizePendingConfirm without a chain call, an error for a row
\* without a hash, or an attempt.
NextJob(s) ==
  /\ pc[s] = "jobs"
  /\ \E j \in jobs[s] :
       /\ \A other \in jobs[s] : j.row <= other.row
       /\ jobs' = [jobs EXCEPT ![s] = @ \ {j}]
       /\ CASE j.att = "pending_confirm" ->
                 MayWrite(s, j.row, "success", 0) /\ UNCHANGED <<pc, job>>
            [] j.att # "pending_confirm" /\ j.hash = NoHash ->
                 MayWrite(s, j.row, "error", 0) /\ UNCHANGED <<pc, job>>
            [] OTHER ->
                 /\ Goto(s, "jobs", "mark") /\ job' = [job EXCEPT ![s] = j]
                 /\ NoFault /\ UNCHANGED rows
  /\ UNCHANGED <<lock, orphans, traces, chain, at, hash, todo, missing, startup, answer, over, breaker>>

EndRecovery(s) ==
  /\ jobs[s] = {}
  /\ Goto(s, "jobs", "idle")
  /\ UNCHANGED <<lock, tables, chain, at, hash, passVars, attempt, breaker, faults>>

ServerStep(s) ==
  \/ LoadKeys(s) \/ BeginPass(s) \/ ResolvePending(s) \/ InsertOrphan(s)
  \/ QueryWithoutHash(s) \/ StampLegacy(s) \/ RestoreTrace(s) \/ RestoreEvidence(s)
  \/ RestoreColumn(s) \/ EndPass(s) \/ ReadJobs(s) \/ NextJob(s) \/ EndRecovery(s)
  \/ AttemptAttestation(s)

\* A server stops and starts anew: it dies in the middle of whatever it and its
\* calls do, or it is shut down once they are through.
Crash(s) ==
  LET dead == {s} \cup {r \in Calls : at[r] = s /\ pc[r] \notin {"new", "done"}} IN
  /\ pc[s] # "boot"
  /\ Fault("crash") \/ (Fault("shutdown") /\ pc[s] = "idle" /\ dead = {s})
  /\ pc' = [p \in Procs |-> IF p = s THEN "boot" ELSE IF p \in dead THEN "done" ELSE pc[p]]
  /\ lock' = IF lock \in dead THEN Nobody ELSE lock
  /\ todo' = [todo EXCEPT ![s] = {}] /\ missing' = [missing EXCEPT ![s] = {}]
  /\ jobs' = [jobs EXCEPT ![s] = {}] /\ startup' = [startup EXCEPT ![s] = TRUE]
  /\ hash' = [p \in Procs |-> IF p \in dead THEN NoHash ELSE hash[p]]
  /\ job' = [p \in Procs |-> IF p \in dead THEN NoJob ELSE job[p]]
  /\ answer' = [p \in Procs |-> IF p \in dead THEN "none" ELSE answer[p]]
  /\ over' = [p \in Procs |-> IF p \in dead THEN FALSE ELSE over[p]]
  /\ breaker' = [breaker EXCEPT ![s] = FALSE]
  /\ UNCHANGED <<tables, chain, at>>

-----------------------------------------------------------------------------

\* The rows of Legacy are there, disabled by migration 009.
Init ==
  /\ lock = Nobody
  /\ rows \in {[i \in DOMAIN q |-> [Row(q[i], "fill", "none") EXCEPT !.att = "disabled"]] :
                 q \in SetToSeqs(Legacy)}
  /\ orphans = {} /\ traces = << >>
  /\ posts = [t \in Calls \cup Legacy |-> << >>]
  /\ spent = [t \in Calls \cup Legacy |-> 0]
  /\ pc = [p \in Procs |-> IF p \in Servers THEN "boot" ELSE "new"]
  /\ at \in [Calls -> {CHOOSE s \in Servers : TRUE}]
  /\ hash = [p \in Procs |-> NoHash]
  /\ todo = [s \in Servers |-> {}] /\ missing = [s \in Servers |-> {}]
  /\ jobs = [s \in Servers |-> {}] /\ startup = [s \in Servers |-> TRUE]
  /\ job = [p \in Procs |-> NoJob] /\ answer = [p \in Procs |-> "none"]
  /\ over = [p \in Procs |-> FALSE]
  /\ breaker = [s \in Servers |-> FALSE]
  /\ faults = 0

Next ==
  \/ \E r \in Calls : SubmitOrder(r)
  \/ \E s \in Servers : ServerStep(s) \/ Crash(s)

Spec == Init /\ [][Next]_vars

\* A live process takes its next step, and Postgres serves the lock's waiters in
\* turn.  No call is ever made for certain.
Fairness ==
  /\ \A r \in Calls :
       WF_vars(ComputeHash(r) \/ Finalize(r) \/ Unlock(r) \/ Attest(r) \/ AttemptAttestation(r))
  /\ \A s \in Servers :
       /\ SF_vars(BeginPass(s))
       /\ WF_vars(ServerStep(s))

FairSpec == Spec /\ Fairness

-----------------------------------------------------------------------------
(* Properties. *)

Hash == Seq([of : Calls \cup Legacy \cup {Nobody}, data : {"answer", "history", "legacy"}])

RowSet ==
  [of : Calls \cup Legacy, st : {"pending", "fill"}, data : {"none", "intent", "answer", "history"},
   hash : Hash, column : Hash, att : Status, tries : 0..MaxAttempts]

\* Attempts are counted for pending rows only.
JobSet == {j \in [row : Nat, hash : Hash, att : Status, tries : 0..MaxAttempts] :
             j.att # "pending" => j.tries = 0}

\* Every variable keeps its type.
TypeOK ==
  /\ lock \in Procs \cup {Nobody} /\ DOMAIN pc = Procs
  /\ rows \in Seq(RowSet) /\ job \in [Procs -> JobSet] /\ jobs \in [Servers -> SUBSET JobSet]
  /\ orphans \subseteq Calls /\ traces \in Seq(Hash)
  /\ posts \in [Calls \cup Legacy -> Seq(Hash)] /\ spent \in [Calls \cup Legacy -> Nat]
  /\ at \in [Calls -> Servers] /\ hash \in [Procs -> Hash]
  /\ answer \in [Procs -> AllAnswers \cup {"none"}] /\ over \in [Procs -> BOOLEAN]
  /\ todo \in [Servers -> SUBSET DOMAIN rows] /\ missing \in [Servers -> SUBSET Calls]
  /\ breaker \in [Servers -> BOOLEAN] /\ startup \in [Servers -> BOOLEAN]

\* "Each decision is recorded in the decision_traces table with its hash linked to
\* the previous one": every trace links to the trace inserted just before it, so
\* the chain has neither a fork nor a gap.
ChainIsLinear ==
  \A i \in DOMAIN traces : PrevHash(traces[i]) = IF i = 1 THEN NoHash ELSE traces[i - 1]

\* The hash a filled row shows can be looked up, is about that row and its data,
\* no other row shows it, and the decision_hash column agrees with the evidence.
HashesAreTraced ==
  \A i \in FilledRows : rows[i].hash \notin {NoHash, LegacyHash} =>
    /\ rows[i].hash \in Range(traces)
    /\ Last(rows[i].hash) = [of |-> rows[i].of, data |-> rows[i].data]
    /\ \A j \in FilledRows : rows[j].hash = rows[i].hash => i = j
    /\ rows[i].column \in {NoHash, rows[i].hash}

\* Again and again every booked fill has its place in the chain (or the legacy
\* stamp), whether its call hashed it, could not, crashed, or lost its answer.
FillsGetHashed == []<>(\A i \in FilledRows : rows[i].hash # NoHash)

\* "A tx sent without a durable pending marker cannot be recovered after a crash":
\* a trade that was posted never shows as one that was not tried.
PostsAreMarked ==
  \A i \in DOMAIN rows : posts[rows[i].of] # << >> => rows[i].att # "none"

\* A success, and the fallback that becomes one without a chain call, stand for an
\* attestation that is on the chain.
SuccessIsOnChain ==
  \A i \in DOMAIN rows :
    rows[i].att \in {"success", "pending_confirm"} => posts[rows[i].of] # << >>

\* "A crash between this write and the post-tx write leaves the counter bumped so
\* recovery can't loop forever", and gas failures "are NOT counted": however often a
\* server dies over a trade whose call came after the start-up, at most MaxAttempts
\* attestations of it are sent before the wallet is found empty (again).
AttemptsAreCapped == \A t \in Calls \ EarlyCalls : spent[t] <= MaxAttempts

\* What the table says of an attestation agrees with the chain, whatever is lost, fails or
\* crashes between the marker, the transaction and its outcome.
AttestationsAreOnRecord == PostsAreMarked /\ SuccessIsOnChain /\ AttemptsAreCapped

\* "Terminal (recovery leaves alone)": success, error and disabled are final, for
\* calls that came after the start-up and for legacy fills.
TerminalIsFinal ==
  [][\A i \in DOMAIN rows :
       rows[i].of \notin EarlyCalls /\ rows[i].att \in Terminal => rows'[i].att = rows[i].att]_rows

\* "... record success/pending_confirm markers deterministically and avoid
\* duplicate reposts on restart".
PostedOnce == \A t \in Calls : Len(posts[t]) <= 1
=============================================================================
