---------------------------- MODULE ChainClient ----------------------------
(***************************************************************************)
(* Transactions of one agent's key (internal/chain/client.go): SendTx with *)
(* its gas bumping, and two users of it.  A trade reads its intent nonce   *)
(* from the RiskRouter and submits the signed intent, again when a         *)
(* technical error comes back (withTechnicalRetry), all under the agent's  *)
(* lock; an attestation is posted without that lock.                       *)
(***************************************************************************)
EXTENDS Integers, FiniteSets, Sequences

CONSTANTS
  ServerOf,                 \* [calls -> the server each runs on]
  Posts,                    \* the calls that post an attestation; the others are trades
  EarlyCalls,               \* may a trade be served before Start has loaded the keys?
  BumpMaxRetries, MaxGateAttempts,
  MaxFee, MaxFaults         \* bounds: fees the network suggests, and RPC errors

VARIABLES
  chain,                    \* [mined, pool, router]: transactions by nonce, waiting ones, the router's nonce
  txMu,                     \* [servers -> the call that holds the client's mutex]
  agentLock,                \* the trade that holds the agent's lock
  call                      \* [calls -> what the call has in hand]

vars == <<chain, txMu, agentLock, call>>

Calls == DOMAIN ServerOf
Nobody == "nobody"

ChainClientAssumption ==
  /\ Posts \subseteq Calls /\ Nobody \notin Calls
  /\ {BumpMaxRetries, MaxGateAttempts, MaxFee} \subseteq Nat \ {0} /\ MaxFaults \in Nat

\* No intent nonce: what an attestation carries.
NoIntent == -1
Fresh == [pc |-> "idle", intent |-> NoIntent, tries |-> 1, attempt |-> 1, nonce |-> 0, fee |-> 0, sent |-> {}, told |-> "nothing"]

Init ==
  /\ chain = [mined |-> <<>>, pool |-> {}, router |-> 0, faults |-> 0]
  /\ txMu = [s \in {ServerOf[c] : c \in Calls} |-> Nobody]
  /\ agentLock = Nobody
  /\ call = [c \in Calls |-> Fresh]

At(c, pc) == call[c].pc = pc
Goto(c, pc) == call' = [call EXCEPT ![c].pc = pc]
Faulty == chain.faults < MaxFaults
Fault == chain' = [chain EXCEPT !.faults = @ + 1]

-----------------------------------------------------------------------------
(* How a call ends. *)

\* The receipt of a mined transaction, or nothing when none of these is mined.
Receipts(txs) == {i \in DOMAIN chain.mined : chain.mined[i].tx \in txs}

Unlock(c) ==
  /\ txMu' = [txMu EXCEPT ![ServerOf[c]] = IF @ = c THEN Nobody ELSE @]
  /\ agentLock' = IF agentLock = c THEN Nobody ELSE agentLock

\* The trade learns what the router decided; what comes after is not modelled here.
Told(c, what) ==
  /\ call' = [call EXCEPT ![c].pc = "done", ![c].told = what]
  /\ Unlock(c)

\* handleReceipt, and SubmitTrade's reading of the events.
HandleReceipt(c, i) == Told(c, chain.mined[i].result)

\* Mutant: the retried function asks for a nonce and signs a new intent each time.
SendFailsSigningAgain(c, technical) ==
  IF technical /\ c \notin Posts /\ call[c].tries < MaxGateAttempts
  THEN /\ call' = [call EXCEPT ![c] = [Fresh EXCEPT !.pc = "nonce", !.tries = call[c].tries + 1]]
       /\ txMu' = [txMu EXCEPT ![ServerOf[c]] = IF @ = c THEN Nobody ELSE @]
       /\ UNCHANGED agentLock
  ELSE Told(c, "error")

\* An error of SendTx without a receipt; a trade submits the same intent again when it is technical.
SendFails(c, technical) ==
  IF technical /\ c \notin Posts /\ call[c].tries < MaxGateAttempts
  THEN /\ call' = [call EXCEPT ![c] = [Fresh EXCEPT !.pc = "enter", !.intent = call[c].intent, !.tries = call[c].tries + 1]]
       /\ txMu' = [txMu EXCEPT ![ServerOf[c]] = IF @ = c THEN Nobody ELSE @]
       /\ UNCHANGED agentLock
  ELSE Told(c, "error")

-----------------------------------------------------------------------------
(* The RiskRouter gate and the attestation. *)

LockAgent(c) ==
  /\ At(c, "idle") /\ c \notin Posts /\ agentLock = Nobody
  /\ agentLock' = c
  /\ Goto(c, "nonce")
  /\ UNCHANGED <<chain, txMu>>

\* No entry in agentKeys yet: the gate is skipped.
SkipGate(c) ==
  /\ EarlyCalls /\ At(c, "nonce") /\ call[c].tries = 1
  /\ Told(c, "skipped")
  /\ UNCHANGED chain

GetIntentNonce(c) ==
  /\ At(c, "nonce")
  /\ call' = [call EXCEPT ![c].pc = "enter", ![c].intent = chain.router]
  /\ UNCHANGED <<chain, txMu, agentLock>>

GetIntentNonceFails(c) ==
  /\ At(c, "nonce") /\ Faulty
  /\ \/ Told(c, "error")
     \/ /\ call[c].tries < MaxGateAttempts
        /\ UNCHANGED <<call, txMu, agentLock>>
  /\ Fault

PostEIP712Attestation(c) ==
  /\ At(c, "idle") /\ c \in Posts
  /\ Goto(c, "enter")
  /\ UNCHANGED <<chain, txMu, agentLock>>

-----------------------------------------------------------------------------
(* SendTx. *)

TakeMutex(c) ==
  /\ At(c, "enter") /\ txMu[ServerOf[c]] = Nobody
  /\ txMu' = [txMu EXCEPT ![ServerOf[c]] = c]
  /\ Goto(c, "prepare")
  /\ UNCHANGED <<chain, agentLock>>

\* The nonce after the mined and the waiting transactions of the account, counted from 0.
PendingNonceAt ==
  CHOOSE n \in Len(chain.mined)..(Len(chain.mined) + Cardinality(chain.pool)) :
    /\ \A t \in chain.pool : t.nonce # n
    /\ \A m \in Len(chain.mined)..(n - 1) : \E t \in chain.pool : t.nonce = m

\* Nonce, gas and fees.
Prepare(c) ==
  /\ At(c, "prepare")
  /\ \E fee \in 1..MaxFee :
       call' = [call EXCEPT ![c].pc = "send", ![c].nonce = PendingNonceAt, ![c].fee = fee]
  /\ UNCHANGED <<chain, txMu, agentLock>>

\* One of the four queries fails, rate-limited four times or otherwise.
PrepareFails(c) ==
  /\ At(c, "prepare") /\ Faulty
  /\ \E technical \in BOOLEAN : SendFails(c, technical)
  /\ Fault

Tx(c) == [by |-> c, try |-> call[c].tries, nonce |-> call[c].nonce, fee |-> call[c].fee, intent |-> call[c].intent]
Rivals(c) == {t \in chain.pool : t.nonce = call[c].nonce}
Used(c) == call[c].nonce < Len(chain.mined)
Pooled(c) == (chain.pool \ Rivals(c)) \cup {Tx(c)}
LastAttempt(c) == call[c].attempt = BumpMaxRetries

\* With fees 20% higher.
Bumped(c) == [call[c] EXCEPT !.pc = "send", !.fee = @ + 1, !.attempt = @ + 1]

\* Accepted, or "already known", which an accepted answer that looked rate-limited leads to.
SendTransaction(c) ==
  /\ At(c, "send") /\ ~ Used(c) /\ \A t \in Rivals(c) : t.fee < call[c].fee
  /\ chain' = [chain EXCEPT !.pool = Pooled(c)]
  /\ call' = [call EXCEPT ![c].pc = "wait", ![c].sent = @ \cup {Tx(c)}]
  /\ UNCHANGED <<txMu, agentLock>>

\* The transaction may have reached the node all the same.
SendTransactionFails(c) ==
  /\ At(c, "send") /\ Faulty
  /\ \/ Fault
     \/ /\ ~ Used(c) /\ \A t \in Rivals(c) : t.fee < call[c].fee
        /\ chain' = [chain EXCEPT !.pool = Pooled(c), !.faults = @ + 1]
  /\ \E technical \in BOOLEAN : SendFails(c, technical)

\* An earlier one of this call is mined, or it is another one's.
NonceTooLow(c) ==
  /\ At(c, "send") /\ Used(c)
  /\ \/ \E i \in Receipts(call[c].sent) : HandleReceipt(c, i) /\ UNCHANGED chain
     \/ Receipts(call[c].sent) = {} /\ SendFails(c, FALSE) /\ UNCHANGED chain
     \/ Receipts(call[c].sent) # {} /\ Faulty /\ SendFails(c, FALSE) /\ Fault

\* Another transaction has that nonce and a fee not lower: bump; at the last attempt wait for one sent before.
ReplacementUnderpriced(c) ==
  /\ At(c, "send") /\ ~ Used(c) /\ \E t \in Rivals(c) : t.fee >= call[c].fee
  /\ IF ~ LastAttempt(c)
     THEN call' = [call EXCEPT ![c] = Bumped(c)] /\ UNCHANGED <<txMu, agentLock>>
     ELSE IF call[c].sent # {} THEN Goto(c, "wait") /\ UNCHANGED <<txMu, agentLock>>
     ELSE SendFails(c, FALSE)
  /\ UNCHANGED chain

\* waitForAny sees the receipt of any transaction this call has sent.
Confirmed(c) ==
  /\ At(c, "wait")
  /\ \E i \in Receipts(call[c].sent) : HandleReceipt(c, i)
  /\ UNCHANGED chain

\* Not confirmed in ten seconds.
TimedOut(c) ==
  /\ At(c, "wait")
  /\ IF LastAttempt(c) THEN SendFails(c, FALSE)
     ELSE call' = [call EXCEPT ![c] = Bumped(c)] /\ UNCHANGED <<txMu, agentLock>>
  /\ UNCHANGED chain

-----------------------------------------------------------------------------
(* The chain: an intent is approved when its nonce is the router's and its limits allow it. *)

Mine ==
  \E t \in chain.pool, willing \in BOOLEAN :
    /\ t.nonce = Len(chain.mined)
    /\ LET result == IF t.by \in Posts THEN (IF willing THEN "posted" ELSE "reverted")
                     ELSE IF willing /\ t.intent = chain.router THEN "approved" ELSE "rejected"
       IN chain' = [chain EXCEPT !.mined = Append(@, [tx |-> t, result |-> result]),
                                 !.pool = {u \in @ : u.nonce > t.nonce},
                                 !.router = IF result = "approved" THEN @ + 1 ELSE @]
    /\ UNCHANGED <<txMu, agentLock, call>>

\* The node forgets a waiting transaction.
Dropped ==
  /\ Faulty
  /\ \E t \in chain.pool : chain' = [chain EXCEPT !.pool = @ \ {t}, !.faults = @ + 1]
  /\ UNCHANGED <<txMu, agentLock, call>>

Next ==
  \/ \E c \in Calls :
       \/ LockAgent(c) \/ SkipGate(c) \/ GetIntentNonce(c) \/ GetIntentNonceFails(c) \/ PostEIP712Attestation(c)
       \/ TakeMutex(c) \/ Prepare(c) \/ PrepareFails(c) \/ SendTransaction(c) \/ SendTransactionFails(c)
       \/ NonceTooLow(c) \/ ReplacementUnderpriced(c) \/ Confirmed(c) \/ TimedOut(c)
  \/ Mine \/ Dropped

Spec == Init /\ [][Next]_vars

-----------------------------------------------------------------------------
(* Properties. *)

Approvals(c) == {i \in DOMAIN chain.mined : chain.mined[i].tx.by = c /\ chain.mined[i].result = "approved"}

\* A trade goes on only if its own intent is approved on the chain, and however often it was
\* submitted and bumped, and by however many transactions, it is approved once: the router
\* counts no trade twice.
ApprovedOnce ==
  \A c \in Calls : /\ call[c].told = "approved" => Approvals(c) # {}
                   /\ Cardinality(Approvals(c)) <= 1

\* The transactions of one SendTx replace each other: one of them is mined at most.
OneMinedPerSend ==
  \A i, j \in DOMAIN chain.mined :
    LET t == chain.mined[i].tx  u == chain.mined[j].tx
    IN t.by = u.by /\ t.try = u.try => i = j

\* "If the gate can't give a decision, the trade does NOT happen": it does not happen here, and
\* the router counts it all the same.
RefusedIsNotApproved == \A c \in Calls : call[c].told \in {"error", "rejected"} => Approvals(c) = {}

\* "Runs BEFORE exchange fill - this is a VALIDATION GATE".
GateIsNotSkipped == \A c \in Calls : call[c].told # "skipped"
=============================================================================
