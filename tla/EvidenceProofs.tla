--------------------------- MODULE EvidenceProofs ---------------------------
(***************************************************************************)
(* For any numbers of calls, legacy fills and servers and any faults: the  *)
(* chain of decision hashes has neither a fork nor a gap, the tables have  *)
(* their types, the hash a fill shows is in the chain, and a post is       *)
(* marked and a success is on the chain.  With one server, the attestation *)
(* columns agree with the chain, its attempts are capped, and an outcome   *)
(* is final.                                                               *)
(***************************************************************************)
EXTENDS Evidence, SequenceTheorems, FiniteSetTheorems, WellFoundedInduction, TLAPS

\* A sequence, whatever its elements are.
IsSequence(s) == \E S : s \in Seq(S)

\* Where a process works under the agent's lock.
Locked == {"latest", "finalize", "unlock", "unlock_lost", "resolve", "hash", "evidence", "column"}

Shape ==
  /\ DOMAIN pc = Procs /\ pc = [p \in Procs |-> pc[p]]
  /\ DOMAIN hash = Procs /\ hash = [p \in Procs |-> hash[p]]
  /\ IsSequence(traces)
  /\ \A i \in DOMAIN traces : IsSequence(traces[i])

\* Whoever is between taking and releasing the lock holds it.
Exclusive == \A p \in Procs : pc[p] \in Locked => lock = p

\* A hash that waits for its booking still links to the latest trace.
LinksToLatest(h) == h # NoHash => IsSequence(h) /\ PrevHash(h) = Latest
HashesAreFresh == \A r \in Calls : pc[r] = "finalize" => LinksToLatest(hash[r])

ChainInv == Shape /\ Exclusive /\ HashesAreFresh /\ ChainIsLinear

-----------------------------------------------------------------------------
(* Chains. *)

LEMMA SequenceFacts ==
  ASSUME NEW s, IsSequence(s)
  PROVE  Len(s) \in Nat /\ DOMAIN s = 1..Len(s) /\ (s = << >> <=> Len(s) = 0)
<1>1. PICK S : s \in Seq(S)
  BY Zenon DEF IsSequence
<1> QED BY <1>1, LenProperties, EmptySeq

LEMMA EmptyIsSequence == IsSequence(<< >>)
<1>1. << >> \in Seq({})
  BY EmptySeq
<1> QED BY <1>1, Zenon DEF IsSequence

LEMMA AppendFacts ==
  ASSUME NEW s, NEW e, IsSequence(s)
  PROVE  /\ IsSequence(Append(s, e)) /\ Append(s, e) # << >>
         /\ Len(Append(s, e)) = Len(s) + 1
         /\ \A i \in 1..Len(s) : Append(s, e)[i] = s[i]
         /\ Append(s, e)[Len(s) + 1] = e
         /\ SubSeq(Append(s, e), 1, Len(s)) = s
<1>0. PICK S : s \in Seq(S)
  BY Zenon DEF IsSequence
<1> DEFINE T == S \cup {e}
<1> DEFINE a == Append(s, e)
<1>1. s \in Seq(T) /\ e \in T
  BY <1>0, SeqMonotonic
<1> HIDE DEF T
<1>2. /\ a \in Seq(T) /\ a # << >> /\ Len(a) = Len(s) + 1
      /\ \A i \in 1..Len(s) : a[i] = s[i]
      /\ a[Len(s) + 1] = e
  BY <1>1, AppendProperties
<1>3. Len(s) \in Nat /\ DOMAIN a = 1..Len(a)
  BY <1>1, <1>2, LenProperties
<1>4. IsSequence(a)
  BY <1>2, Zenon DEF IsSequence
<1>5. SubSeq(a, 1, Len(s)) = s
  <2>1. \A i \in 1..Len(s) : a[i] \in T
    BY <1>2, <1>3, ElementOfSeq
  <2>2. /\ SubSeq(a, 1, Len(s)) \in Seq(T)
        /\ Len(SubSeq(a, 1, Len(s))) = Len(s)
        /\ \A i \in 1..Len(s) : SubSeq(a, 1, Len(s))[i] = a[i]
    BY <2>1, <1>3, SubSeqProperties
  <2> QED BY <2>2, <1>1, <1>2, SeqEqual
<1> QED BY <1>2, <1>4, <1>5

\* What ComputeHash and the recovery compute links to the latest trace.
LEMMA LinkIsFresh ==
  ASSUME Shape, NEW t, NEW data
  PROVE  Link(t, data) # NoHash /\ LinksToLatest(Link(t, data))
<1>1. IsSequence(Latest)
  BY SequenceFacts, EmptyIsSequence DEF Latest, Shape, NoHash
<1> DEFINE e == [of |-> t, data |-> data]
<1>2. Link(t, data) = Append(Latest, e)
  BY DEF Link
<1> HIDE DEF e
<1>3. Len(Latest) \in Nat
  BY <1>1, SequenceFacts
<1>4. Len(Link(t, data)) - 1 = Len(Latest)
  BY <1>1, <1>2, <1>3, AppendFacts
<1>5. SubSeq(Link(t, data), 1, Len(Link(t, data)) - 1) = Latest
  BY <1>1, <1>2, <1>4, AppendFacts
<1>6. IsSequence(Link(t, data)) /\ Link(t, data) # << >>
  BY <1>1, <1>2, AppendFacts
<1> QED BY <1>5, <1>6, Zenon DEF LinksToLatest, PrevHash, NoHash

\* A trace that links to the latest one, or none, keeps the chain linear.
LEMMA InsertKeepsChain ==
  ASSUME Shape, ChainIsLinear, NEW h, LinksToLatest(h), InsertTrace(h)
  PROVE  /\ IsSequence(traces') /\ ChainIsLinear'
         /\ \A i \in DOMAIN traces' : IsSequence(traces'[i])
<1>1. CASE traces' = traces
  BY <1>1 DEF Shape, ChainIsLinear
<1>2. CASE h # NoHash /\ traces' = Append(traces, h)
  <2>1. IsSequence(traces) /\ Len(traces) \in Nat /\ DOMAIN traces = 1..Len(traces)
    BY SequenceFacts DEF Shape
  <2>2. /\ IsSequence(traces') /\ Len(traces') = Len(traces) + 1
        /\ \A i \in 1..Len(traces) : traces'[i] = traces[i]
        /\ traces'[Len(traces) + 1] = h
    BY <1>2, <2>1, AppendFacts
  <2>3. DOMAIN traces' = 1..(Len(traces) + 1)
    BY <2>2, SequenceFacts
  <2>4. IsSequence(h) /\ PrevHash(h) = Latest
    BY <1>2 DEF LinksToLatest
  <2>5. \A i \in DOMAIN traces' : IsSequence(traces'[i])
    BY <2>1, <2>2, <2>3, <2>4 DEF Shape
  <2>6. ASSUME NEW i \in DOMAIN traces'
        PROVE PrevHash(traces'[i]) = IF i = 1 THEN NoHash ELSE traces'[i - 1]
    <3>1. CASE i \in 1..Len(traces)
      BY <3>1, <2>1, <2>2 DEF ChainIsLinear
    <3>2. CASE i = Len(traces) + 1
      BY <3>2, <2>1, <2>2, <2>4, SequenceFacts DEF Latest
    <3> QED BY <3>1, <3>2, <2>1, <2>3
  <2> QED BY <2>2, <2>5, <2>6 DEF ChainIsLinear
<1> QED BY <1>1, <1>2 DEF InsertTrace

-----------------------------------------------------------------------------
(* Steps. *)

LEMMA ChainInit == Init => ChainInv
<1> SUFFICES ASSUME Init PROVE ChainInv
  OBVIOUS
<1>1. traces = << >> /\ IsSequence(traces) /\ DOMAIN traces = {}
  BY EmptyIsSequence, SequenceFacts DEF Init
<1>2. \A p \in Procs : pc[p] \in {"boot", "new"}
  BY DEF Init
<1>3. DOMAIN pc = Procs /\ pc = [p \in Procs |-> pc[p]] /\ DOMAIN hash = Procs /\ hash = [p \in Procs |-> hash[p]]
  BY DEF Init
<1>4. Shape /\ ChainIsLinear
  BY <1>1, <1>3 DEF Shape, ChainIsLinear
<1> QED BY <1>2, <1>4 DEF ChainInv, Exclusive, HashesAreFresh, Locked, Procs

\* A process takes a step of its own: it goes somewhere, with some hash, perhaps takes or releases
\* the lock, and only the lock's holder adds a trace.
LEMMA StepOf ==
  ASSUME ChainInv, NEW p \in Procs, NEW to, NEW h, NEW g,
         pc' = [pc EXCEPT ![p] = to], hash' = [hash EXCEPT ![p] = h],
         lock' = lock \/ lock \in {p, Nobody},
         to \in Locked => lock' = p,
         to = "finalize" => LinksToLatest(h) /\ UNCHANGED traces,
         UNCHANGED traces \/ (pc[p] \in Locked /\ LinksToLatest(g) /\ InsertTrace(g))
  PROVE  ChainInv'
<1>1. /\ DOMAIN pc' = Procs /\ pc' = [q \in Procs |-> pc'[q]]
      /\ DOMAIN hash' = Procs /\ hash' = [q \in Procs |-> hash'[q]]
  BY DEF ChainInv, Shape
<1>2. /\ pc'[p] = to /\ hash'[p] = h
      /\ \A q \in Procs \ {p} : pc'[q] = pc[q] /\ hash'[q] = hash[q]
  BY DEF ChainInv, Shape
<1>3. Nobody \notin Procs /\ Calls \subseteq Procs
  BY EvidenceAssumption DEF Procs
<1>4. Exclusive'
  BY <1>2, <1>3 DEF ChainInv, Exclusive
<1>5. IsSequence(traces') /\ ChainIsLinear' /\ \A i \in DOMAIN traces' : IsSequence(traces'[i])
  <2>1. CASE UNCHANGED traces
    BY <2>1 DEF ChainInv, Shape, ChainIsLinear
  <2>2. CASE LinksToLatest(g) /\ InsertTrace(g)
    BY <2>2, InsertKeepsChain DEF ChainInv
  <2> QED BY <2>1, <2>2
<1>6. ASSUME NEW r \in Calls, pc'[r] = "finalize" PROVE LinksToLatest(hash[r])'
  <2>1. CASE UNCHANGED traces
    <3>1. LinksToLatest(hash'[r])
      BY <1>2, <1>3, <1>6 DEF ChainInv, HashesAreFresh
    <3> QED BY <2>1, <3>1 DEF LinksToLatest, Latest
  <2>2. CASE pc[p] \in Locked /\ to # "finalize"
    <3>1. r # p /\ pc[r] = "finalize"
      BY <1>2, <1>3, <1>6, <2>2
    <3> QED BY <3>1, <2>2, <1>3 DEF ChainInv, Exclusive, Locked
  <2> QED BY <2>1, <2>2
<1> QED BY <1>1, <1>4, <1>5, <1>6 DEF ChainInv, Shape, HashesAreFresh

\* A step without a hash and without a trace.
LEMMA PlainStep ==
  ASSUME ChainInv, NEW p \in Procs, NEW to,
         pc' = [pc EXCEPT ![p] = to], UNCHANGED <<hash, traces>>,
         lock' = lock \/ lock \in {p, Nobody},
         to \in Locked => lock' = p, to # "finalize"
  PROVE  ChainInv'
<1>1. hash' = [hash EXCEPT ![p] = hash[p]]
  BY DEF ChainInv, Shape
<1> QED BY <1>1, StepOf

\* A process stays where it is.
LEMMA StayingStep ==
  ASSUME ChainInv, NEW p \in Procs, NEW g, UNCHANGED <<pc, hash, lock>>, pc[p] # "finalize",
         UNCHANGED traces \/ (pc[p] \in Locked /\ LinksToLatest(g) /\ InsertTrace(g))
  PROVE  ChainInv'
<1>1. pc' = [pc EXCEPT ![p] = pc[p]] /\ hash' = [hash EXCEPT ![p] = hash[p]]
  BY DEF ChainInv, Shape
<1>2. pc[p] \in Locked => lock' = p
  BY DEF ChainInv, Exclusive
<1> QED BY <1>1, <1>2, StepOf

\* An attempt to attest never works under the lock.
LEMMA AttemptStep ==
  ASSUME ChainInv, NEW p \in Procs, AttemptAttestation(p)
  PROVE  ChainInv'
<1>1. /\ UNCHANGED <<lock, hash, traces>>
      /\ \E to \in {"done", "idle", "jobs", "post", "settle", "confirm"} : pc' = [pc EXCEPT ![p] = to]
  <2>1. CASE Mark(p)
    BY <2>1 DEF Mark, EndAttempt, After, Goto
  <2>2. CASE Post(p)
    BY <2>2 DEF Post, Goto, tables
  <2>3. CASE Settle(p)
    BY <2>3 DEF Settle, EndAttempt, After, Goto
  <2>4. CASE Confirm(p)
    BY <2>4 DEF Confirm, EndAttempt, After, Goto
  <2> QED BY <2>1, <2>2, <2>3, <2>4 DEF AttemptAttestation
<1>2. PICK to \in {"done", "idle", "jobs", "post", "settle", "confirm"} : pc' = [pc EXCEPT ![p] = to]
  BY <1>1
<1>3. to \notin Locked /\ to # "finalize"
  BY DEF Locked
<1> QED BY <1>1, <1>2, <1>3, PlainStep

LEMMA FinalizeInserts ==
  ASSUME NEW i, NEW data, NEW h, FinalizeTrade(i, data, h)
  PROVE  UNCHANGED traces \/ InsertTrace(h)
BY DEF FinalizeTrade

LEMMA CallStep ==
  ASSUME ChainInv, NEW r \in Calls, SubmitOrder(r)
  PROVE  ChainInv'
<1>1. r \in Procs /\ Nobody \notin Procs
  BY EvidenceAssumption DEF Procs
<1>2. CASE PlaceOrder(r)
  <2>1. /\ lock = Nobody /\ lock' = r /\ UNCHANGED <<hash, traces>>
        /\ pc' = [pc EXCEPT ![r] = "latest"] \/ pc' = [pc EXCEPT ![r] = "unlock_lost"]
    BY <1>2 DEF PlaceOrder, Goto
  <2> QED BY <1>1, <2>1, PlainStep
<1>3. CASE ComputeHash(r)
  <2>1. /\ pc[r] = "latest" /\ pc' = [pc EXCEPT ![r] = "finalize"] /\ UNCHANGED <<lock, traces>>
        /\ hash' = [hash EXCEPT ![r] = Link(r, "answer")] \/ hash' = [hash EXCEPT ![r] = NoHash]
    BY <1>3 DEF ComputeHash, Goto, tables
  <2>2. LinksToLatest(Link(r, "answer")) /\ LinksToLatest(NoHash)
    BY LinkIsFresh DEF ChainInv, LinksToLatest
  <2>3. lock' = r
    BY <1>1, <2>1 DEF ChainInv, Exclusive, Locked
  <2> QED BY <1>1, <2>1, <2>2, <2>3, StepOf
<1>4. CASE Finalize(r)
  <2>1. /\ pc[r] = "finalize" /\ pc' = [pc EXCEPT ![r] = "unlock"] /\ UNCHANGED <<lock, hash>>
        /\ UNCHANGED traces \/ InsertTrace(hash[r])
    BY <1>4, FinalizeInserts DEF Finalize, Goto
  <2>2. LinksToLatest(hash[r]) /\ pc[r] \in Locked /\ lock' = r
    BY <1>1, <2>1 DEF ChainInv, HashesAreFresh, Exclusive, Locked
  <2>3. hash' = [hash EXCEPT ![r] = hash[r]]
    BY <2>1 DEF ChainInv, Shape
  <2> QED BY <1>1, <2>1, <2>2, <2>3, StepOf
<1>5. CASE Unlock(r)
  <2>1. /\ UNCHANGED <<hash, traces>> /\ (lock' = lock \/ lock = r)
        /\ pc' = [pc EXCEPT ![r] = "attest"] \/ pc' = [pc EXCEPT ![r] = "done"]
    BY <1>5 DEF Unlock, Goto, tables
  <2> QED BY <1>1, <2>1, PlainStep DEF Locked
<1>6. CASE Attest(r)
  <2>1. /\ hash' = [hash EXCEPT ![r] = NoHash] /\ UNCHANGED <<lock, traces>>
        /\ pc' = [pc EXCEPT ![r] = "done"] \/ pc' = [pc EXCEPT ![r] = "mark"]
    BY <1>6 DEF Attest, Goto
  <2> QED BY <1>1, <2>1, StepOf DEF Locked
<1>7. CASE AttemptAttestation(r)
  BY <1>1, <1>7, AttemptStep
<1> QED BY <1>2, <1>3, <1>4, <1>5, <1>6, <1>7 DEF SubmitOrder

LEMMA ServerKeepsChain ==
  ASSUME ChainInv, NEW s \in Servers, ServerStep(s)
  PROVE  ChainInv'
<1>1. s \in Procs /\ Nobody \notin Procs
  BY EvidenceAssumption DEF Procs
<1>2. pc[s] \in Locked => lock = s
  BY <1>1 DEF ChainInv, Exclusive
<1>3. CASE LoadKeys(s)
  <2>1. pc' = [pc EXCEPT ![s] = "lock"] /\ UNCHANGED <<lock, hash, traces>>
    BY <1>3 DEF LoadKeys, Goto, tables
  <2> QED BY <1>1, <2>1, PlainStep DEF Locked
<1>4. CASE BeginPass(s)
  <2>1. pc' = [pc EXCEPT ![s] = "resolve"] /\ lock = Nobody /\ lock' = s /\ UNCHANGED <<hash,
                                                                                        traces>>
    BY <1>4 DEF BeginPass, Goto, tables
  <2> QED BY <1>1, <2>1, PlainStep
<1>5. CASE ResolvePending(s)
  <2>1. pc[s] = "resolve" /\ UNCHANGED <<pc, hash, lock>>
    BY <1>5 DEF ResolvePending
  <2>2. UNCHANGED traces \/ \E g : LinksToLatest(g) /\ InsertTrace(g)
    <3>1. CASE UNCHANGED traces
      BY <3>1
    <3>2. CASE \E h \in {Link(rows[First(todo[s])].of, "history"), NoHash} : FinalizeTrade(First(todo[s]), "history", h)
      <4>1. PICK h \in {Link(rows[First(todo[s])].of, "history"), NoHash} : FinalizeTrade(First(todo[s]), "history", h)
        BY <3>2
      <4>2. LinksToLatest(h)
        BY LinkIsFresh DEF ChainInv, LinksToLatest
      <4> QED BY <4>1, <4>2, FinalizeInserts
    <3> QED BY <1>5, <3>1, <3>2 DEF ResolvePending
  <2> QED BY <1>1, <2>1, <2>2, StayingStep DEF Locked
<1>6. CASE InsertOrphan(s)
  <2>1. pc[s] = "resolve" /\ UNCHANGED <<pc, hash, lock, traces>>
    BY <1>6 DEF InsertOrphan
  <2> QED BY <1>1, <2>1, StayingStep
<1>7. CASE QueryWithoutHash(s)
  <2>1. pc[s] = "resolve" /\ pc' = [pc EXCEPT ![s] = "hash"] /\ UNCHANGED <<lock, hash, traces>>
    BY <1>7 DEF QueryWithoutHash, Goto, tables
  <2> QED BY <1>1, <1>2, <2>1, PlainStep DEF Locked
<1>8. CASE StampLegacy(s)
  <2>1. pc[s] = "hash" /\ UNCHANGED <<pc, hash, lock, traces>>
    BY <1>8 DEF StampLegacy
  <2> QED BY <1>1, <2>1, StayingStep
<1>9. CASE RestoreTrace(s)
  <2> DEFINE h == Link(rows[First(todo[s])].of, rows[First(todo[s])].data)
  <2>1. CASE hash' = [hash EXCEPT ![s] = h] /\ InsertTrace(hash'[s]) /\ Goto(s, "hash", "evidence") /\ UNCHANGED lock
    <3>1. LinksToLatest(h)
      BY LinkIsFresh DEF ChainInv
    <3> HIDE DEF h
    <3>2. hash'[s] = h
      BY <1>1, <2>1 DEF ChainInv, Shape
    <3>3. pc[s] = "hash" /\ pc' = [pc EXCEPT ![s] = "evidence"] /\ InsertTrace(h)
      BY <2>1, <3>2 DEF Goto
    <3> QED BY <1>1, <1>2, <2>1, <3>1, <3>3, StepOf DEF Locked
  <2>2. CASE Goto(s, "hash", "hash") /\ UNCHANGED <<lock, hash, traces>>
    <3>1. pc[s] = "hash" /\ pc' = [pc EXCEPT ![s] = "hash"]
      BY <2>2 DEF Goto
    <3> QED BY <1>1, <1>2, <2>2, <3>1, PlainStep DEF Locked
  <2> QED BY <1>9, <2>1, <2>2 DEF RestoreTrace
<1>10. CASE RestoreEvidence(s)
  <2>1. /\ pc[s] = "evidence" /\ UNCHANGED <<lock, hash, traces>>
        /\ pc' = [pc EXCEPT ![s] = "column"] \/ pc' = [pc EXCEPT ![s] = "hash"]
    BY <1>10 DEF RestoreEvidence, Goto
  <2> QED BY <1>1, <1>2, <2>1, PlainStep DEF Locked
<1>11. CASE RestoreColumn(s)
  <2>1. pc[s] = "column" /\ pc' = [pc EXCEPT ![s] = "hash"] /\ UNCHANGED <<lock, hash, traces>>
    BY <1>11 DEF RestoreColumn, Goto
  <2> QED BY <1>1, <1>2, <2>1, PlainStep DEF Locked
<1>12. CASE EndPass(s)
  <2>1. /\ pc' = [pc EXCEPT ![s] = "recover"] \/ pc' = [pc EXCEPT ![s] = "idle"]
        /\ lock' = lock \/ lock = s
        /\ hash' = [hash EXCEPT ![s] = NoHash] /\ UNCHANGED traces
    BY <1>12 DEF EndPass, Goto, tables
  <2> QED BY <1>1, <2>1, StepOf DEF Locked
<1>13. CASE ReadJobs(s)
  <2>1. /\ pc' = [pc EXCEPT ![s] = "idle"] \/ pc' = [pc EXCEPT ![s] = "jobs"]
        /\ UNCHANGED <<lock, hash, traces>>
    BY <1>13 DEF ReadJobs, Goto, tables
  <2> QED BY <1>1, <2>1, PlainStep DEF Locked
<1>14. CASE NextJob(s)
  <2>1. /\ pc[s] = "jobs" /\ UNCHANGED <<lock, hash, traces>>
        /\ UNCHANGED pc \/ pc' = [pc EXCEPT ![s] = "mark"]
    BY <1>14 DEF NextJob, Goto
  <2> QED BY <1>1, <2>1, PlainStep, StayingStep DEF Locked
<1>15. CASE EndRecovery(s)
  <2>1. pc' = [pc EXCEPT ![s] = "idle"] /\ UNCHANGED <<lock, hash, traces>>
    BY <1>15 DEF EndRecovery, Goto, tables
  <2> QED BY <1>1, <2>1, PlainStep DEF Locked
<1>16. CASE AttemptAttestation(s)
  BY <1>1, <1>16, AttemptStep
<1> QED
  BY <1>3, <1>4, <1>5, <1>6, <1>7, <1>8, <1>9, <1>10, <1>11, <1>12, <1>13, <1>14, <1>15, <1>16
      DEF ServerStep

\* A crash takes the lock from nobody who lives on.
LEMMA CrashKeepsChain ==
  ASSUME ChainInv, NEW s \in Servers, Crash(s)
  PROVE  ChainInv'
<1> DEFINE dead == {s} \cup {r \in Calls : at[r] = s /\ pc[r] \notin {"new", "done"}}
<1>1. /\ pc' = [p \in Procs |-> IF p = s THEN "boot" ELSE IF p \in dead THEN "done" ELSE pc[p]]
      /\ lock' = IF lock \in dead THEN Nobody ELSE lock
      /\ hash' = [p \in Procs |-> IF p \in dead THEN NoHash ELSE hash[p]]
      /\ UNCHANGED traces /\ s \in dead
  BY DEF Crash, tables
<1> HIDE DEF dead
<1>2. /\ DOMAIN pc' = Procs /\ pc' = [p \in Procs |-> pc'[p]]
      /\ DOMAIN hash' = Procs /\ hash' = [p \in Procs |-> hash'[p]]
  BY <1>1
<1>3. ASSUME NEW p \in Procs, pc'[p] \in Locked
      PROVE  p \notin dead /\ pc'[p] = pc[p] /\ hash'[p] = hash[p] /\ lock' = p
  BY <1>1, <1>3 DEF ChainInv, Exclusive, Locked
<1>4. Shape'
  BY <1>1, <1>2 DEF ChainInv, Shape
<1>5. HashesAreFresh'
  <2> SUFFICES ASSUME NEW r \in Calls, pc'[r] = "finalize" PROVE LinksToLatest(hash[r])'
    BY DEF HashesAreFresh
  <2>1. pc[r] = "finalize" /\ hash'[r] = hash[r]
    BY <1>3 DEF Procs, Locked
  <2> QED BY <1>1, <2>1 DEF ChainInv, HashesAreFresh, LinksToLatest, Latest
<1>6. ChainIsLinear'
  BY <1>1 DEF ChainInv, ChainIsLinear
<1> QED BY <1>3, <1>4, <1>5, <1>6 DEF ChainInv, Exclusive

LEMMA ChainStep == ChainInv /\ [Next]_vars => ChainInv'
<1> SUFFICES ASSUME ChainInv, [Next]_vars PROVE ChainInv'
  OBVIOUS
<1>1. CASE UNCHANGED vars
  <2>1. UNCHANGED <<lock, pc, hash, traces>>
    BY <1>1 DEF vars, tables
  <2> QED BY <2>1 DEF ChainInv, Shape, Exclusive, HashesAreFresh, LinksToLatest, Latest,
      ChainIsLinear
<1>2. CASE \E r \in Calls : SubmitOrder(r)
  BY <1>2, CallStep
<1>3. CASE \E s \in Servers : ServerStep(s) \/ Crash(s)
  BY <1>3, ServerKeepsChain, CrashKeepsChain
<1> QED BY <1>1, <1>2, <1>3 DEF Next

-----------------------------------------------------------------------------

\* decision_traces: however calls, recoveries and crashes interleave, every trace links to the
\* one inserted just before it, as the lock keeps the latest trace from changing between the read of
\* GetLatestTraceHash and the insert.
THEOREM ChainStaysLinear == Spec => []ChainIsLinear
<1>1. ChainInv => ChainIsLinear
  BY DEF ChainInv
<1> QED BY <1>1, ChainInit, ChainStep, PTL DEF Spec

-----------------------------------------------------------------------------
(* The trades table: what its statements do to it. *)

\* The table is a sequence of rows.
IsTable(t) == t \in Seq(RowSet)

\* A row keeps what it is about, and what it shows of it.
SameFill(a, b) ==
  a.of = b.of /\ a.st = b.st /\ a.data = b.data /\ a.hash = b.hash /\ a.column = b.column

\* Only the attestation of row i is written.
AttestationWrite(i, a, n) ==
  /\ DOMAIN rows' = DOMAIN rows /\ IsTable(rows')
  /\ \A k \in DOMAIN rows : SameFill(rows'[k], rows[k])
  /\ \A k \in DOMAIN rows \ {i} : rows'[k] = rows[k]
  /\ rows'[i].att = a /\ rows'[i].tries = n

LEMMA TableFacts ==
  ASSUME NEW t, IsTable(t)
  PROVE  /\ Len(t) \in Nat /\ DOMAIN t = 1..Len(t) /\ DOMAIN t \subseteq Nat
         /\ t = [i \in DOMAIN t |-> t[i]]
         /\ \A i \in DOMAIN t : t[i] \in RowSet
BY LenProperties, ElementOfSeq DEF IsTable

LEMMA TableOf ==
  ASSUME NEW t, NEW u, IsTable(t), DOMAIN u = DOMAIN t, u = [i \in DOMAIN t |-> u[i]],
         \A i \in DOMAIN t : u[i] \in RowSet
  PROVE  IsTable(u)
<1>1. Len(t) \in Nat /\ DOMAIN t = 1..Len(t)
  BY TableFacts
<1>2. u \in [1..Len(t) -> RowSet]
  BY <1>1, Zenon
<1> QED BY <1>1, <1>2, SeqDef DEF IsTable

LEMMA WriteFacts ==
  ASSUME IsTable(rows), NEW i \in DOMAIN rows, NEW a \in Status, NEW n \in 0..MaxAttempts,
         rows' = [rows EXCEPT ![i].att = a, ![i].tries = n]
  PROVE  AttestationWrite(i, a, n)
<1>1. \A k \in DOMAIN rows : rows[k] \in RowSet
  BY TableFacts
<1>2. DOMAIN rows' = DOMAIN rows /\ rows' = [k \in DOMAIN rows |-> rows'[k]]
  BY TableFacts
<1>3. \A k \in DOMAIN rows \ {i} : rows'[k] = rows[k]
  BY <1>2
<1>4. rows'[i] = [[rows[i] EXCEPT !.att = a] EXCEPT !.tries = n]
  BY <1>2
<1>5. rows'[i] \in RowSet /\ SameFill(rows'[i], rows[i]) /\ rows'[i].att = a /\ rows'[i].tries = n
  BY <1>1, <1>4 DEF RowSet, SameFill
<1>6. \A k \in DOMAIN rows : rows'[k] \in RowSet
  BY <1>1, <1>3, <1>5
<1> QED BY <1>2, <1>3, <1>5, <1>6, TableOf DEF AttestationWrite, SameFill

LEMMA AppendRowFacts ==
  ASSUME IsTable(rows), NEW r \in Calls \cup Legacy, NEW st \in {"pending", "fill"},
         NEW data \in {"none", "intent", "answer", "history"}, rows' = Append(rows, Row(r, st, data))
  PROVE  /\ IsTable(rows') /\ Len(rows) + 1 \notin DOMAIN rows
         /\ DOMAIN rows' = DOMAIN rows \cup {Len(rows) + 1}
         /\ \A k \in DOMAIN rows : rows'[k] = rows[k]
         /\ rows'[Len(rows) + 1] = Row(r, st, data)
<1>1. NoHash \in Hash /\ 0 \in 0..MaxAttempts /\ "none" \in Status
  BY EmptySeq, EvidenceAssumption DEF Hash, NoHash, Status
<1> DEFINE e == Row(r, st, data)
<1>2. e \in RowSet /\ rows' = Append(rows, e)
  BY <1>1 DEF Row, RowSet
<1> HIDE DEF e
<1>3. /\ rows' \in Seq(RowSet) /\ Len(rows') = Len(rows) + 1
      /\ \A k \in 1..Len(rows) : rows'[k] = rows[k]
      /\ rows'[Len(rows) + 1] = e
  BY <1>2, AppendProperties DEF IsTable
<1>4. Len(rows) \in Nat /\ DOMAIN rows = 1..Len(rows) /\ DOMAIN rows' = 1..Len(rows')
  BY <1>3, TableFacts DEF IsTable
<1>5. DOMAIN rows' = DOMAIN rows \cup {Len(rows) + 1} /\ Len(rows) + 1 \notin DOMAIN rows
  BY <1>3, <1>4
<1> QED BY <1>3, <1>4, <1>5 DEF IsTable, e

\* FinalizeTrade books a pending row and leaves every other alone.
Booking(i, data, h) ==
  /\ DOMAIN rows' = DOMAIN rows /\ IsTable(rows')
  /\ \A k \in DOMAIN rows \ {i} : rows'[k] = rows[k]
  /\ rows'[i].of = rows[i].of /\ rows'[i].att = rows[i].att /\ rows'[i].tries = rows[i].tries
  /\ rows'[i].st = "fill" /\ rows'[i].data = data /\ rows'[i].hash = h /\ rows'[i].column = h

LEMMA FinalizeFacts ==
  ASSUME IsTable(rows), NEW i \in DOMAIN rows, NEW h \in Hash, NEW data \in {"answer", "history"},
         FinalizeTrade(i, data, h)
  PROVE  \/ UNCHANGED <<rows, traces>>
         \/ rows[i].st = "pending" /\ Booking(i, data, h) /\ InsertTrace(h)
<1> SUFFICES ASSUME rows[i].st = "pending",
                    rows' = [rows EXCEPT ![i].st = "fill", ![i].data = data, ![i].hash = h, ![i].column = h]
             PROVE  Booking(i, data, h)
  BY DEF FinalizeTrade
<1>1. \A k \in DOMAIN rows : rows[k] \in RowSet
  BY TableFacts
<1>2. DOMAIN rows' = DOMAIN rows /\ rows' = [k \in DOMAIN rows |-> rows'[k]]
  BY TableFacts
<1>3. \A k \in DOMAIN rows \ {i} : rows'[k] = rows[k]
  BY <1>2
<1>4. rows'[i] = [[[[rows[i] EXCEPT !.st = "fill"] EXCEPT !.data = data] EXCEPT !.hash = h] EXCEPT !.column = h]
  BY <1>2
<1>5. /\ rows'[i] \in RowSet /\ rows'[i].of = rows[i].of /\ rows'[i].att = rows[i].att /\ rows'[i].tries = rows[i].tries
      /\ rows'[i].st = "fill" /\ rows'[i].data = data /\ rows'[i].hash = h /\ rows'[i].column = h
  BY <1>1, <1>4 DEF RowSet
<1>6. \A k \in DOMAIN rows : rows'[k] \in RowSet
  BY <1>1, <1>3, <1>5
<1> QED BY <1>2, <1>3, <1>5, <1>6, TableOf DEF Booking

\* A pass works on the smallest id it still has.
LEMMA FirstFacts ==
  ASSUME NEW S, S \subseteq Nat, S # {}
  PROVE  First(S) \in S
<1> DEFINE R == {p \in Nat \X Nat : p[1] < p[2]}
<1>1. R = OpToRel(<, Nat)
  BY Zenon DEF OpToRel
<1>2. IsWellFoundedOn(R, Nat)
  BY <1>1, NatLessThanWellFounded, Zenon
<1>3. PICK x \in S : \A y \in S : <<y, x>> \notin R
  BY <1>2, WFMin
<1>4. \A a, b \in Nat : a < b => <<a, b>> \in R
  OBVIOUS
<1> HIDE DEF R
<1>5. \A y \in S : y \in Nat /\ x \in Nat /\ ~ (y < x)
  BY <1>3, <1>4
<1>6. \A y \in S : x <= y
  BY <1>5
<1> QED BY <1>6 DEF First

\* The row of a trade that has one.
HasRow(t) == \E i \in DOMAIN rows : rows[i].of = t
DistinctRows == \A i, j \in DOMAIN rows : rows[i].of = rows[j].of => i = j

LEMMA RowOfFacts ==
  ASSUME NEW t, HasRow(t)
  PROVE  RowOf(t) \in DOMAIN rows /\ rows[RowOf(t)].of = t
BY DEF HasRow, RowOf

LEMMA HashFacts ==
  ASSUME traces \in Seq(Hash), NEW t \in Calls \cup Legacy, NEW data \in {"answer", "history"}
  PROVE  /\ NoHash \in Hash /\ Latest \in Hash /\ Link(t, data) \in Hash
         /\ Link(t, data) # NoHash /\ Last(Link(t, data)) = [of |-> t, data |-> data]
<1> DEFINE L == [of : Calls \cup Legacy \cup {Nobody}, data : {"answer", "history", "legacy"}]
           e == [of |-> t, data |-> data]
<1>1. e \in L
  OBVIOUS
<1>2. Hash = Seq(L)
  BY DEF Hash
<1> HIDE DEF L
<1>3. NoHash \in Hash
  BY <1>2, EmptySeq DEF NoHash
<1>4. Latest \in Hash
  <2>1. CASE traces = << >>
    BY <1>3, <2>1 DEF Latest
  <2>2. CASE traces # << >>
    <3>1. Len(traces) \in 1..Len(traces)
      BY <2>2, LenProperties, EmptySeq
    <3> QED BY <2>2, <3>1, ElementOfSeq DEF Latest
  <2> QED BY <2>1, <2>2
<1>5. Link(t, data) = Append(Latest, e)
  BY DEF Link
<1> HIDE DEF e
<1>6. /\ Append(Latest, e) \in Seq(L) /\ Append(Latest, e) # << >>
      /\ Len(Append(Latest, e)) = Len(Latest) + 1 /\ Append(Latest, e)[Len(Latest) + 1] = e
  BY <1>1, <1>2, <1>4, AppendProperties
<1> QED BY <1>2, <1>3, <1>4, <1>5, <1>6 DEF Last, NoHash, e

LEMMA InsertFacts ==
  ASSUME traces \in Seq(Hash), NEW h \in Hash, InsertTrace(h)
  PROVE  /\ traces' \in Seq(Hash) /\ Range(traces) \subseteq Range(traces')
         /\ h # NoHash => h \in Range(traces')
<1>1. CASE traces' = traces /\ (h # NoHash => h \in Range(traces))
  BY <1>1
<1>2. CASE traces' = Append(traces, h)
  <2>1. /\ traces' \in Seq(Hash) /\ Len(traces') = Len(traces) + 1
        /\ \A i \in 1..Len(traces) : traces'[i] = traces[i]
        /\ traces'[Len(traces) + 1] = h
    BY <1>2, AppendProperties
  <2>2. /\ Len(traces) \in Nat /\ DOMAIN traces = 1..Len(traces)
        /\ DOMAIN traces' = 1..(Len(traces) + 1)
    BY <2>1, LenProperties
  <2>3. \A i \in DOMAIN traces : i \in DOMAIN traces' /\ traces'[i] = traces[i]
    BY <2>1, <2>2
  <2>4. Len(traces) + 1 \in DOMAIN traces'
    BY <2>2
  <2> QED BY <2>1, <2>3, <2>4 DEF Range
<1> QED BY <1>1, <1>2 DEF InsertTrace

-----------------------------------------------------------------------------
(* Types, and the identity of rows. *)

\* Where a call's trade has a row, and where a process works on one.
Booked == {"latest", "finalize", "unlock", "attest", "mark", "post", "settle", "confirm"}
Attempting == {"mark", "post", "settle", "confirm"}
Hashing == {"hash", "evidence", "column"}

\* A trade has one row or none; a fill that is still to be inserted has none.
TableInv ==
  /\ DistinctRows
  /\ \A i \in DOMAIN rows : rows[i].data = "intent" <=> rows[i].st = "pending"
  /\ \A r \in orphans : pc[r] # "new" /\ ~HasRow(r)
  /\ \A r \in Calls : pc[r] = "new" => ~HasRow(r)
  /\ \A r \in Calls : pc[r] \in Booked => HasRow(r)
  /\ \A s \in Servers : missing[s] \subseteq orphans /\ (missing[s] # {} => pc[s] = "resolve")
  /\ \A s \in Servers : pc[s] \in Hashing => todo[s] \subseteq FilledRows /\ (pc[s] # "hash" => todo[s] # {})
  /\ \A p \in Procs : pc[p] \in Attempting => job[p].row \in DOMAIN rows
  /\ \A r \in Calls : pc[r] \in Attempting => rows[job[r].row].of = r
  /\ \A s \in Servers : \A j \in jobs[s] : j.row \in DOMAIN rows

\* TypeOK in three parts.
SharedTypes ==
  /\ lock \in Procs \cup {Nobody} /\ IsTable(rows) /\ orphans \subseteq Calls /\ traces \in Seq(Hash)
  /\ posts \in [Calls \cup Legacy -> Seq(Hash)] /\ spent \in [Calls \cup Legacy -> Nat]
  /\ at \in [Calls -> Servers]
ProcTypes ==
  /\ DOMAIN pc = Procs /\ job \in [Procs -> JobSet] /\ hash \in [Procs -> Hash]
  /\ answer \in [Procs -> AllAnswers \cup {"none"}] /\ over \in [Procs -> BOOLEAN]
ServerTypes ==
  /\ jobs \in [Servers -> SUBSET JobSet] /\ todo \in [Servers -> SUBSET DOMAIN rows]
  /\ missing \in [Servers -> SUBSET Calls]
  /\ breaker \in [Servers -> BOOLEAN] /\ startup \in [Servers -> BOOLEAN]

LEMMA TypeParts == TypeOK <=> SharedTypes /\ ProcTypes /\ ServerTypes
BY DEF TypeOK, SharedTypes, ProcTypes, ServerTypes, IsTable

RowInv == ChainInv /\ SharedTypes /\ ProcTypes /\ ServerTypes /\ TableInv

\* A step writes a process's own variables with values of their types.
LEMMA ProcStep ==
  ASSUME ProcTypes, NEW p \in Procs, DOMAIN pc' = Procs,
         UNCHANGED job \/ \E j \in JobSet : job' = [job EXCEPT ![p] = j],
         UNCHANGED hash \/ \E h \in Hash : hash' = [hash EXCEPT ![p] = h],
         UNCHANGED answer \/ \E a \in AllAnswers \cup {"none"} : answer' = [answer EXCEPT ![p] = a],
         UNCHANGED over \/ \E b \in BOOLEAN : over' = [over EXCEPT ![p] = b]
  PROVE  ProcTypes'
<1>1. job' \in [Procs -> JobSet]
  BY DEF ProcTypes
<1>2. hash' \in [Procs -> Hash]
  BY DEF ProcTypes
<1>3. answer' \in [Procs -> AllAnswers \cup {"none"}]
  BY DEF ProcTypes
<1>4. over' \in [Procs -> BOOLEAN]
  BY DEF ProcTypes
<1> QED BY <1>1, <1>2, <1>3, <1>4 DEF ProcTypes

LEMMA MayWriteFacts ==
  ASSUME IsTable(rows), NEW p, NEW i \in DOMAIN rows, NEW a \in Status, NEW n \in 0..MaxAttempts,
         MayWrite(p, i, a, n)
  PROVE  UNCHANGED rows \/ AttestationWrite(i, a, n)
BY WriteFacts DEF MayWrite, Writes, WriteFails

\* What a process may do to the table outside the lock: the attestation of one row.
AttestationStep == UNCHANGED rows \/ \E i \in DOMAIN rows, a \in Status, n \in 0..MaxAttempts : AttestationWrite(i, a, n)

LEMMA ConstantFacts ==
  /\ Calls \subseteq Procs /\ Servers \subseteq Procs /\ Calls \cap Servers = {}
  /\ Legacy \cap Procs = {} /\ Nobody \notin Procs
  /\ MaxAttempts \in Nat \ {0} /\ Terminal \subseteq Status
  /\ NoHash \in Hash /\ NoJob \in JobSet
<1>1. NoHash \in Hash
  BY EmptySeq DEF Hash, NoHash
<1> QED BY <1>1, EvidenceAssumption DEF Procs, Terminal, Status, NoJob, JobSet

LEMMA AppendTypes == ASSUME NEW S, NEW s \in Seq(S), NEW e \in S PROVE Append(s, e) \in Seq(S) /\ Append(s, e) # << >>
BY AppendProperties

LEMMA AttemptTypes ==
  ASSUME RowInv, NEW p \in Procs, AttemptAttestation(p)
  PROVE  /\ UNCHANGED <<lock, orphans, traces, at, hash, passVars>> /\ AttestationStep
         /\ pc[p] \in Attempting
         /\ \E to \in {"done", "idle", "jobs", "post", "settle", "confirm"} :
              /\ pc' = [pc EXCEPT ![p] = to]
              /\ to \in {"done", "idle", "jobs"} => job' = [job EXCEPT ![p] = NoJob]
              /\ to \in Attempting => UNCHANGED job
         /\ SharedTypes' /\ ProcTypes' /\ ServerTypes'
<1> USE ConstantFacts
<1>0. IsTable(rows) /\ job[p] \in JobSet /\ job[p].tries \in 0..MaxAttempts
  BY DEF RowInv, SharedTypes, ProcTypes, JobSet
<1>1. pc[p] \in Attempting => job[p].row \in DOMAIN rows
  BY DEF RowInv, TableInv
<1>2. AttestationStep => IsTable(rows') /\ DOMAIN rows' = DOMAIN rows
  BY <1>0 DEF AttestationStep, AttestationWrite
<1>3. CASE Mark(p)
  <2>0. "error" \in Status /\ "pending" \in Status /\ 0 \in 0..MaxAttempts /\ "mark" \in Attempting
    BY DEF Status, Attempting
  <2>1. pc[p] = "mark" /\ job[p].row \in DOMAIN rows
    BY <1>1, <1>3 DEF Mark, EndAttempt, Goto, Attempting
  <2>2. ~(job[p].att = "pending" /\ job[p].tries >= MaxAttempts) => job[p].tries + 1 \in 0..MaxAttempts
    BY <1>0 DEF JobSet
  <2>3. AttestationStep
    <3>1. CASE MayWrite(p, job[p].row, "error", 0) \/ WriteFails(p)
      BY <1>0, <2>0, <2>1, <3>1, MayWriteFacts DEF AttestationStep, WriteFails
    <3>2. CASE ~(job[p].att = "pending" /\ job[p].tries >= MaxAttempts) /\ Writes(p, job[p].row, "pending", job[p].tries + 1)
      BY <1>0, <2>0, <2>1, <2>2, <3>2, MayWriteFacts DEF AttestationStep, MayWrite
    <3> QED BY <1>3, <3>1, <3>2 DEF Mark
  <2>4. /\ UNCHANGED <<lock, orphans, traces, at, hash, passVars, chain, breaker>>
        /\ \/ \E to \in {"done", "idle", "jobs"} :
                /\ pc' = [pc EXCEPT ![p] = to] /\ job' = [job EXCEPT ![p] = NoJob]
                /\ answer' = [answer EXCEPT ![p] = "none"] /\ over' = [over EXCEPT ![p] = FALSE]
           \/ pc' = [pc EXCEPT ![p] = "post"] /\ UNCHANGED attempt
    BY <1>3 DEF Mark, EndAttempt, After, Goto
  <2>5. SharedTypes'
    BY <1>2, <2>3, <2>4 DEF RowInv, SharedTypes, chain
  <2>6. ProcTypes'
    <3>1. DOMAIN pc' = Procs /\ ProcTypes
      BY <2>4 DEF RowInv, ProcTypes
    <3> QED BY <2>4, <3>1, ProcStep DEF attempt
  <2>7. ServerTypes'
    BY <1>2, <2>3, <2>4 DEF RowInv, ServerTypes, passVars
  <2> QED BY <2>0, <2>1, <2>3, <2>4, <2>5, <2>6, <2>7 DEF Attempting, attempt
<1>4. CASE Post(p)
  <2>1. /\ UNCHANGED <<lock, orphans, traces, at, hash, passVars, job, breaker, rows>>
        /\ pc[p] = "post" /\ pc' = [pc EXCEPT ![p] = "settle"]
    BY <1>4 DEF Post, Goto, tables
  <2>2. PICK a \in Answers : /\ answer' = [answer EXCEPT ![p] = a]
                             /\ \/ a \in {"mined", "technical"} /\ Carried(p)
                                \/ UNCHANGED chain
                                \/ UNCHANGED posts /\ spent' = [spent EXCEPT ![TradeOf(p)] = 0]
    BY <1>4 DEF Post
  <2>3. UNCHANGED over \/ over' = [over EXCEPT ![p] = TRUE]
    BY <1>4 DEF Post
  <2>4. a \in AllAnswers /\ pc[p] \in Attempting
    BY <2>1, EvidenceAssumption DEF Attempting
  <2>5. TradeOf(p) \in Calls \cup Legacy /\ job[p].hash \in Hash
    BY <1>0, <1>1, <2>4, TableFacts DEF JobSet, RowSet, TradeOf
  <2>6. posts' \in [Calls \cup Legacy -> Seq(Hash)] /\ spent' \in [Calls \cup Legacy -> Nat]
    <3>1. \A t \in Calls \cup Legacy : posts[t] \in Seq(Hash) /\ spent[t] \in Nat
      BY DEF RowInv, SharedTypes
    <3>2. posts' = posts \/ \E e \in Seq(Hash) : posts' = [posts EXCEPT ![TradeOf(p)] = e]
      <4>1. Append(posts[TradeOf(p)], job[p].hash) \in Seq(Hash)
        BY <2>5, <3>1, AppendTypes
      <4> QED BY <2>2, <4>1, Zenon DEF Carried, chain
    <3>3. spent' = spent \/ \E n \in Nat : spent' = [spent EXCEPT ![TradeOf(p)] = n]
      <4>1. spent[TradeOf(p)] + 1 \in Nat /\ 0 \in Nat
        BY <2>5, <3>1
      <4> QED BY <2>2, <4>1, Zenon DEF Carried, chain
    <3> DEFINE T == Seq(Hash)
    <3>4. posts \in [Calls \cup Legacy -> T] /\ spent \in [Calls \cup Legacy -> Nat]
      BY DEF RowInv, SharedTypes
    <3>5. posts' = posts \/ \E e \in T : posts' = [posts EXCEPT ![TradeOf(p)] = e]
      BY <3>2
    <3> HIDE DEF T
    <3>6. posts' \in [Calls \cup Legacy -> T]
      BY <2>5, <3>4, <3>5
    <3>7. spent' \in [Calls \cup Legacy -> Nat]
      BY <2>5, <3>3, <3>4
    <3> QED BY <3>6, <3>7 DEF T
  <2>7. SharedTypes'
    BY <2>1, <2>6 DEF RowInv, SharedTypes
  <2>8. ProcTypes'
    <3>1. DOMAIN pc' = Procs /\ ProcTypes
      BY <2>1 DEF RowInv, ProcTypes
    <3> QED BY <2>1, <2>2, <2>3, <2>4, <3>1, ProcStep
  <2>9. ServerTypes'
    BY <2>1 DEF RowInv, ServerTypes, passVars
  <2> QED BY <2>1, <2>4, <2>7, <2>8, <2>9 DEF Attempting, AttestationStep
<1>5. CASE Settle(p)
  <2>0. Outcome(p) \in Status \ {"none"} /\ (Outcome(p) = "pending" => job[p].tries + 1 \in 0..MaxAttempts)
    BY <1>0 DEF Outcome, Status
  <2>1. pc[p] = "settle" /\ pc[p] \in Attempting /\ job[p].row \in DOMAIN rows
    BY <1>1, <1>5 DEF Settle, EndAttempt, Goto, Attempting
  <2> DEFINE n == IF Outcome(p) = "pending" THEN job[p].tries + 1 ELSE 0
  <2>2. n \in 0..MaxAttempts
    BY <2>0
  <2>3. Writes(p, job[p].row, Outcome(p), n) \/ UNCHANGED rows
    BY <1>5 DEF Settle, WriteFails
  <2> HIDE DEF n
  <2>4. AttestationStep
    BY <1>0, <2>0, <2>1, <2>2, <2>3, MayWriteFacts DEF AttestationStep, MayWrite
  <2>5. /\ UNCHANGED <<lock, orphans, traces, at, hash, passVars, chain>>
        /\ \/ \E to \in {"done", "idle", "jobs"} :
                /\ pc' = [pc EXCEPT ![p] = to] /\ job' = [job EXCEPT ![p] = NoJob]
                /\ answer' = [answer EXCEPT ![p] = "none"] /\ over' = [over EXCEPT ![p] = FALSE]
           \/ pc' = [pc EXCEPT ![p] = "confirm"] /\ UNCHANGED attempt
    BY <1>5 DEF Settle, EndAttempt, After, Goto
  <2>6. breaker' \in [Servers -> BOOLEAN]
    <3>1. \E b \in BOOLEAN : breaker' = [breaker EXCEPT ![ServerOf(p)] = b]
      BY <1>5 DEF Settle, RowInv, ServerTypes
    <3> QED BY <3>1 DEF RowInv, ServerTypes
  <2>7. SharedTypes'
    BY <1>2, <2>4, <2>5 DEF RowInv, SharedTypes, chain
  <2>8. ProcTypes'
    <3>1. DOMAIN pc' = Procs /\ ProcTypes
      BY <2>5 DEF RowInv, ProcTypes
    <3> QED BY <2>5, <3>1, ProcStep DEF attempt
  <2>9. ServerTypes'
    BY <1>2, <2>4, <2>5, <2>6 DEF RowInv, ServerTypes, passVars
  <2> QED BY <2>1, <2>4, <2>5, <2>7, <2>8, <2>9 DEF Attempting, attempt
<1>6. CASE Confirm(p)
  <2>1. pc[p] = "confirm" /\ pc[p] \in Attempting /\ job[p].row \in DOMAIN rows
    BY <1>1, <1>6 DEF Confirm, EndAttempt, Goto, Attempting
  <2>2. "pending_confirm" \in Status /\ 0 \in 0..MaxAttempts
    BY DEF Status
  <2>3. AttestationStep
    BY <1>0, <1>6, <2>1, <2>2, MayWriteFacts DEF AttestationStep, Confirm
  <2>4. /\ UNCHANGED <<lock, orphans, traces, at, hash, passVars, chain, breaker>>
        /\ \E to \in {"done", "idle", "jobs"} :
             /\ pc' = [pc EXCEPT ![p] = to] /\ job' = [job EXCEPT ![p] = NoJob]
             /\ answer' = [answer EXCEPT ![p] = "none"] /\ over' = [over EXCEPT ![p] = FALSE]
    BY <1>6 DEF Confirm, EndAttempt, After, Goto
  <2>5. SharedTypes'
    BY <1>2, <2>3, <2>4 DEF RowInv, SharedTypes, chain
  <2>6. ProcTypes'
    <3>1. DOMAIN pc' = Procs /\ ProcTypes
      BY <2>4 DEF RowInv, ProcTypes
    <3> QED BY <2>4, <3>1, ProcStep
  <2>7. ServerTypes'
    BY <1>2, <2>3, <2>4 DEF RowInv, ServerTypes, passVars
  <2> QED BY <2>1, <2>3, <2>4, <2>5, <2>6, <2>7 DEF Attempting
<1> QED BY <1>3, <1>4, <1>5, <1>6 DEF AttemptAttestation

\* A step that adds no row.
SameTable ==
  /\ DOMAIN rows' = DOMAIN rows
  /\ \A k \in DOMAIN rows : /\ rows'[k].of = rows[k].of
                            /\ rows'[k].data = "intent" <=> rows'[k].st = "pending"
                            /\ rows[k].st = "fill" => rows'[k].st = "fill" /\ rows'[k].data = rows[k].data

JobsHaveRows ==
  /\ \A p \in Procs : pc[p] \in Attempting => job[p].row \in DOMAIN rows
  /\ \A r \in Calls : pc[r] \in Attempting => rows[job[r].row].of = r
  /\ \A s \in Servers : \A j \in jobs[s] : j.row \in DOMAIN rows

LEMMA SameTableStep ==
  ASSUME RowInv, SameTable, UNCHANGED orphans, NEW p \in Procs, NEW to,
         pc' = [pc EXCEPT ![p] = to], to # "new",
         p \in Calls /\ to \in Booked => pc[p] \in Booked,
         \A s \in Servers : missing'[s] \subseteq orphans /\ (missing'[s] # {} => pc'[s] = "resolve"),
         \A s \in Servers : pc'[s] \in Hashing => todo'[s] \subseteq FilledRows /\ (pc'[s] # "hash" => todo'[s] # {}),
         JobsHaveRows'
  PROVE  TableInv'
<1> USE ConstantFacts
<1>1. DOMAIN pc = Procs /\ \A q \in Procs \ {p} : pc'[q] = pc[q]
  BY DEF RowInv, ProcTypes
<1>2. pc'[p] = to
  BY DEF RowInv, ProcTypes
<1>3. \A t : HasRow(t)' <=> HasRow(t)
  BY DEF SameTable, HasRow
<1>4. DistinctRows'
  BY DEF RowInv, TableInv, SameTable, DistinctRows
<1>5. \A r \in orphans' : pc'[r] # "new" /\ ~HasRow(r)'
  BY <1>1, <1>2, <1>3 DEF RowInv, TableInv, SharedTypes
<1>6. \A r \in Calls : pc'[r] = "new" => ~HasRow(r)'
  BY <1>1, <1>2, <1>3 DEF RowInv, TableInv
<1>7. \A r \in Calls : pc'[r] \in Booked => HasRow(r)'
  BY <1>1, <1>2, <1>3 DEF RowInv, TableInv
<1>8. \A s \in Servers : pc'[s] \in Hashing => todo'[s] \subseteq FilledRows' /\ (pc'[s] # "hash" => todo'[s] # {})
  BY DEF SameTable, FilledRows
<1> QED BY <1>4, <1>5, <1>6, <1>7, <1>8 DEF TableInv, JobsHaveRows, SameTable

LEMMA AttestationKeepsTable ==
  ASSUME RowInv, AttestationStep
  PROVE  SameTable /\ FilledRows' = FilledRows
BY DEF FilledRows, AttestationStep, AttestationWrite, SameTable, SameFill, RowInv, TableInv

\* Nobody but p has a new job.
LEMMA JobsKept ==
  ASSUME RowInv, SameTable, NEW p \in Procs, NEW to,
         pc' = [pc EXCEPT ![p] = to], UNCHANGED jobs,
         \/ UNCHANGED job
         \/ \E j : job' = [job EXCEPT ![p] = j],
         to \in Attempting => /\ job'[p].row \in DOMAIN rows
                              /\ p \in Calls => rows[job'[p].row].of = p
  PROVE  JobsHaveRows'
<1>1. \A q \in Procs \ {p} : pc'[q] = pc[q] /\ job'[q] = job[q]
  BY DEF RowInv, ProcTypes
<1>2. pc'[p] = to
  BY DEF RowInv, ProcTypes
<1> QED BY <1>1, <1>2, ConstantFacts DEF RowInv, TableInv, JobsHaveRows, SameTable

LEMMA AttemptKeepsTable ==
  ASSUME RowInv, NEW p \in Procs, AttemptAttestation(p)
  PROVE  TableInv'
<1>1. /\ UNCHANGED <<orphans, missing, jobs>> /\ SameTable /\ pc[p] \in Attempting
      /\ \E to \in {"done", "idle", "jobs", "post", "settle", "confirm"} :
              /\ pc' = [pc EXCEPT ![p] = to]
              /\ to \in {"done", "idle", "jobs"} => job' = [job EXCEPT ![p] = NoJob]
              /\ to \in Attempting => UNCHANGED job
  BY AttemptTypes, AttestationKeepsTable DEF passVars
<1>2. PICK to \in {"done", "idle", "jobs", "post", "settle", "confirm"} :
              /\ pc' = [pc EXCEPT ![p] = to]
              /\ to \in {"done", "idle", "jobs"} => job' = [job EXCEPT ![p] = NoJob]
              /\ to \in Attempting => UNCHANGED job
  BY <1>1
<1>3. pc[p] \in Booked /\ to # "new" /\ (to \in Attempting \/ to \notin Booked)
  BY <1>1 DEF Booked, Attempting
<1>4. \A s \in Servers : pc'[s] = pc[s] \/ pc[s] # "resolve"
  BY <1>1, <1>2, ConstantFacts DEF RowInv, ProcTypes, Attempting
<1>5. \A s \in Servers : missing'[s] \subseteq orphans /\ (missing'[s] # {} => pc'[s] = "resolve")
  BY <1>1, <1>4 DEF RowInv, TableInv
<1>6. UNCHANGED job \/ \E j : job' = [job EXCEPT ![p] = j]
  BY <1>2 DEF Attempting
<1>7. to \in Attempting => /\ job'[p].row \in DOMAIN rows
                           /\ p \in Calls => rows[job'[p].row].of = p
  BY <1>1, <1>2 DEF RowInv, TableInv
<1>9. \A s \in Servers : pc'[s] \in Hashing => todo'[s] \subseteq FilledRows /\ (pc'[s] # "hash" => todo'[s] # {})
  <2>1. UNCHANGED todo /\ pc[p] \notin Hashing /\ to \notin Hashing
    BY <1>1, AttemptTypes DEF Attempting, Hashing, passVars
  <2> QED BY <1>2, <2>1 DEF RowInv, TableInv, ProcTypes
<1>8. JobsHaveRows'
  BY <1>1, <1>2, <1>6, <1>7, JobsKept
<1> QED BY <1>1, <1>2, <1>3, <1>5, <1>8, <1>9, SameTableStep

\* A row of the recovery of the chain gets its hash, or the legacy stamp.
Hashed(i, h, c) ==
  /\ DOMAIN rows' = DOMAIN rows /\ IsTable(rows')
  /\ \A k \in DOMAIN rows \ {i} : rows'[k] = rows[k]
  /\ rows'[i].of = rows[i].of /\ rows'[i].st = rows[i].st /\ rows'[i].data = rows[i].data
  /\ rows'[i].hash = h /\ rows'[i].column = c

LEMMA HashedFacts ==
  ASSUME IsTable(rows), NEW i \in DOMAIN rows, NEW h \in Hash,
         \/ rows' = [rows EXCEPT ![i].hash = h]
         \/ rows' = [rows EXCEPT ![i].column = h]
  PROVE  /\ \/ Hashed(i, h, rows[i].column) /\ rows' = [rows EXCEPT ![i].hash = h]
            \/ Hashed(i, rows[i].hash, h) /\ rows' = [rows EXCEPT ![i].column = h]
         /\ rows'[i].att = rows[i].att /\ rows'[i].tries = rows[i].tries
<1>1. \A k \in DOMAIN rows : rows[k] \in RowSet
  BY TableFacts
<1>2. DOMAIN rows' = DOMAIN rows /\ rows' = [k \in DOMAIN rows |-> rows'[k]]
  BY TableFacts
<1>3. \A k \in DOMAIN rows \ {i} : rows'[k] = rows[k]
  BY <1>2
<1>4. CASE rows' = [rows EXCEPT ![i].hash = h]
  <2>1. rows'[i] = [rows[i] EXCEPT !.hash = h]
    BY <1>4
  <2>2. /\ rows'[i] \in RowSet /\ rows'[i].of = rows[i].of /\ rows'[i].st = rows[i].st /\ rows'[i].data = rows[i].data
        /\ rows'[i].hash = h /\ rows'[i].column = rows[i].column
        /\ rows'[i].att = rows[i].att /\ rows'[i].tries = rows[i].tries
    BY <1>1, <2>1 DEF RowSet
  <2>3. \A k \in DOMAIN rows : rows'[k] \in RowSet
    BY <1>1, <1>3, <2>2
  <2> QED BY <1>2, <1>3, <1>4, <2>2, <2>3, TableOf DEF Hashed
<1>5. CASE rows' = [rows EXCEPT ![i].column = h]
  <2>1. rows'[i] = [rows[i] EXCEPT !.column = h]
    BY <1>5
  <2>2. /\ rows'[i] \in RowSet /\ rows'[i].of = rows[i].of /\ rows'[i].st = rows[i].st /\ rows'[i].data = rows[i].data
        /\ rows'[i].hash = rows[i].hash /\ rows'[i].column = h
        /\ rows'[i].att = rows[i].att /\ rows'[i].tries = rows[i].tries
    BY <1>1, <2>1 DEF RowSet
  <2>3. \A k \in DOMAIN rows : rows'[k] \in RowSet
    BY <1>1, <1>3, <2>2
  <2> QED BY <1>2, <1>3, <1>5, <2>2, <2>3, TableOf DEF Hashed
<1> QED BY <1>4, <1>5

LEMMA StampFacts ==
  ASSUME IsTable(rows), NEW i \in DOMAIN rows,
         rows' = [rows EXCEPT ![i].hash = LegacyHash, ![i].att = "disabled", ![i].tries = 0]
  PROVE  Hashed(i, LegacyHash, rows[i].column) /\ rows'[i].att = "disabled" /\ rows'[i].tries = 0
<1>0. LegacyHash \in Hash
  <2> DEFINE L == [of : Calls \cup Legacy \cup {Nobody}, data : {"answer", "history", "legacy"}]
  <2>1. [of |-> Nobody, data |-> "legacy"] \in L
    OBVIOUS
  <2> HIDE DEF L
  <2>2. <<[of |-> Nobody, data |-> "legacy"]>> \in Seq(L)
    BY <2>1
  <2> QED BY <2>2 DEF LegacyHash, Hash, L
<1>1. \A k \in DOMAIN rows : rows[k] \in RowSet
  BY TableFacts
<1>2. DOMAIN rows' = DOMAIN rows /\ rows' = [k \in DOMAIN rows |-> rows'[k]]
  BY TableFacts
<1>3. \A k \in DOMAIN rows \ {i} : rows'[k] = rows[k]
  BY <1>2
<1>4. rows'[i] = [[[rows[i] EXCEPT !.hash = LegacyHash] EXCEPT !.att = "disabled"] EXCEPT !.tries = 0]
  BY <1>2
<1>5. /\ rows'[i] \in RowSet /\ rows'[i].of = rows[i].of /\ rows'[i].st = rows[i].st /\ rows'[i].data = rows[i].data
      /\ rows'[i].hash = LegacyHash /\ rows'[i].column = rows[i].column
      /\ rows'[i].att = "disabled" /\ rows'[i].tries = 0
  <2>1. "disabled" \in Status /\ 0 \in 0..MaxAttempts
    BY ConstantFacts DEF Status
  <2> QED BY <1>0, <1>1, <1>4, <2>1 DEF RowSet
<1>6. \A k \in DOMAIN rows : rows'[k] \in RowSet
  BY <1>1, <1>3, <1>5
<1> QED BY <1>2, <1>3, <1>5, <1>6, TableOf DEF Hashed

LEMMA LockedKeepsTable ==
  ASSUME RowInv, NEW i \in DOMAIN rows,
         \/ \E h, c : Hashed(i, h, c)
         \/ rows[i].st = "pending" /\ \E h : \E data \in {"answer", "history"} : Booking(i, data, h)
  PROVE  SameTable /\ IsTable(rows')
<1>1. ASSUME NEW h, NEW c, Hashed(i, h, c) PROVE SameTable /\ IsTable(rows')
  BY <1>1 DEF Hashed, SameTable, RowInv, TableInv
<1>2. ASSUME NEW h, NEW data \in {"answer", "history"}, rows[i].st = "pending", Booking(i, data, h) PROVE SameTable /\ IsTable(rows')
  BY <1>2 DEF Booking, SameTable, RowInv, TableInv
<1> QED BY <1>1, <1>2

LEMMA CallKeepsRows ==
  ASSUME RowInv, NEW r \in Calls, SubmitOrder(r)
  PROVE  SharedTypes' /\ ProcTypes' /\ ServerTypes' /\ TableInv'
<1> USE ConstantFacts
<1>0. r \in Procs /\ SharedTypes /\ ProcTypes /\ ServerTypes /\ IsTable(rows) /\ DOMAIN pc = Procs
  BY DEF RowInv, SharedTypes, ProcTypes
<1>1. \A s \in Servers : missing[s] \subseteq orphans /\ (missing[s] # {} => pc[s] = "resolve")
  BY DEF RowInv, TableInv
<1>12. UNCHANGED todo /\ (\E to : pc' = [pc EXCEPT ![r] = to]) => \A s \in Servers : pc'[s] \in Hashing => todo'[s] \subseteq FilledRows /\ (pc'[s] # "hash" => todo'[s] # {})
  BY <1>0 DEF RowInv, TableInv
<1>2. CASE PlaceOrder(r)
  <2>1. /\ pc[r] = "new" /\ lock = Nobody /\ lock' = r /\ UNCHANGED <<chain, traces, hash,
                                                                      passVars, attempt, breaker>>
        /\ \E s \in Servers : at' = [at EXCEPT ![r] = s]
        /\ \/ /\ pc' = [pc EXCEPT ![r] = "latest"] /\ rows' = Append(rows, Row(r, "pending", "intent"))
              /\ UNCHANGED orphans
           \/ pc' = [pc EXCEPT ![r] = "unlock_lost"] /\ orphans' = orphans \cup {r} /\ UNCHANGED rows
    BY <1>2 DEF PlaceOrder, Goto
  <2>2. UNCHANGED <<posts, spent, traces, hash, todo, missing, jobs, startup, job, answer, over,
                    breaker>>
    BY <2>1 DEF chain, passVars, attempt
  <2>3. ProcTypes'
    BY <1>0, <2>1, <2>2, ProcStep
  <2>4. CASE pc' = [pc EXCEPT ![r] = "latest"] /\ rows' = Append(rows, Row(r, "pending", "intent")) /\ UNCHANGED orphans
    <3> DEFINE n == Len(rows) + 1
    <3>0. /\ IsTable(rows') /\ n \notin DOMAIN rows /\ DOMAIN rows' = DOMAIN rows \cup {n}
          /\ \A k \in DOMAIN rows : rows'[k] = rows[k]
          /\ rows'[n] = Row(r, "pending", "intent")
      BY <1>0, <2>4, AppendRowFacts
    <3>1. /\ IsTable(rows') /\ n \notin DOMAIN rows /\ DOMAIN rows' = DOMAIN rows \cup {n}
          /\ \A k \in DOMAIN rows : rows'[k] = rows[k]
          /\ rows'[n].of = r /\ rows'[n].data = "intent" /\ rows'[n].st = "pending"
      BY <3>0 DEF Row
    <3> HIDE DEF n
    <3>2. SharedTypes' /\ ServerTypes'
      BY <1>0, <2>1, <2>2, <2>4, <3>1 DEF SharedTypes, ServerTypes
    <3>3. \A t : HasRow(t)' <=> HasRow(t) \/ t = r
      BY <3>1 DEF HasRow
    <3>4. \A q \in Procs \ {r} : pc'[q] = pc[q]
      BY <1>0, <2>4
    <3>5. pc'[r] = "latest" /\ ~HasRow(r) /\ r \notin orphans
      BY <1>0, <2>1, <2>4 DEF RowInv, TableInv
    <3>6. DistinctRows'
      BY <3>1, <3>5 DEF RowInv, TableInv, DistinctRows, HasRow
    <3>7. \A i \in DOMAIN rows' : rows'[i].data = "intent" <=> rows'[i].st = "pending"
      BY <3>1 DEF RowInv, TableInv
    <3>8. \A q \in orphans' : pc'[q] # "new" /\ ~HasRow(q)'
      BY <1>0, <2>4, <3>3, <3>4, <3>5 DEF RowInv, TableInv, SharedTypes
    <3>9. /\ \A q \in Calls : pc'[q] = "new" => ~HasRow(q)'
          /\ \A q \in Calls : pc'[q] \in Booked => HasRow(q)'
      BY <3>3, <3>4, <3>5 DEF RowInv, TableInv
    <3>10. \A s \in Servers : missing'[s] \subseteq orphans' /\ (missing'[s] # {} => pc'[s] = "resolve")
      BY <1>1, <2>2, <2>4, <3>4
    <3>11. /\ \A p \in Procs : pc'[p] \in Attempting => job'[p].row \in DOMAIN rows'
           /\ \A q \in Calls : pc'[q] \in Attempting => rows'[job'[q].row].of = q
           /\ \A s \in Servers : \A j \in jobs'[s] : j.row \in DOMAIN rows'
      BY <2>2, <3>1, <3>4, <3>5 DEF RowInv, TableInv, Attempting
    <3>12. \A s \in Servers : pc'[s] \in Hashing => todo'[s] \subseteq FilledRows' /\ (pc'[s] # "hash" => todo'[s] # {})
      <4>1. FilledRows \subseteq FilledRows'
        BY <3>1 DEF FilledRows
      <4> QED BY <1>12, <2>2, <2>4, <4>1
    <3> QED BY <2>3, <3>2, <3>6, <3>7, <3>8, <3>9, <3>10, <3>11, <3>12 DEF TableInv
  <2>5. CASE pc' = [pc EXCEPT ![r] = "unlock_lost"] /\ orphans' = orphans \cup {r} /\ UNCHANGED rows
    <3>1. SharedTypes' /\ ServerTypes'
      BY <1>0, <2>1, <2>2, <2>5 DEF SharedTypes, ServerTypes
    <3>2. \A t : HasRow(t)' <=> HasRow(t)
      BY <2>5 DEF HasRow
    <3>3. \A q \in Procs \ {r} : pc'[q] = pc[q]
      BY <1>0, <2>5
    <3>4. pc'[r] = "unlock_lost" /\ ~HasRow(r) /\ pc'[r] \notin Booked
      BY <1>0, <2>1, <2>5 DEF RowInv, TableInv, Booked
    <3>5. \A q \in orphans' : pc'[q] # "new" /\ ~HasRow(q)'
      BY <1>0, <2>5, <3>2, <3>3, <3>4 DEF RowInv, TableInv, SharedTypes
    <3>6. /\ \A q \in Calls : pc'[q] = "new" => ~HasRow(q)'
          /\ \A q \in Calls : pc'[q] \in Booked => HasRow(q)'
      BY <3>2, <3>3, <3>4 DEF RowInv, TableInv
    <3>7. \A s \in Servers : missing'[s] \subseteq orphans' /\ (missing'[s] # {} => pc'[s] = "resolve")
      BY <1>1, <2>2, <2>5, <3>3
    <3>8. /\ \A p \in Procs : pc'[p] \in Attempting => job'[p].row \in DOMAIN rows'
          /\ \A q \in Calls : pc'[q] \in Attempting => rows'[job'[q].row].of = q
          /\ \A s \in Servers : \A j \in jobs'[s] : j.row \in DOMAIN rows'
      BY <2>2, <2>5, <3>3, <3>4 DEF RowInv, TableInv, Attempting
    <3>9. DistinctRows' /\ \A i \in DOMAIN rows' : rows'[i].data = "intent" <=> rows'[i].st = "pending"
      BY <2>5 DEF RowInv, TableInv, DistinctRows
    <3>10. TableInv'
      <4>1. \A s \in Servers : pc'[s] \in Hashing => todo'[s] \subseteq FilledRows' /\ (pc'[s] # "hash" => todo'[s] # {})
        BY <1>12, <2>2, <2>5 DEF FilledRows
      <4> QED BY <3>5, <3>6, <3>7, <3>8, <3>9, <4>1 DEF TableInv
    <3> QED BY <2>3, <3>1, <3>10
  <2> QED BY <2>1, <2>4, <2>5
<1>3. CASE ComputeHash(r)
  <2>1. /\ pc[r] = "latest" /\ pc' = [pc EXCEPT ![r] = "finalize"]
        /\ UNCHANGED <<lock, rows, orphans, traces, chain, at, passVars, attempt, breaker>>
        /\ hash' = [hash EXCEPT ![r] = Link(r, "answer")] \/ hash' = [hash EXCEPT ![r] = NoHash]
    BY <1>3 DEF ComputeHash, Goto, tables
  <2>2. UNCHANGED <<posts, spent, todo, missing, jobs, startup, job, answer, over, breaker>>
    BY <2>1 DEF chain, passVars, attempt
  <2>3. Link(r, "answer") \in Hash
    BY HashFacts DEF RowInv, SharedTypes
  <2>4. ProcTypes'
    BY <1>0, <2>1, <2>2, <2>3, ProcStep
  <2>5. SharedTypes' /\ ServerTypes' /\ SameTable
    BY <1>0, <2>1, <2>2 DEF SharedTypes, ServerTypes, SameTable, RowInv, TableInv
  <2>6. JobsHaveRows'
    BY <1>0, <2>1, <2>2, <2>5, JobsKept DEF Attempting
  <2>7. \A s \in Servers : missing'[s] \subseteq orphans /\ (missing'[s] # {} => pc'[s] = "resolve")
    BY <1>0, <1>1, <2>1, <2>2
  <2> QED BY <1>0, <1>12, <2>1, <2>2, <2>4, <2>5, <2>6, <2>7, SameTableStep DEF Booked
<1>4. CASE Finalize(r)
  <2>1. /\ pc[r] = "finalize" /\ pc' = [pc EXCEPT ![r] = "unlock"]
        /\ UNCHANGED <<lock, orphans, chain, at, hash, passVars, attempt, breaker>>
        /\ FinalizeTrade(RowOf(r), "answer", hash[r]) \/ UNCHANGED <<rows, traces>>
    BY <1>4 DEF Finalize, Goto
  <2>2. UNCHANGED <<posts, spent, todo, missing, jobs, startup, job, answer, over, breaker>>
    BY <2>1 DEF chain, passVars, attempt
  <2>3. RowOf(r) \in DOMAIN rows /\ hash[r] \in Hash /\ traces \in Seq(Hash)
    BY <1>0, <2>1, RowOfFacts DEF RowInv, TableInv, Booked, ProcTypes, SharedTypes
  <2>4. SameTable /\ IsTable(rows') /\ traces' \in Seq(Hash)
    <3>1. CASE UNCHANGED <<rows, traces>>
      BY <1>0, <2>3, <3>1 DEF SameTable, RowInv, TableInv
    <3>2. CASE rows[RowOf(r)].st = "pending" /\ Booking(RowOf(r), "answer", hash[r]) /\ InsertTrace(hash[r])
      BY <2>3, <3>2, LockedKeepsTable, InsertFacts
    <3> QED BY <1>0, <2>1, <2>3, <3>1, <3>2, FinalizeFacts
  <2>5. ProcTypes'
    BY <1>0, <2>1, <2>2, ProcStep
  <2>6. SharedTypes' /\ ServerTypes'
    BY <1>0, <2>1, <2>2, <2>4 DEF SharedTypes, ServerTypes, SameTable
  <2>7. JobsHaveRows'
    BY <1>0, <2>1, <2>2, <2>4, JobsKept DEF Attempting
  <2>8. \A s \in Servers : missing'[s] \subseteq orphans /\ (missing'[s] # {} => pc'[s] = "resolve")
    BY <1>0, <1>1, <2>1, <2>2
  <2> QED BY <1>0, <1>12, <2>1, <2>2, <2>4, <2>5, <2>6, <2>7, <2>8, SameTableStep DEF Booked
<1>5. CASE Unlock(r)
  <2>1. /\ \/ pc[r] = "unlock" /\ pc' = [pc EXCEPT ![r] = "attest"]
           \/ pc' = [pc EXCEPT ![r] = "done"]
        /\ lock' \in {lock, Nobody}
        /\ UNCHANGED <<rows, orphans, traces, chain, at, hash, passVars, attempt, breaker>>
    BY <1>5 DEF Unlock, Goto, tables
  <2>2. UNCHANGED <<posts, spent, todo, missing, jobs, startup, job, answer, over, breaker>>
    BY <2>1 DEF chain, passVars, attempt
  <2>3. ProcTypes'
    BY <1>0, <2>1, <2>2, ProcStep
  <2>4. SharedTypes' /\ ServerTypes' /\ SameTable
    BY <1>0, <2>1, <2>2 DEF SharedTypes, ServerTypes, SameTable, RowInv, TableInv
  <2>5. PICK to \in {"attest", "done"} : pc' = [pc EXCEPT ![r] = to] /\ (to = "attest" => pc[r] = "unlock")
    BY <2>1
  <2>6. JobsHaveRows'
    BY <1>0, <2>2, <2>4, <2>5, JobsKept DEF Attempting
  <2>7. \A s \in Servers : missing'[s] \subseteq orphans /\ (missing'[s] # {} => pc'[s] = "resolve")
    BY <1>0, <1>1, <2>1, <2>2
  <2> QED BY <1>0, <1>12, <2>1, <2>2, <2>3, <2>4, <2>5, <2>6, <2>7, SameTableStep DEF Booked
<1>6. CASE Attest(r)
  <2> DEFINE i == RowOf(r)
             j == [NoJob EXCEPT !.row = i, !.hash = hash[r]]
  <2>1. pc[r] = "attest" /\ HasRow(r)
    BY <1>6 DEF Attest, Goto, RowInv, TableInv, Booked
  <2>2. i \in DOMAIN rows /\ rows[i].of = r /\ i \in Nat /\ hash[r] \in Hash
    BY <1>0, <2>1, RowOfFacts, TableFacts DEF ProcTypes
  <2>3. /\ \/ pc' = [pc EXCEPT ![r] = "done"] /\ UNCHANGED job
           \/ pc' = [pc EXCEPT ![r] = "mark"] /\ job' = [job EXCEPT ![r] = j]
        /\ UNCHANGED rows \/ MayWrite(r, i, "waiting_for_gas", 0) \/ MayWrite(r, i, "disabled", 0)
        /\ hash' = [hash EXCEPT ![r] = NoHash]
        /\ UNCHANGED <<lock, orphans, traces, chain, at, passVars, answer, over, breaker>>
    BY <1>6 DEF Attest, Goto
  <2>4. j \in JobSet /\ j.row = i
    BY <2>2 DEF JobSet, NoJob, Status
  <2> HIDE DEF i, j
  <2>5. UNCHANGED <<posts, spent, todo, missing, jobs, startup>>
    BY <2>3 DEF chain, passVars
  <2>6. AttestationStep
    <3>1. {"waiting_for_gas", "disabled"} \subseteq Status /\ 0 \in 0..MaxAttempts
      BY DEF Status
    <3> QED BY <1>0, <2>2, <2>3, <3>1, MayWriteFacts DEF AttestationStep
  <2>7. SameTable /\ IsTable(rows') /\ DOMAIN rows' = DOMAIN rows
    BY <1>0, <2>6, AttestationKeepsTable DEF AttestationStep, AttestationWrite
  <2>8. ProcTypes'
    BY <1>0, <2>3, <2>4, ProcStep
  <2>9. SharedTypes' /\ ServerTypes'
    BY <1>0, <2>3, <2>5, <2>7 DEF SharedTypes, ServerTypes
  <2>10. PICK to \in {"done", "mark"} : /\ pc' = [pc EXCEPT ![r] = to]
                                        /\ to = "mark" => job' = [job EXCEPT ![r] = j]
                                        /\ to = "done" => UNCHANGED job
    BY <2>3
  <2>11. JobsHaveRows'
    <3>1. to \in Attempting => job'[r].row \in DOMAIN rows /\ rows[job'[r].row].of = r
      BY <1>0, <2>2, <2>4, <2>10 DEF Attempting, ProcTypes
    <3> QED BY <1>0, <2>5, <2>7, <2>10, <3>1, JobsKept
  <2>12. \A s \in Servers : missing'[s] \subseteq orphans /\ (missing'[s] # {} => pc'[s] = "resolve")
    BY <1>0, <1>1, <2>3, <2>5
  <2> QED BY <1>0, <1>12, <2>1, <2>3, <2>5, <2>7, <2>8, <2>9, <2>10, <2>11, <2>12,
      SameTableStep DEF Booked
<1>7. CASE AttemptAttestation(r)
  BY <1>0, <1>7, AttemptTypes, AttemptKeepsTable
<1> QED BY <1>2, <1>3, <1>4, <1>5, <1>6, <1>7 DEF SubmitOrder

\* A server's step that adds no row.
LEMMA ServerKeepsTable ==
  ASSUME RowInv, NEW s \in Servers, NEW to, pc' = [pc EXCEPT ![s] = to], to # "new",
         SameTable, IsTable(rows'), traces' \in Seq(Hash), lock' \in Procs \cup {Nobody},
         UNCHANGED <<orphans, chain, at, answer, over, breaker>>,
         UNCHANGED hash \/ \E h \in Hash : hash' = [hash EXCEPT ![s] = h],
         UNCHANGED todo \/ \E T \in SUBSET DOMAIN rows : todo' = [todo EXCEPT ![s] = T],
         UNCHANGED startup \/ \E b \in BOOLEAN : startup' = [startup EXCEPT ![s] = b],
         UNCHANGED missing \/ \E M \in SUBSET orphans : missing' = [missing EXCEPT ![s] = M],
         missing'[s] # {} => to = "resolve",
         UNCHANGED job \/ \E j \in JobSet : job' = [job EXCEPT ![s] = j],
         \/ UNCHANGED jobs
         \/ \E J \in SUBSET JobSet : /\ jobs' = [jobs EXCEPT ![s] = J]
                                     /\ \A j \in J : j.row \in DOMAIN rows,
         to \in Attempting => job'[s].row \in DOMAIN rows,
         to \in Hashing => todo'[s] \subseteq FilledRows /\ (to # "hash" => todo'[s] # {})
  PROVE  SharedTypes' /\ ProcTypes' /\ ServerTypes' /\ TableInv'
<1> USE ConstantFacts
<1>0. s \in Procs /\ SharedTypes /\ ProcTypes /\ ServerTypes /\ DOMAIN rows' = DOMAIN rows /\ s \notin Calls
  BY DEF RowInv, SameTable
<1>1. \A q \in Procs \ {s} : pc'[q] = pc[q] /\ job'[q] = job[q]
  BY <1>0 DEF ProcTypes
<1>2. pc'[s] = to
  BY <1>0 DEF ProcTypes
<1>3. ProcTypes'
  <2>1. DOMAIN pc' = Procs
    BY <1>0 DEF ProcTypes
  <2> QED BY <1>0, <2>1, ProcStep
<1>4. SharedTypes'
  BY <1>0 DEF SharedTypes, chain
<1>5. jobs' \in [Servers -> SUBSET JobSet]
  BY <1>0 DEF ServerTypes
<1>6. todo' \in [Servers -> SUBSET DOMAIN rows']
  BY <1>0 DEF ServerTypes
<1>7. missing' \in [Servers -> SUBSET Calls]
  <2>1. UNCHANGED missing \/ \E M \in SUBSET Calls : missing' = [missing EXCEPT ![s] = M]
    BY <1>0 DEF SharedTypes
  <2> QED BY <1>0, <2>1 DEF ServerTypes
<1>8. startup' \in [Servers -> BOOLEAN] /\ breaker' \in [Servers -> BOOLEAN]
  BY <1>0 DEF ServerTypes
<1>9. ServerTypes'
  BY <1>5, <1>6, <1>7, <1>8 DEF ServerTypes
<1>10. \A q \in Servers : missing'[q] \subseteq orphans /\ (missing'[q] # {} => pc'[q] = "resolve")
  <2>1. \A q \in Servers : missing[q] \subseteq orphans /\ (missing[q] # {} => pc[q] = "resolve")
    BY DEF RowInv, TableInv
  <2>2. \A q \in Servers \ {s} : missing'[q] = missing[q]
    BY <1>0 DEF ServerTypes
  <2>3. missing'[s] \subseteq orphans
    BY <1>0, <2>1 DEF ServerTypes
  <2> QED BY <1>1, <1>2, <2>1, <2>2, <2>3
<1>11. JobsHaveRows'
  <2>1. \A q \in Servers : \A j \in jobs'[q] : j.row \in DOMAIN rows'
    BY <1>0 DEF ServerTypes, RowInv, TableInv
  <2>2. /\ \A p \in Procs : pc'[p] \in Attempting => job'[p].row \in DOMAIN rows'
        /\ \A r \in Calls : pc'[r] \in Attempting => rows'[job'[r].row].of = r
    BY <1>0, <1>1, <1>2 DEF RowInv, TableInv, SameTable
  <2> QED BY <2>1, <2>2 DEF JobsHaveRows
<1>12. \A q \in Servers : pc'[q] \in Hashing => todo'[q] \subseteq FilledRows /\ (pc'[q] # "hash" => todo'[q] # {})
  <2>1. \A q \in Servers \ {s} : todo'[q] = todo[q]
    BY <1>0 DEF ServerTypes
  <2> QED BY <1>0, <1>1, <1>2, <2>1 DEF RowInv, TableInv
<1>13. TableInv'
  BY <1>0, <1>10, <1>11, <1>12, SameTableStep
<1> QED BY <1>3, <1>4, <1>9, <1>13

LEMMA QuietRows == ASSUME RowInv, UNCHANGED rows PROVE SameTable /\ IsTable(rows')
BY DEF RowInv, SharedTypes, TableInv, SameTable

LEMMA ServerKeepsRows ==
  ASSUME RowInv, NEW s \in Servers, ServerStep(s)
  PROVE  SharedTypes' /\ ProcTypes' /\ ServerTypes' /\ TableInv'
<1> USE ConstantFacts
<1>0. /\ s \in Procs /\ SharedTypes /\ ProcTypes /\ ServerTypes /\ IsTable(rows) /\ traces \in Seq(Hash)
      /\ lock \in Procs \cup {Nobody} /\ todo[s] \subseteq DOMAIN rows /\ todo[s] \subseteq Nat
  BY TableFacts DEF RowInv, SharedTypes, ServerTypes
<1>1. missing[s] \subseteq orphans /\ (missing[s] # {} => pc[s] = "resolve")
  BY DEF RowInv, TableInv
<1>2. pc' = pc => pc' = [pc EXCEPT ![s] = pc[s]]
  BY DEF RowInv, ChainInv, Shape
<1>3. pc[s] \in Attempting => job[s].row \in DOMAIN rows
  BY <1>0 DEF RowInv, TableInv
<1>4. todo[s] # {} => First(todo[s]) \in DOMAIN rows
  BY <1>0, FirstFacts
<1>5. todo[s] \ {First(todo[s])} \in SUBSET DOMAIN rows
  BY <1>0
<1>14. pc[s] \in Hashing => todo[s] \subseteq FilledRows /\ (pc[s] # "hash" => todo[s] # {})
  BY DEF RowInv, TableInv
<1>6. CASE LoadKeys(s)
  <2>1. /\ pc[s] = "boot" /\ pc' = [pc EXCEPT ![s] = "lock"]
        /\ UNCHANGED <<rows, traces, lock, orphans, chain, at, answer, over, breaker, hash, todo,
                       startup, missing, job, jobs>>
    BY <1>6 DEF LoadKeys, Goto, tables, passVars, attempt
  <2> QED BY <1>0, <1>1, <2>1, QuietRows, ServerKeepsTable DEF Attempting, Hashing
<1>7. CASE BeginPass(s)
  <2>1. /\ pc' = [pc EXCEPT ![s] = "resolve"] /\ lock' = s
        /\ startup' = [startup EXCEPT ![s] = pc[s] = "lock"]
        /\ todo' = [todo EXCEPT ![s] = PendingRows] /\ missing' = [missing EXCEPT ![s] = orphans]
        /\ UNCHANGED <<rows, traces, orphans, chain, at, answer, over, breaker, hash, job, jobs>>
    BY <1>7 DEF BeginPass, Goto, tables, attempt
  <2>2. PendingRows \in SUBSET DOMAIN rows
    BY DEF PendingRows
  <2>3. (pc[s] = "lock") \in BOOLEAN
    OBVIOUS
  <2> QED BY <1>0, <2>1, <2>2, <2>3, QuietRows, ServerKeepsTable DEF Attempting, Hashing
<1>8. CASE ResolvePending(s)
  <2> DEFINE i == First(todo[s])
  <2>1. /\ pc[s] = "resolve" /\ todo[s] # {} /\ UNCHANGED pc /\ todo' = [todo EXCEPT ![s] = todo[s] \ {First(todo[s])}]
        /\ UNCHANGED <<lock, orphans, chain, at, answer, over, breaker, hash, startup, missing,
                       job, jobs>>
        /\ \/ \E h \in {Link(rows[i].of, "history"), NoHash} : FinalizeTrade(i, "history", h)
           \/ UNCHANGED <<rows, traces>>
    BY <1>8 DEF ResolvePending, attempt
  <2>2. i \in DOMAIN rows
    BY <1>4, <2>1
  <2>3. Link(rows[i].of, "history") \in Hash
    BY <1>0, <2>2, TableFacts, HashFacts DEF RowSet
  <2> HIDE DEF i
  <2>4. SameTable /\ IsTable(rows') /\ traces' \in Seq(Hash)
    <3>1. CASE UNCHANGED <<rows, traces>>
      BY <1>0, <3>1, QuietRows
    <3>2. CASE \E h \in {Link(rows[i].of, "history"), NoHash} : FinalizeTrade(i, "history", h)
      <4>1. PICK h \in Hash : FinalizeTrade(i, "history", h)
        BY <2>3, <3>2
      <4>2. UNCHANGED <<rows, traces>> \/ (rows[i].st = "pending" /\ Booking(i, "history",
                        h) /\ InsertTrace(h))
        BY <1>0, <2>2, <4>1, FinalizeFacts
      <4> QED BY <1>0, <2>2, <3>1, <4>2, LockedKeepsTable, InsertFacts
    <3> QED BY <2>1, <3>1, <3>2
  <2> QED BY <1>0, <1>1, <1>2, <1>5, <2>1, <2>4, ServerKeepsTable DEF Attempting, Hashing
<1>9. CASE InsertOrphan(s)
  <2>1. PICK r \in missing[s] :
          /\ missing' = [missing EXCEPT ![s] = missing[s] \ {r}]
          /\ \/ rows' = Append(rows, Row(r, "fill", "history")) /\ orphans' = orphans \ {r}
             \/ UNCHANGED <<rows, orphans>>
    BY <1>9 DEF InsertOrphan
  <2>2. /\ pc[s] = "resolve" /\ UNCHANGED pc
        /\ UNCHANGED <<lock, traces, chain, at, hash, todo, jobs, startup, job, answer, over,
                       breaker>>
    BY <1>9 DEF InsertOrphan, attempt
  <2>3. CASE UNCHANGED <<rows, orphans>>
    <3>1. missing[s] \ {r} \in SUBSET orphans
      BY <1>1
    <3> QED BY <1>0, <1>1, <1>2, <2>1, <2>2, <2>3, <3>1, QuietRows, ServerKeepsTable
        DEF Attempting, Hashing
  <2>4. CASE rows' = Append(rows, Row(r, "fill", "history")) /\ orphans' = orphans \ {r}
    <3> DEFINE n == Len(rows) + 1
    <3>0. r \in Calls /\ ~HasRow(r) /\ pc[r] # "new" /\ r \in orphans
      BY <1>0, <1>1 DEF RowInv, TableInv, SharedTypes
    <3>1. /\ IsTable(rows') /\ n \notin DOMAIN rows /\ DOMAIN rows' = DOMAIN rows \cup {n}
          /\ \A k \in DOMAIN rows : rows'[k] = rows[k]
          /\ rows'[n] = Row(r, "fill", "history")
      BY <1>0, <2>4, <3>0, AppendRowFacts
    <3>2. rows'[n].of = r /\ rows'[n].data = "history" /\ rows'[n].st = "fill"
      BY <3>1 DEF Row
    <3> HIDE DEF n
    <3>3. SharedTypes'
      BY <1>0, <2>2, <2>4, <3>1 DEF SharedTypes, chain
    <3>4. ProcTypes' /\ ServerTypes'
      <4>1. missing' \in [Servers -> SUBSET Calls]
        BY <1>0, <2>1 DEF ServerTypes
      <4> QED BY <1>0, <2>2, <3>1, <4>1 DEF ProcTypes, ServerTypes
    <3>5. \A t : HasRow(t)' <=> HasRow(t) \/ t = r
      BY <3>1, <3>2 DEF HasRow
    <3>6. DistinctRows'
      BY <3>0, <3>1, <3>2 DEF RowInv, TableInv, DistinctRows, HasRow
    <3>7. \A k \in DOMAIN rows' : rows'[k].data = "intent" <=> rows'[k].st = "pending"
      BY <3>1, <3>2 DEF RowInv, TableInv
    <3>8. \A q \in orphans' : pc'[q] # "new" /\ ~HasRow(q)'
      BY <2>2, <2>4, <3>5 DEF RowInv, TableInv
    <3>9. /\ \A q \in Calls : pc'[q] = "new" => ~HasRow(q)'
          /\ \A q \in Calls : pc'[q] \in Booked => HasRow(q)'
      BY <2>2, <3>0, <3>5 DEF RowInv, TableInv
    <3>10. \A q \in Servers : missing'[q] \subseteq orphans' /\ (missing'[q] # {} => pc'[q] = "resolve")
      <4>1. \A q \in Servers \ {s} : missing[q] = {}
        BY <1>0, <2>2 DEF RowInv, TableInv, ChainInv, Exclusive, Locked
      <4>2. /\ \A q \in Servers \ {s} : missing'[q] = {}
            /\ missing'[s] = missing[s] \ {r}
        BY <1>0, <2>1, <4>1 DEF ServerTypes
      <4> QED BY <1>1, <2>2, <2>4, <4>2
    <3>11. /\ \A p \in Procs : pc'[p] \in Attempting => job'[p].row \in DOMAIN rows'
           /\ \A q \in Calls : pc'[q] \in Attempting => rows'[job'[q].row].of = q
           /\ \A q \in Servers : \A j \in jobs'[q] : j.row \in DOMAIN rows'
      BY <2>2, <3>1 DEF RowInv, TableInv
    <3>12. \A q \in Servers : pc'[q] \in Hashing => todo'[q] \subseteq FilledRows' /\ (pc'[q] # "hash" => todo'[q] # {})
      BY <2>2, <3>1 DEF RowInv, TableInv, FilledRows
    <3> QED BY <3>3, <3>4, <3>6, <3>7, <3>8, <3>9, <3>10, <3>11, <3>12 DEF TableInv
  <2> QED BY <2>1, <2>3, <2>4
<1>10. CASE QueryWithoutHash(s)
  <2>1. /\ pc' = [pc EXCEPT ![s] = "hash"] /\ missing[s] = {} /\ todo' = [todo EXCEPT ![s] = WithoutHash]
        /\ UNCHANGED <<lock, rows, traces, orphans, chain, at, answer, over, breaker, hash,
                       startup, missing, job, jobs>>
    BY <1>10 DEF QueryWithoutHash, Goto, tables, attempt
  <2>2. WithoutHash \in SUBSET DOMAIN rows
    BY DEF WithoutHash, FilledRows
  <2>3. todo'[s] \subseteq FilledRows
    BY <1>0, <2>1 DEF WithoutHash, ServerTypes
  <2> QED BY <1>0, <2>1, <2>2, <2>3, QuietRows, ServerKeepsTable DEF Attempting, Hashing
<1>11. CASE StampLegacy(s)
  <2> DEFINE i == First(todo[s])
  <2>1. /\ pc[s] = "hash" /\ todo[s] # {} /\ UNCHANGED pc /\ todo' = [todo EXCEPT ![s] = todo[s] \ {First(todo[s])}]
        /\ UNCHANGED <<lock, traces, orphans, chain, at, answer, over, breaker, hash, startup,
                       missing, job, jobs>>
        /\ \/ rows' = [rows EXCEPT ![i].hash = LegacyHash, ![i].att = "disabled", ![i].tries = 0]
           \/ UNCHANGED rows
    BY <1>11 DEF StampLegacy, Skip, attempt
  <2>2. i \in DOMAIN rows
    BY <1>4, <2>1
  <2> HIDE DEF i
  <2>3. SameTable /\ IsTable(rows')
    BY <1>0, <2>1, <2>2, StampFacts, LockedKeepsTable, QuietRows
  <2>4. todo'[s] \subseteq FilledRows
    BY <1>0, <1>14, <2>1 DEF ServerTypes, Hashing
  <2> QED BY <1>0, <1>1, <1>2, <1>5, <2>1, <2>3, <2>4, ServerKeepsTable DEF Attempting, Hashing
<1>12. CASE RestoreTrace(s)
  <2> DEFINE t == rows[First(todo[s])]
  <2>1. /\ todo[s] # {} /\ pc[s] = "hash"
        /\ UNCHANGED <<lock, rows, orphans, chain, at, answer, over, breaker, startup, missing,
                       job, jobs>>
        /\ t.data # "none"
    BY <1>12 DEF RestoreTrace, attempt, Goto
  <2>2. t.of \in Calls \cup Legacy /\ t.data \in {"answer", "history"}
    <3>1. First(todo[s]) \in FilledRows
      BY <1>0, <1>14, <2>1, FirstFacts DEF Hashing
    <3>2. t \in RowSet /\ t.st = "fill" /\ t.data # "intent"
      BY <1>0, <3>1, TableFacts DEF FilledRows, RowInv, TableInv
    <3> QED BY <2>1, <3>2 DEF RowSet
  <2>3. CASE /\ hash' = [hash EXCEPT ![s] = Link(t.of, t.data)] /\ InsertTrace(hash'[s])
             /\ pc' = [pc EXCEPT ![s] = "evidence"] /\ UNCHANGED todo
    <3> HIDE DEF t
    <3>2. Link(t.of, t.data) \in Hash
      BY <1>0, <2>2, HashFacts
    <3>3. hash'[s] \in Hash
      BY <1>0, <2>3, <3>2 DEF ProcTypes
    <3>4. traces' \in Seq(Hash)
      BY <1>0, <2>3, <3>3, InsertFacts
    <3> QED BY <1>0, <1>1, <1>14, <2>1, <2>3, <3>2, <3>4, QuietRows, ServerKeepsTable
        DEF Attempting, Hashing
  <2>4. CASE pc' = [pc EXCEPT ![s] = "hash"] /\ todo' = [todo EXCEPT ![s] = todo[s] \ {First(todo[s])}] /\ UNCHANGED <<traces, hash>>
    <3>1. todo'[s] \subseteq FilledRows
      BY <1>0, <1>14, <2>1, <2>4 DEF ServerTypes, Hashing
    <3> QED BY <1>0, <1>1, <1>5, <2>1, <2>4, <3>1, QuietRows, ServerKeepsTable DEF Attempting
  <2> HIDE DEF t
  <2>5. \/ /\ hash' = [hash EXCEPT ![s] = Link(t.of, t.data)] /\ InsertTrace(hash'[s])
           /\ pc' = [pc EXCEPT ![s] = "evidence"] /\ UNCHANGED todo
        \/ /\ pc' = [pc EXCEPT ![s] = "hash"] /\ todo' = [todo EXCEPT ![s] = todo[s] \ {First(todo[s])}]
           /\ UNCHANGED <<traces, hash>>
    BY <1>12 DEF RestoreTrace, Goto, Skip, t
  <2> QED BY <2>3, <2>4, <2>5
<1>13. CASE RestoreEvidence(s)
  <2> DEFINE i == First(todo[s])
  <2>1. /\ pc[s] = "evidence"
        /\ UNCHANGED <<lock, traces, orphans, chain, at, answer, over, breaker, hash, startup,
                       missing, job, jobs>>
        /\ \/ pc' = [pc EXCEPT ![s] = "column"] /\ UNCHANGED todo /\ rows' = [rows EXCEPT ![i].hash = hash[s]]
           \/ pc' = [pc EXCEPT ![s] = "hash"] /\ todo' = [todo EXCEPT ![s] = todo[s] \ {i}] /\ UNCHANGED rows
    BY <1>13 DEF RestoreEvidence, Skip, attempt, Goto
  <2>2. i \in DOMAIN rows /\ hash[s] \in Hash /\ todo[s] # {}
    BY <1>0, <1>4, <1>14, <2>1 DEF Hashing, ProcTypes
  <2>3. todo[s] \ {i} \in SUBSET DOMAIN rows
    BY <1>0
  <2> HIDE DEF i
  <2>4. SameTable /\ IsTable(rows')
    BY <1>0, <2>1, <2>2, HashedFacts, LockedKeepsTable, QuietRows
  <2>5. todo'[s] \subseteq FilledRows
    BY <1>0, <1>14, <2>1 DEF ServerTypes, Hashing
  <2>6. CASE pc' = [pc EXCEPT ![s] = "column"] /\ UNCHANGED todo
    BY <1>0, <1>1, <2>1, <2>2, <2>4, <2>5, <2>6, ServerKeepsTable DEF Attempting, Hashing
  <2>7. CASE pc' = [pc EXCEPT ![s] = "hash"] /\ todo' = [todo EXCEPT ![s] = todo[s] \ {i}]
    BY <1>0, <1>1, <2>1, <2>3, <2>4, <2>5, <2>7, ServerKeepsTable DEF Attempting, Hashing
  <2> QED BY <2>1, <2>6, <2>7
<1>15. CASE RestoreColumn(s)
  <2> DEFINE i == First(todo[s])
             h == IF rows[i].column = NoHash THEN hash[s] ELSE rows[i].column
  <2>1. /\ pc[s] = "column" /\ pc' = [pc EXCEPT ![s] = "hash"] /\ todo' = [todo EXCEPT ![s] = todo[s] \ {First(todo[s])}]
        /\ UNCHANGED <<lock, traces, orphans, chain, at, answer, over, breaker, hash, startup,
                       missing, job, jobs>>
        /\ UNCHANGED rows \/ rows' = [rows EXCEPT ![i].column = h]
    BY <1>15 DEF RestoreColumn, Skip, attempt, Goto
  <2>2. i \in DOMAIN rows /\ h \in Hash
    BY <1>0, <1>4, <1>14, <2>1, TableFacts DEF Hashing, ProcTypes, RowSet
  <2> HIDE DEF i, h
  <2>4. SameTable /\ IsTable(rows')
    BY <1>0, <2>1, <2>2, HashedFacts, LockedKeepsTable, QuietRows
  <2>5. todo'[s] \subseteq FilledRows
    BY <1>0, <1>14, <2>1 DEF ServerTypes, Hashing
  <2> QED BY <1>0, <1>1, <1>5, <2>1, <2>4, <2>5, ServerKeepsTable DEF Attempting, Hashing
<1>16. CASE EndPass(s)
  <2>1. /\ (pc[s] = "hash" /\ pc' = [pc EXCEPT ![s] = "recover"]) \/ pc' = [pc EXCEPT ![s] = "idle"]
        /\ lock' \in {lock, Nobody} /\ hash' = [hash EXCEPT ![s] = NoHash]
        /\ UNCHANGED <<rows, traces, orphans, chain, at, answer, over, breaker, todo, startup,
                       missing, job, jobs>>
    BY <1>16 DEF EndPass, Goto, tables, passVars, attempt
  <2>2. missing'[s] = {}
    BY <1>1, <1>16, <2>1 DEF EndPass, Goto
  <2> QED BY <1>0, <2>1, <2>2, QuietRows, ServerKeepsTable DEF Attempting, Hashing
<1>17. CASE ReadJobs(s)
  <2> DEFINE J == IF breaker[s] THEN {} ELSE {JobOf(i) : i \in Recoverable}
  <2>1. /\ pc[s] = "recover" /\ \E to \in {"idle", "jobs"} : pc' = [pc EXCEPT ![s] = to]
        /\ jobs' = [jobs EXCEPT ![s] = J]
        /\ UNCHANGED <<lock, rows, traces, orphans, chain, at, answer, over, breaker, hash, todo,
                       startup, missing, job>>
    BY <1>17 DEF ReadJobs, Goto, tables, attempt
  <2>2. \A i \in Recoverable : i \in DOMAIN rows /\ i \in Nat /\ rows[i] \in RowSet
    BY <1>0, TableFacts DEF Recoverable, FilledRows
  <2>3. \A i \in Recoverable : JobOf(i) \in JobSet /\ JobOf(i).row \in DOMAIN rows
    BY <2>2 DEF JobOf, JobSet, RowSet
  <2>4. J \in SUBSET JobSet /\ \A j \in J : j.row \in DOMAIN rows
    BY <2>3
  <2> HIDE DEF J
  <2>5. missing'[s] = {}
    BY <1>1, <2>1
  <2> QED BY <1>0, <2>1, <2>4, <2>5, QuietRows, ServerKeepsTable DEF Attempting, Hashing
<1>18. CASE NextJob(s)
  <2>1. PICK j \in jobs[s] :
          /\ jobs' = [jobs EXCEPT ![s] = jobs[s] \ {j}]
          /\ \/ (MayWrite(s, j.row, "success", 0) \/ MayWrite(s, j.row, "error", 0)) /\ UNCHANGED <<pc, job>>
             \/ Goto(s, "jobs", "mark") /\ job' = [job EXCEPT ![s] = j] /\ UNCHANGED rows
    BY <1>18 DEF NextJob
  <2>2. /\ pc[s] = "jobs"
        /\ UNCHANGED <<lock, orphans, traces, chain, at, hash, todo, missing, startup, answer,
                       over, breaker>>
    BY <1>18 DEF NextJob
  <2>3. j \in JobSet /\ j.row \in DOMAIN rows /\ missing'[s] = {}
    BY <1>0, <1>1, <2>2 DEF ServerTypes, RowInv, TableInv
  <2>4. jobs[s] \ {j} \in SUBSET JobSet /\ \A k \in jobs[s] \ {j} : k.row \in DOMAIN rows
    BY <1>0 DEF ServerTypes, RowInv, TableInv
  <2>5. CASE (MayWrite(s, j.row, "success", 0) \/ MayWrite(s, j.row, "error", 0)) /\ UNCHANGED <<pc, job>>
    <3>1. {"success", "error"} \subseteq Status /\ 0 \in 0..MaxAttempts
      BY DEF Status
    <3>2. AttestationStep
      BY <1>0, <2>3, <2>5, <3>1, MayWriteFacts DEF AttestationStep
    <3>3. SameTable /\ IsTable(rows')
      BY <1>0, <3>2, AttestationKeepsTable DEF AttestationStep, AttestationWrite
    <3> QED BY <1>0, <1>2, <2>1, <2>2, <2>3, <2>4, <2>5, <3>3, ServerKeepsTable DEF Attempting,
        Hashing
  <2>6. CASE Goto(s, "jobs", "mark") /\ job' = [job EXCEPT ![s] = j] /\ UNCHANGED rows
    <3>1. job'[s].row \in DOMAIN rows
      BY <1>0, <2>3, <2>6 DEF ProcTypes
    <3>2. pc' = [pc EXCEPT ![s] = "mark"]
      BY <2>6 DEF Goto
    <3> QED BY <1>0, <2>1, <2>2, <2>3, <2>4, <2>6, <3>1, <3>2, QuietRows, ServerKeepsTable
        DEF Attempting, Hashing
  <2> QED BY <2>1, <2>5, <2>6
<1>19. CASE EndRecovery(s)
  <2>1. /\ pc[s] = "jobs" /\ pc' = [pc EXCEPT ![s] = "idle"]
        /\ UNCHANGED <<rows, traces, lock, orphans, chain, at, answer, over, breaker, hash, todo,
                       startup, missing, job, jobs>>
    BY <1>19 DEF EndRecovery, Goto, tables, passVars, attempt
  <2> QED BY <1>0, <1>1, <2>1, QuietRows, ServerKeepsTable DEF Attempting, Hashing
<1>20. CASE AttemptAttestation(s)
  BY <1>0, <1>20, AttemptTypes, AttemptKeepsTable
<1> QED
  BY <1>6, <1>7, <1>8, <1>9, <1>10, <1>11, <1>12, <1>13, <1>15, <1>16, <1>17, <1>18, <1>19,
      <1>20 DEF ServerStep

\* A crash leaves the tables and the chain as they are, and takes the locals of the dead.
Dead(s) == {s} \cup {r \in Calls : at[r] = s /\ pc[r] \notin {"new", "done"}}

LEMMA CrashFacts ==
  ASSUME NEW s \in Servers, Crash(s), ProcTypes, ServerTypes
  PROVE  /\ UNCHANGED <<rows, orphans, traces, posts, spent, at>>
         /\ lock' = lock \/ lock' = Nobody
         /\ s \in Dead(s) /\ Dead(s) \subseteq Procs
         /\ DOMAIN pc' = Procs
         /\ \A p \in Procs \ Dead(s) : /\ pc'[p] = pc[p] /\ hash'[p] = hash[p] /\ job'[p] = job[p]
                                       /\ answer'[p] = answer[p] /\ over'[p] = over[p]
         /\ pc'[s] = "boot" /\ \A p \in Dead(s) \ {s} : p \in Calls /\ pc'[p] = "done"
         /\ todo'[s] = {} /\ missing'[s] = {} /\ jobs'[s] = {} /\ startup'[s] = TRUE
         /\ \A t \in Servers \ {s} : /\ todo'[t] = todo[t] /\ missing'[t] = missing[t]
                                     /\ jobs'[t] = jobs[t] /\ startup'[t] = startup[t]
         /\ \A t \in Servers : t # s => t \notin Dead(s)
         /\ ProcTypes' /\ ServerTypes'
<1> USE ConstantFacts
<1>1. /\ pc' = [p \in Procs |-> IF p = s THEN "boot" ELSE IF p \in Dead(s) THEN "done" ELSE pc[p]]
      /\ lock' = IF lock \in Dead(s) THEN Nobody ELSE lock
      /\ todo' = [todo EXCEPT ![s] = {}] /\ missing' = [missing EXCEPT ![s] = {}]
      /\ jobs' = [jobs EXCEPT ![s] = {}] /\ startup' = [startup EXCEPT ![s] = TRUE]
      /\ hash' = [p \in Procs |-> IF p \in Dead(s) THEN NoHash ELSE hash[p]]
      /\ job' = [p \in Procs |-> IF p \in Dead(s) THEN NoJob ELSE job[p]]
      /\ answer' = [p \in Procs |-> IF p \in Dead(s) THEN "none" ELSE answer[p]]
      /\ over' = [p \in Procs |-> IF p \in Dead(s) THEN FALSE ELSE over[p]]
      /\ breaker' = [breaker EXCEPT ![s] = FALSE]
      /\ UNCHANGED <<rows, orphans, traces, posts, spent, at>>
  BY DEF Crash, Dead, tables, chain
<1>2. s \in Dead(s) /\ Dead(s) \subseteq Procs /\ \A p \in Dead(s) \ {s} : p \in Calls
  BY DEF Dead
<1>3. \A t \in Servers : t # s => t \notin Dead(s)
  BY DEF Dead
<1>4. ProcTypes'
  <2>1. job' \in [Procs -> JobSet] /\ hash' \in [Procs -> Hash]
    BY <1>1 DEF ProcTypes
  <2>2. answer' \in [Procs -> AllAnswers \cup {"none"}] /\ over' \in [Procs -> BOOLEAN]
    BY <1>1 DEF ProcTypes
  <2>3. DOMAIN pc' = Procs
    BY <1>1
  <2> QED BY <2>1, <2>2, <2>3 DEF ProcTypes
<1>5. ServerTypes'
  BY <1>1 DEF ServerTypes
<1>6. \A p \in Procs \ Dead(s) : /\ pc'[p] = pc[p] /\ hash'[p] = hash[p] /\ job'[p] = job[p]
                                 /\ answer'[p] = answer[p] /\ over'[p] = over[p]
  BY <1>1, <1>2
<1>7. DOMAIN pc' = Procs /\ pc'[s] = "boot" /\ \A p \in Dead(s) \ {s} : pc'[p] = "done"
  BY <1>1, <1>2
<1>8. /\ todo'[s] = {} /\ missing'[s] = {} /\ jobs'[s] = {} /\ startup'[s] = TRUE
      /\ \A t \in Servers \ {s} : /\ todo'[t] = todo[t] /\ missing'[t] = missing[t]
                                  /\ jobs'[t] = jobs[t] /\ startup'[t] = startup[t]
  BY <1>1 DEF ServerTypes
<1> QED BY <1>1, <1>2, <1>3, <1>4, <1>5, <1>6, <1>7, <1>8

LEMMA CrashKeepsRows ==
  ASSUME RowInv, NEW s \in Servers, Crash(s)
  PROVE  SharedTypes' /\ ProcTypes' /\ ServerTypes' /\ TableInv'
<1> USE ConstantFacts
<1> DEFINE D == Dead(s)
<1>1. /\ UNCHANGED <<rows, orphans, traces, posts, spent, at>>
      /\ lock' = lock \/ lock' = Nobody
      /\ s \in D /\ D \subseteq Procs
      /\ \A p \in Procs \ D : pc'[p] = pc[p] /\ job'[p] = job[p]
      /\ pc'[s] = "boot" /\ \A p \in D \ {s} : p \in Calls /\ pc'[p] = "done"
      /\ todo'[s] = {} /\ missing'[s] = {} /\ jobs'[s] = {}
      /\ \A t \in Servers \ {s} : todo'[t] = todo[t] /\ missing'[t] = missing[t] /\ jobs'[t] = jobs[t]
      /\ \A t \in Servers : t # s => t \notin D
      /\ ProcTypes' /\ ServerTypes'
  BY CrashFacts, ZenonT(60) DEF RowInv
<1> HIDE DEF D
<1>2. SharedTypes'
  BY <1>1 DEF RowInv, SharedTypes
<1>3. \A t : HasRow(t)' <=> HasRow(t)
  BY <1>1 DEF HasRow
<1>4. DistinctRows' /\ \A i \in DOMAIN rows' : rows'[i].data = "intent" <=> rows'[i].st = "pending"
  <2>1. rows' = rows /\ DistinctRows /\ \A i \in DOMAIN rows : rows[i].data = "intent" <=> rows[i].st = "pending"
    BY <1>1 DEF RowInv, TableInv
  <2> QED BY <2>1 DEF DistinctRows
<1>5. \A r \in Calls : pc'[r] \in {"new"} \cup Booked \cup Attempting => pc'[r] = pc[r] /\ job'[r] = job[r]
  BY <1>1 DEF Booked, Attempting
<1>6. \A r \in orphans' : pc'[r] # "new" /\ ~HasRow(r)'
  <2>1. orphans' = orphans /\ orphans \subseteq Calls /\ \A r \in orphans : pc[r] # "new" /\ ~HasRow(r)
    BY <1>1 DEF RowInv, TableInv, SharedTypes
  <2> QED BY <1>3, <1>5, <2>1
<1>7. /\ \A r \in Calls : pc'[r] = "new" => ~HasRow(r)'
      /\ \A r \in Calls : pc'[r] \in Booked => HasRow(r)'
  BY <1>3, <1>5 DEF RowInv, TableInv
<1>8. \A t \in Servers : missing'[t] \subseteq orphans' /\ (missing'[t] # {} => pc'[t] = "resolve")
  BY <1>1 DEF RowInv, TableInv
<1>9. \A t \in Servers : pc'[t] \in Hashing => todo'[t] \subseteq FilledRows' /\ (pc'[t] # "hash" => todo'[t] # {})
  <2>1. FilledRows' = FilledRows
    BY <1>1 DEF FilledRows
  <2> QED BY <1>1, <2>1 DEF RowInv, TableInv, Hashing
<1>10. /\ \A p \in Procs : pc'[p] \in Attempting => job'[p].row \in DOMAIN rows'
       /\ \A r \in Calls : pc'[r] \in Attempting => rows'[job'[r].row].of = r
       /\ \A t \in Servers : \A j \in jobs'[t] : j.row \in DOMAIN rows'
  BY <1>1, <1>5 DEF RowInv, TableInv, Attempting
<1>11. TableInv'
  BY <1>4, <1>6, <1>7, <1>8, <1>9, <1>10 DEF TableInv
<1> QED BY <1>1, <1>2, <1>11

\* The legacy fills are there, one row each.
LEMMA LegacyRows ==
  ASSUME Init
  PROVE  /\ IsTable(rows) /\ DistinctRows
         /\ \A i \in DOMAIN rows : /\ rows[i].of \in Legacy /\ rows[i].st = "fill" /\ rows[i].data = "none"
                                   /\ rows[i].hash = NoHash /\ rows[i].column = NoHash
                                   /\ rows[i].att = "disabled"
<1>1. PICK q \in SetToSeqs(Legacy) : rows = [i \in DOMAIN q |-> [Row(q[i], "fill", "none") EXCEPT !.att = "disabled"]]
  BY DEF Init
<1> DEFINE n == Cardinality(Legacy)
<1>2. n \in Nat
  BY FS_CardinalityType, EvidenceAssumption
<1>3. q \in [1..n -> Legacy] /\ \A i, j \in 1..n : q[i] = q[j] => i = j
  BY <1>1 DEF SetToSeqs
<1> HIDE DEF n
<1>4. DOMAIN rows = 1..n /\ rows = [i \in 1..n |-> rows[i]]
  BY <1>1, <1>3
<1>5. "disabled" \in Status /\ 0 \in 0..MaxAttempts /\ NoHash \in Hash
  BY ConstantFacts DEF Status
<1>6. ASSUME NEW i \in 1..n
      PROVE  /\ rows[i] \in RowSet /\ rows[i].of = q[i] /\ rows[i].st = "fill" /\ rows[i].data = "none"
             /\ rows[i].hash = NoHash /\ rows[i].column = NoHash /\ rows[i].att = "disabled"
  <2>1. rows[i] = [Row(q[i], "fill", "none") EXCEPT !.att = "disabled"] /\ q[i] \in Legacy
    BY <1>1, <1>3
  <2> QED BY <1>5, <2>1 DEF Row, RowSet
<1>7. rows \in [1..n -> RowSet]
  BY <1>4, <1>6, Zenon
<1>8. IsTable(rows)
  BY <1>2, <1>7, SeqDef DEF IsTable
<1> QED BY <1>3, <1>4, <1>6, <1>8 DEF DistinctRows

LEMMA RowInit == Init => RowInv
<1> SUFFICES ASSUME Init PROVE RowInv
  OBVIOUS
<1> USE ConstantFacts
<1>1. SharedTypes
  <2>1. traces \in Seq(Hash) /\ << >> \in Seq(Hash)
    BY EmptySeq DEF Init
  <2>2. at \in [Calls -> Servers]
    <3>1. (CHOOSE s \in Servers : TRUE) \in Servers
      BY EvidenceAssumption
    <3> QED BY <3>1 DEF Init
  <2> QED BY <2>1, <2>2, LegacyRows DEF Init, SharedTypes
<1>2. ProcTypes
  BY DEF Init, ProcTypes
<1>3. ServerTypes
  BY DEF Init, ServerTypes
<1>4. TableInv
  <2>1. \A p \in Procs : pc[p] \in {"boot", "new"} /\ (p \in Calls => pc[p] = "new")
    BY DEF Init
  <2>2. \A r \in Calls : ~HasRow(r)
    BY LegacyRows DEF HasRow
  <2>3. orphans = {} /\ \A s \in Servers : missing[s] = {} /\ jobs[s] = {}
    BY DEF Init
  <2> QED BY <2>1, <2>2, <2>3, LegacyRows DEF TableInv, Booked, Attempting, Hashing
<1> QED BY <1>1, <1>2, <1>3, <1>4, ChainInit DEF RowInv

LEMMA RowStep == RowInv /\ [Next]_vars => RowInv'
<1> SUFFICES ASSUME RowInv, [Next]_vars PROVE RowInv'
  OBVIOUS
<1>1. ChainInv'
  BY ChainStep DEF RowInv
<1>2. CASE UNCHANGED vars
  <2>1. UNCHANGED <<lock, rows, orphans, traces, posts, spent, pc, at, hash, todo, missing, jobs,
                    startup, job, answer, over, breaker>>
    BY <1>2 DEF vars, tables, chain, passVars, attempt
  <2>2. SharedTypes' /\ ProcTypes' /\ ServerTypes'
    BY <2>1 DEF RowInv, SharedTypes, ProcTypes, ServerTypes
  <2>3. TableInv'
    BY <2>1 DEF RowInv, TableInv, DistinctRows, HasRow, FilledRows
  <2> QED BY <1>1, <2>2, <2>3 DEF RowInv
<1>3. CASE \E r \in Calls : SubmitOrder(r)
  BY <1>1, <1>3, CallKeepsRows DEF RowInv
<1>4. CASE \E s \in Servers : ServerStep(s) \/ Crash(s)
  BY <1>1, <1>4, ServerKeepsRows, CrashKeepsRows DEF RowInv
<1> QED BY <1>2, <1>3, <1>4 DEF Next

\* Rows, chain, locals and recovery jobs keep their types, whatever is lost, cut short or restarted.
THEOREM Typed == Spec => []TypeOK
<1>1. RowInv => TypeOK
  BY TypeParts DEF RowInv
<1> QED BY <1>1, RowInit, RowStep, PTL DEF Spec

-----------------------------------------------------------------------------
(* The hashes rows show. *)

Traced(i) ==
  /\ rows[i].st = "pending" => rows[i].hash = NoHash
  /\ rows[i].hash = NoHash => rows[i].column = NoHash
  /\ rows[i].hash \notin {NoHash, LegacyHash} =>
       /\ rows[i].hash \in Range(traces)
       /\ Last(rows[i].hash) = [of |-> rows[i].of, data |-> rows[i].data]
       /\ rows[i].column \in {NoHash, rows[i].hash}

\* A call is about to book its own trade with its hash.
HashesOwnTrade(r) ==
  pc[r] = "finalize" /\ hash[r] # NoHash => Last(hash[r]) = [of |-> r, data |-> "answer"]

\* The recovery of the chain has still to look at rows without a hash; the hash it has computed is
\* the first one's, is in the chain, and after UpdateEvidence in the row as well.
RestoresFirst(s) ==
  /\ pc[s] \in {"hash", "evidence"} => \A i \in todo[s] : rows[i].hash = NoHash
  /\ pc[s] \in {"evidence", "column"} =>
       /\ hash[s] # NoHash /\ hash[s] \in Range(traces)
       /\ Last(hash[s]) = [of |-> rows[First(todo[s])].of, data |-> rows[First(todo[s])].data]
  /\ pc[s] = "column" =>
       /\ \A i \in todo[s] \ {First(todo[s])} : rows[i].hash = NoHash
       /\ rows[First(todo[s])].hash = hash[s]

HashInv ==
  /\ \A i \in DOMAIN rows : Traced(i)
  /\ \A r \in Calls : HashesOwnTrade(r)
  /\ \A s \in Servers : RestoresFirst(s)

\* Nothing that carries a hash is written.
SameHashes ==
  /\ UNCHANGED traces /\ DOMAIN rows' = DOMAIN rows
  /\ \A k \in DOMAIN rows : SameFill(rows'[k], rows[k])

\* Nobody but p works under the lock.
Alone(p) == \A q \in Procs \ {p} : pc[q] \notin Locked

LEMMA AloneFacts ==
  ASSUME ChainInv, NEW p \in Procs, lock = Nobody \/ pc[p] \in Locked
  PROVE  Alone(p)
BY ConstantFacts DEF ChainInv, Exclusive, Alone

LEMMA TracedStep ==
  ASSUME RowInv, HashInv, SameHashes
  PROVE  \A i \in DOMAIN rows' : Traced(i)'
<1>1. \A i \in DOMAIN rows : /\ Traced(i) /\ rows'[i].of = rows[i].of /\ rows'[i].st = rows[i].st
                             /\ rows'[i].data = rows[i].data /\ rows'[i].hash = rows[i].hash
                             /\ rows'[i].column = rows[i].column
  BY DEF HashInv, SameHashes, SameFill
<1> QED BY <1>1 DEF Traced, SameHashes

LEMMA HashStepOf ==
  ASSUME RowInv, HashInv, NEW p \in Procs, NEW to, pc' = [pc EXCEPT ![p] = to],
         UNCHANGED hash \/ \E h : hash' = [hash EXCEPT ![p] = h],
         UNCHANGED todo \/ \E T : todo' = [todo EXCEPT ![p] = T],
         SameHashes \/ Alone(p), \A i \in DOMAIN rows' : Traced(i)',
         p \in Calls => HashesOwnTrade(p)', p \in Servers => RestoresFirst(p)'
  PROVE  HashInv'
<1>1. /\ \A q \in Procs \ {p} : pc'[q] = pc[q] /\ hash'[q] = hash[q]
      /\ \A q \in Servers \ {p} : todo'[q] = todo[q]
  BY DEF RowInv, ProcTypes, ServerTypes
<1>2. ASSUME NEW r \in Calls, r # p PROVE HashesOwnTrade(r)'
  BY <1>1, <1>2, ConstantFacts DEF HashInv, HashesOwnTrade
<1>3. ASSUME NEW s \in Servers, s # p PROVE RestoresFirst(s)'
  <2>1. s \in Procs /\ pc'[s] = pc[s] /\ hash'[s] = hash[s] /\ todo'[s] = todo[s] /\ RestoresFirst(s)
    BY <1>1, <1>3, ConstantFacts DEF HashInv
  <2>2. CASE pc[s] \notin {"hash", "evidence", "column"}
    BY <2>1, <2>2 DEF RestoresFirst
  <2>3. CASE SameHashes /\ pc[s] \in {"hash", "evidence", "column"}
    <3>1. todo[s] \subseteq DOMAIN rows /\ (pc[s] # "hash" => First(todo[s]) \in DOMAIN rows)
      <4>1. todo[s] \subseteq DOMAIN rows /\ DOMAIN rows \subseteq Nat /\ (pc[s] # "hash" => todo[s] # {})
        BY <2>3, TableFacts DEF RowInv, ServerTypes, SharedTypes, TableInv, Hashing
      <4> QED BY <4>1, FirstFacts
    <3>2. \A k \in DOMAIN rows : rows'[k].of = rows[k].of /\ rows'[k].data = rows[k].data /\ rows'[k].hash = rows[k].hash
      BY <2>3 DEF SameHashes, SameFill
    <3>3. traces' = traces
      BY <2>3 DEF SameHashes
    <3> QED BY <2>1, <3>1, <3>2, <3>3 DEF RestoresFirst
  <2>4. CASE Alone(p)
    BY <1>3, <2>1, <2>2, <2>4 DEF Alone, Locked
  <2> QED BY <2>2, <2>3, <2>4
<1> QED BY <1>2, <1>3 DEF HashInv

LEMMA AttestationKeepsHashes ==
  ASSUME RowInv, AttestationStep, UNCHANGED traces
  PROVE  SameHashes
BY DEF AttestationStep, AttestationWrite, SameHashes, SameFill

LEMMA QuietHashes == ASSUME UNCHANGED <<rows, traces>> PROVE SameHashes
BY DEF SameHashes, SameFill

\* A booking shows the hash that was computed for it, and its trace is in the chain.
LEMMA BookingIsTraced ==
  ASSUME RowInv, HashInv, NEW i \in DOMAIN rows, NEW data \in {"answer", "history"}, NEW h \in Hash,
         h # NoHash => Last(h) = [of |-> rows[i].of, data |-> data],
         rows[i].st = "pending", Booking(i, data, h), InsertTrace(h)
  PROVE  \A k \in DOMAIN rows' : Traced(k)'
<1>1. Range(traces) \subseteq Range(traces') /\ (h # NoHash => h \in Range(traces'))
  BY InsertFacts DEF RowInv, SharedTypes
<1>2. Traced(i)'
  BY <1>1 DEF Booking, Traced
<1>3. ASSUME NEW k \in DOMAIN rows, k # i PROVE Traced(k)'
  BY <1>1, <1>3 DEF Booking, Traced, HashInv
<1> QED BY <1>2, <1>3 DEF Booking

\* A new row shows no hash.
LEMMA NewRowIsTraced ==
  ASSUME RowInv, HashInv, NEW r \in Calls, NEW st \in {"pending", "fill"}, NEW data \in {"intent", "history"},
         rows' = Append(rows, Row(r, st, data)), UNCHANGED traces
  PROVE  \A k \in DOMAIN rows' : Traced(k)'
<1> DEFINE n == Len(rows) + 1
<1>1. /\ DOMAIN rows' = DOMAIN rows \cup {n}
      /\ \A k \in DOMAIN rows : rows'[k] = rows[k]
      /\ rows'[n] = Row(r, st, data)
  BY AppendRowFacts DEF RowInv, SharedTypes
<1>2. rows'[n].hash = NoHash /\ rows'[n].column = NoHash
  BY <1>1 DEF Row
<1> HIDE DEF n
<1> QED BY <1>1, <1>2 DEF Traced, HashInv

LEMMA AttemptKeepsHashes ==
  ASSUME RowInv, HashInv, NEW p \in Procs, AttemptAttestation(p)
  PROVE  HashInv'
<1>1. /\ UNCHANGED <<hash, todo>> /\ SameHashes
      /\ \E to \in {"done", "idle", "jobs", "post", "settle", "confirm"} : pc' = [pc EXCEPT ![p] = to]
  BY AttemptTypes, AttestationKeepsHashes DEF passVars
<1>2. PICK to \in {"done", "idle", "jobs", "post", "settle", "confirm"} : pc' = [pc EXCEPT ![p] = to]
  BY <1>1
<1>3. pc'[p] = to
  BY <1>2 DEF RowInv, ProcTypes
<1>4. HashesOwnTrade(p)' /\ RestoresFirst(p)'
  BY <1>3 DEF HashesOwnTrade, RestoresFirst
<1> QED BY <1>1, <1>2, <1>4, HashStepOf, TracedStep

LEMMA CallKeepsHashes ==
  ASSUME RowInv, HashInv, NEW r \in Calls, SubmitOrder(r)
  PROVE  HashInv'
<1>0. r \in Procs /\ r \notin Servers /\ ChainInv /\ DOMAIN pc = Procs /\ DOMAIN hash = Procs
  BY ConstantFacts DEF RowInv, ProcTypes
<1>1. CASE PlaceOrder(r)
  <2>1. /\ pc' = [pc EXCEPT ![r] = "latest"] \/ pc' = [pc EXCEPT ![r] = "unlock_lost"]
        /\ UNCHANGED <<hash, todo, traces>> /\ lock = Nobody
        /\ rows' = Append(rows, Row(r, "pending", "intent")) \/ UNCHANGED rows
    BY <1>1 DEF PlaceOrder, Goto, passVars
  <2>2. \A k \in DOMAIN rows' : Traced(k)'
    BY <2>1, NewRowIsTraced, TracedStep, QuietHashes
  <2>3. Alone(r)
    BY <1>0, <2>1, AloneFacts
  <2>4. HashesOwnTrade(r)'
    BY <1>0, <2>1 DEF HashesOwnTrade
  <2> QED BY <1>0, <2>1, <2>2, <2>3, <2>4, HashStepOf
<1>2. CASE ComputeHash(r)
  <2>1. /\ pc' = [pc EXCEPT ![r] = "finalize"] /\ UNCHANGED <<rows, traces, todo>>
        /\ hash' = [hash EXCEPT ![r] = Link(r, "answer")] \/ hash' = [hash EXCEPT ![r] = NoHash]
    BY <1>2 DEF ComputeHash, Goto, tables, passVars
  <2>2. Last(Link(r, "answer")) = [of |-> r, data |-> "answer"]
    BY HashFacts DEF RowInv, SharedTypes
  <2>3. HashesOwnTrade(r)'
    BY <1>0, <2>1, <2>2 DEF HashesOwnTrade
  <2>4. SameHashes
    BY <2>1, QuietHashes
  <2> QED BY <1>0, <2>1, <2>3, <2>4, HashStepOf, TracedStep
<1>3. CASE Finalize(r)
  <2>1. /\ pc[r] = "finalize" /\ pc' = [pc EXCEPT ![r] = "unlock"] /\ UNCHANGED <<hash, todo>>
        /\ FinalizeTrade(RowOf(r), "answer", hash[r]) \/ UNCHANGED <<rows, traces>>
    BY <1>3 DEF Finalize, Goto, passVars
  <2>2. RowOf(r) \in DOMAIN rows /\ rows[RowOf(r)].of = r /\ hash[r] \in Hash /\ IsTable(rows)
    BY <1>0, <2>1, RowOfFacts DEF RowInv, TableInv, Booked, ProcTypes, SharedTypes
  <2>3. hash[r] # NoHash => Last(hash[r]) = [of |-> r, data |-> "answer"]
    BY <2>1 DEF HashInv, HashesOwnTrade
  <2>4. \A k \in DOMAIN rows' : Traced(k)'
    <3>1. CASE UNCHANGED <<rows, traces>>
      BY <3>1, TracedStep, QuietHashes
    <3>2. CASE rows[RowOf(r)].st = "pending" /\ Booking(RowOf(r), "answer", hash[r]) /\ InsertTrace(hash[r])
      BY <2>2, <2>3, <3>2, BookingIsTraced
    <3> QED BY <2>1, <2>2, <3>1, <3>2, FinalizeFacts
  <2>5. Alone(r) /\ HashesOwnTrade(r)'
    BY <1>0, <2>1, AloneFacts DEF Locked, HashesOwnTrade
  <2> QED BY <1>0, <2>1, <2>4, <2>5, HashStepOf
<1>4. CASE Unlock(r)
  <2>1. /\ pc' = [pc EXCEPT ![r] = "attest"] \/ pc' = [pc EXCEPT ![r] = "done"]
        /\ UNCHANGED <<rows, traces, hash, todo>>
    BY <1>4 DEF Unlock, Goto, tables, passVars
  <2>2. HashesOwnTrade(r)' /\ SameHashes
    BY <1>0, <2>1, QuietHashes DEF HashesOwnTrade
  <2> QED BY <1>0, <2>1, <2>2, HashStepOf, TracedStep
<1>5. CASE Attest(r)
  <2>1. /\ pc' = [pc EXCEPT ![r] = "done"] \/ pc' = [pc EXCEPT ![r] = "mark"]
        /\ hash' = [hash EXCEPT ![r] = NoHash] /\ UNCHANGED <<traces, todo>>
        /\ UNCHANGED rows \/ MayWrite(r, RowOf(r), "waiting_for_gas", 0) \/ MayWrite(r, RowOf(r), "disabled", 0)
        /\ pc[r] = "attest"
    BY <1>5 DEF Attest, Goto, passVars
  <2>2. RowOf(r) \in DOMAIN rows /\ IsTable(rows)
    BY <2>1, RowOfFacts DEF RowInv, TableInv, Booked, SharedTypes
  <2>3. {"waiting_for_gas", "disabled"} \subseteq Status /\ 0 \in 0..MaxAttempts
    BY ConstantFacts DEF Status
  <2>4. AttestationStep
    BY <2>1, <2>2, <2>3, MayWriteFacts DEF AttestationStep
  <2>5. SameHashes
    BY <2>1, <2>4, AttestationKeepsHashes
  <2>6. HashesOwnTrade(r)'
    BY <1>0, <2>1 DEF HashesOwnTrade
  <2> QED BY <1>0, <2>1, <2>5, <2>6, HashStepOf, TracedStep
<1>6. CASE AttemptAttestation(r)
  BY <1>0, <1>6, AttemptKeepsHashes
<1> QED BY <1>1, <1>2, <1>3, <1>4, <1>5, <1>6 DEF SubmitOrder

\* The recovery gives a row the hash it computed, or the legacy stamp, or the column of its hash.
LEMMA HashedIsTraced ==
  ASSUME RowInv, HashInv, NEW i \in DOMAIN rows, NEW h, NEW c, Hashed(i, h, c), UNCHANGED traces,
         rows[i].st = "fill", h # NoHash, c \in {NoHash, h},
         h # LegacyHash => h \in Range(traces) /\ Last(h) = [of |-> rows[i].of, data |-> rows[i].data]
  PROVE  \A k \in DOMAIN rows' : Traced(k)'
<1>1. Traced(i)'
  BY DEF Hashed, Traced
<1>2. ASSUME NEW k \in DOMAIN rows, k # i PROVE Traced(k)'
  BY <1>2 DEF Hashed, Traced, HashInv
<1> QED BY <1>1, <1>2 DEF Hashed

LEMMA ServerKeepsHashes ==
  ASSUME RowInv, HashInv, NEW s \in Servers, ServerStep(s)
  PROVE  HashInv'
<1>0. /\ s \in Procs /\ s \notin Calls /\ ChainInv /\ IsTable(rows) /\ traces \in Seq(Hash)
      /\ todo[s] \subseteq DOMAIN rows /\ todo[s] \subseteq Nat
      /\ s \in DOMAIN pc /\ s \in DOMAIN hash /\ s \in DOMAIN todo /\ hash[s] \in Hash
  BY TableFacts, ConstantFacts DEF RowInv, SharedTypes, ServerTypes, ProcTypes
<1>1. pc' = pc => pc' = [pc EXCEPT ![s] = pc[s]]
  BY DEF RowInv, ChainInv, Shape
<1>2. todo[s] # {} => First(todo[s]) \in DOMAIN rows /\ First(todo[s]) \in todo[s]
  BY <1>0, FirstFacts
<1>3. pc[s] \in Hashing => todo[s] \subseteq FilledRows /\ (pc[s] # "hash" => todo[s] # {})
  BY DEF RowInv, TableInv
<1>4. pc[s] \in Locked => Alone(s)
  BY <1>0, AloneFacts
<1>5. RestoresFirst(s)
  BY DEF HashInv
<1>6. CASE LoadKeys(s)
  <2>1. UNCHANGED <<rows, traces, hash, todo>> /\ pc' = [pc EXCEPT ![s] = "lock"]
    BY <1>6 DEF LoadKeys, Goto, tables, passVars
  <2>2. RestoresFirst(s)' /\ SameHashes
    BY <1>0, <2>1, QuietHashes DEF RestoresFirst
  <2> QED BY <1>0, <2>1, <2>2, HashStepOf, TracedStep
<1>7. CASE BeginPass(s)
  <2>1. /\ UNCHANGED <<rows, traces, hash>> /\ pc' = [pc EXCEPT ![s] = "resolve"]
        /\ todo' = [todo EXCEPT ![s] = PendingRows]
    BY <1>7 DEF BeginPass, Goto, tables
  <2>2. RestoresFirst(s)' /\ SameHashes
    BY <1>0, <2>1, QuietHashes DEF RestoresFirst
  <2> QED BY <1>0, <2>1, <2>2, HashStepOf, TracedStep
<1>8. CASE ResolvePending(s)
  <2> DEFINE i == First(todo[s])
  <2>1. /\ pc[s] = "resolve" /\ todo[s] # {} /\ UNCHANGED <<pc, hash>>
        /\ todo' = [todo EXCEPT ![s] = todo[s] \ {i}]
        /\ \/ \E h \in {Link(rows[i].of, "history"), NoHash} : FinalizeTrade(i, "history", h)
           \/ UNCHANGED <<rows, traces>>
    BY <1>8 DEF ResolvePending
  <2>2. i \in DOMAIN rows
    BY <1>2, <2>1
  <2> HIDE DEF i
  <2>3. \A k \in DOMAIN rows' : Traced(k)'
    <3>1. CASE UNCHANGED <<rows, traces>>
      BY <3>1, TracedStep, QuietHashes
    <3>2. CASE \E h \in {Link(rows[i].of, "history"), NoHash} : FinalizeTrade(i, "history", h)
      <4>1. rows[i].of \in Calls \cup Legacy
        BY <1>0, <2>2, TableFacts DEF RowSet
      <4>2. PICK h \in Hash : /\ FinalizeTrade(i, "history", h)
                              /\ h # NoHash => Last(h) = [of |-> rows[i].of, data |-> "history"]
        BY <1>0, <3>2, <4>1, HashFacts
      <4>3. UNCHANGED <<rows, traces>> \/ (rows[i].st = "pending" /\ Booking(i, "history",
                        h) /\ InsertTrace(h))
        BY <1>0, <2>2, <4>2, FinalizeFacts
      <4> QED BY <2>2, <3>1, <4>2, <4>3, BookingIsTraced
    <3> QED BY <2>1, <3>1, <3>2
  <2>4. Alone(s) /\ RestoresFirst(s)'
    BY <1>4, <2>1 DEF Locked, RestoresFirst
  <2> QED BY <1>0, <1>1, <2>1, <2>3, <2>4, HashStepOf
<1>9. CASE InsertOrphan(s)
  <2>1. /\ pc[s] = "resolve" /\ UNCHANGED <<pc, hash, todo, traces>>
        /\ \E r \in missing[s] : rows' = Append(rows, Row(r, "fill", "history")) \/ UNCHANGED rows
    BY <1>9 DEF InsertOrphan
  <2>2. missing[s] \subseteq Calls
    BY DEF RowInv, ServerTypes
  <2>3. \A k \in DOMAIN rows' : Traced(k)'
    BY <2>1, <2>2, NewRowIsTraced, TracedStep, QuietHashes
  <2>4. Alone(s) /\ RestoresFirst(s)'
    BY <1>4, <2>1 DEF Locked, RestoresFirst
  <2> QED BY <1>0, <1>1, <2>1, <2>3, <2>4, HashStepOf
<1>10. CASE QueryWithoutHash(s)
  <2>1. /\ UNCHANGED <<rows, traces, hash>> /\ pc' = [pc EXCEPT ![s] = "hash"]
        /\ todo' = [todo EXCEPT ![s] = WithoutHash]
    BY <1>10 DEF QueryWithoutHash, Goto, tables
  <2>2. RestoresFirst(s)' /\ SameHashes
    BY <1>0, <2>1, QuietHashes DEF RestoresFirst, WithoutHash
  <2> QED BY <1>0, <2>1, <2>2, HashStepOf, TracedStep
<1>11. CASE StampLegacy(s)
  <2> DEFINE i == First(todo[s])
  <2>1. /\ pc[s] = "hash" /\ todo[s] # {} /\ UNCHANGED <<pc, hash, traces>>
        /\ todo' = [todo EXCEPT ![s] = todo[s] \ {i}]
        /\ \/ rows' = [rows EXCEPT ![i].hash = LegacyHash, ![i].att = "disabled", ![i].tries = 0]
           \/ UNCHANGED rows
    BY <1>11 DEF StampLegacy, Skip
  <2>2. i \in DOMAIN rows /\ i \in todo[s] /\ rows[i].st = "fill" /\ rows[i].hash = NoHash
    BY <1>2, <1>3, <1>5, <2>1 DEF Hashing, FilledRows, RestoresFirst
  <2>3. rows[i].column = NoHash
    BY <2>2 DEF HashInv, Traced
  <2> HIDE DEF i
  <2>4. UNCHANGED rows \/ Hashed(i, LegacyHash, NoHash)
    BY <1>0, <2>1, <2>2, <2>3, StampFacts
  <2>5. LegacyHash # NoHash
    BY DEF LegacyHash, NoHash
  <2>6. \A k \in DOMAIN rows' : Traced(k)'
    BY <2>1, <2>2, <2>4, <2>5, HashedIsTraced, TracedStep, QuietHashes
  <2>7. todo'[s] = todo[s] \ {i} /\ \A k \in todo[s] \ {i} : rows'[k] = rows[k]
    BY <1>0, <2>1, <2>4 DEF Hashed
  <2>8. Alone(s) /\ RestoresFirst(s)'
    BY <1>4, <1>5, <2>1, <2>7 DEF Locked, RestoresFirst
  <2> QED BY <1>0, <1>1, <2>1, <2>6, <2>8, HashStepOf
<1>12. CASE RestoreTrace(s)
  <2> DEFINE i == First(todo[s])
  <2>1. /\ pc[s] = "hash" /\ todo[s] # {} /\ UNCHANGED rows /\ rows[i].data # "none"
        /\ \/ /\ hash' = [hash EXCEPT ![s] = Link(rows[i].of, rows[i].data)] /\ InsertTrace(hash'[s])
              /\ pc' = [pc EXCEPT ![s] = "evidence"] /\ UNCHANGED todo
           \/ /\ pc' = [pc EXCEPT ![s] = "hash"] /\ todo' = [todo EXCEPT ![s] = todo[s] \ {i}]
              /\ UNCHANGED <<traces, hash>>
    BY <1>12 DEF RestoreTrace, Goto, Skip
  <2>2. i \in DOMAIN rows /\ rows[i].of \in Calls \cup Legacy /\ rows[i].data \in {"answer", "history"}
    <3>1. i \in FilledRows
      BY <1>2, <1>3, <2>1 DEF Hashing
    <3>2. rows[i] \in RowSet /\ rows[i].data # "intent" /\ i \in DOMAIN rows
      BY <1>0, <3>1, TableFacts DEF FilledRows, RowInv, TableInv
    <3> QED BY <2>1, <3>2 DEF RowSet
  <2>3. Alone(s)
    BY <1>4, <2>1 DEF Locked
  <2>4. CASE /\ hash' = [hash EXCEPT ![s] = Link(rows[i].of, rows[i].data)] /\ InsertTrace(hash'[s])
             /\ pc' = [pc EXCEPT ![s] = "evidence"] /\ UNCHANGED todo
    <3>1. hash'[s] = Link(rows[i].of, rows[i].data) /\ pc'[s] = "evidence"
      BY <1>0, <2>4
    <3>2. hash'[s] \in Hash /\ hash'[s] # NoHash /\ Last(hash'[s]) = [of |-> rows[i].of, data |-> rows[i].data]
      BY <1>0, <2>2, <3>1, HashFacts
    <3>3. Range(traces) \subseteq Range(traces') /\ hash'[s] \in Range(traces')
      BY <1>0, <2>4, <3>2, InsertFacts
    <3>4. \A k \in DOMAIN rows' : Traced(k)'
      BY <2>1, <3>3 DEF HashInv, Traced
    <3>5. RestoresFirst(s)'
      BY <1>5, <2>1, <2>4, <3>1, <3>2, <3>3 DEF RestoresFirst
    <3> QED BY <1>0, <2>3, <2>4, <3>4, <3>5, HashStepOf
  <2>5. CASE /\ pc' = [pc EXCEPT ![s] = "hash"] /\ todo' = [todo EXCEPT ![s] = todo[s] \ {i}]
             /\ UNCHANGED <<traces, hash>>
    <3>1. RestoresFirst(s)'
      BY <1>0, <1>5, <2>1, <2>5 DEF RestoresFirst
    <3> QED BY <1>0, <2>1, <2>3, <2>5, <3>1, HashStepOf, TracedStep, QuietHashes
  <2> QED BY <2>1, <2>4, <2>5
<1>13. CASE RestoreEvidence(s)
  <2> DEFINE i == First(todo[s])
  <2>1. /\ pc[s] = "evidence" /\ UNCHANGED <<hash, traces>>
        /\ \/ pc' = [pc EXCEPT ![s] = "column"] /\ UNCHANGED todo /\ rows' = [rows EXCEPT ![i].hash = hash[s]]
           \/ pc' = [pc EXCEPT ![s] = "hash"] /\ todo' = [todo EXCEPT ![s] = todo[s] \ {i}] /\ UNCHANGED rows
    BY <1>13 DEF RestoreEvidence, Goto, Skip
  <2>2. i \in DOMAIN rows /\ i \in todo[s] /\ rows[i].st = "fill" /\ rows[i].hash = NoHash
    BY <1>2, <1>3, <1>5, <2>1 DEF Hashing, FilledRows, RestoresFirst
  <2>3. rows[i].column = NoHash
    BY <2>2 DEF HashInv, Traced
  <2>4. /\ hash[s] # NoHash /\ hash[s] \in Range(traces)
        /\ Last(hash[s]) = [of |-> rows[i].of, data |-> rows[i].data]
    BY <1>5, <2>1 DEF RestoresFirst
  <2>5. Alone(s)
    BY <1>4, <2>1 DEF Locked
  <2>6. CASE pc' = [pc EXCEPT ![s] = "column"] /\ UNCHANGED todo /\ rows' = [rows EXCEPT ![i].hash = hash[s]]
    <3>1. Hashed(i, hash[s], NoHash)
      <4>1. rows'[i].hash = hash[s]
        BY <1>0, <2>2, <2>6, TableFacts DEF RowSet
      <4>3. Hashed(i, hash[s], rows[i].column) \/ Hashed(i, rows[i].hash, hash[s])
        BY <1>0, <2>2, <2>6, HashedFacts
      <4>4. Hashed(i, rows[i].hash, hash[s]) => rows'[i].hash = rows[i].hash
        BY DEF Hashed
      <4> QED BY <2>2, <2>3, <2>4, <4>1, <4>3, <4>4
    <3>2. \A k \in DOMAIN rows' : Traced(k)'
      BY <2>1, <2>2, <2>4, <3>1, HashedIsTraced
    <3>3. rows'[i].hash = hash[s] /\ \A k \in todo[s] \ {i} : rows'[k] = rows[k]
      BY <1>0, <3>1 DEF Hashed
    <3>4. rows'[i].of = rows[i].of /\ rows'[i].data = rows[i].data
      BY <3>1 DEF Hashed
    <3>5. RestoresFirst(s)'
      <4> HIDE DEF i
      <4>1. First(todo[s])' = i
        BY <2>6 DEF i, First
      <4> QED BY <1>0, <1>5, <2>1, <2>4, <2>6, <3>3, <3>4, <4>1 DEF RestoresFirst
    <3> QED BY <1>0, <2>1, <2>5, <2>6, <3>2, <3>5, HashStepOf
  <2>7. CASE pc' = [pc EXCEPT ![s] = "hash"] /\ todo' = [todo EXCEPT ![s] = todo[s] \ {i}] /\ UNCHANGED rows
    <3>1. RestoresFirst(s)'
      BY <1>0, <1>5, <2>1, <2>7 DEF RestoresFirst
    <3> QED BY <1>0, <2>1, <2>5, <2>7, <3>1, HashStepOf, TracedStep, QuietHashes
  <2> QED BY <2>1, <2>6, <2>7
<1>14. CASE RestoreColumn(s)
  <2> DEFINE i == First(todo[s])
  <2>1. /\ pc[s] = "column" /\ pc' = [pc EXCEPT ![s] = "hash"] /\ UNCHANGED <<hash, traces>>
        /\ todo' = [todo EXCEPT ![s] = todo[s] \ {i}]
        /\ \/ rows' = [rows EXCEPT ![i].column = IF @ = NoHash THEN hash[s] ELSE @]
           \/ UNCHANGED rows
    BY <1>14 DEF RestoreColumn, Goto, Skip
  <2>2. /\ i \in DOMAIN rows /\ i \in todo[s] /\ rows[i].st = "fill" /\ rows[i].hash = hash[s]
        /\ hash[s] # NoHash /\ hash[s] \in Range(traces)
        /\ Last(hash[s]) = [of |-> rows[i].of, data |-> rows[i].data]
    BY <1>2, <1>3, <1>5, <2>1 DEF Hashing, FilledRows, RestoresFirst
  <2>3. Alone(s)
    BY <1>4, <2>1 DEF Locked
  <2> HIDE DEF i
  <2>4. \A k \in DOMAIN rows' : Traced(k)'
    <3>1. CASE rows' = [rows EXCEPT ![i].column = IF rows[i].column = NoHash THEN hash[s] ELSE rows[i].column]
      <4> DEFINE c == IF rows[i].column = NoHash THEN hash[s] ELSE rows[i].column
      <4>1. c \in Hash /\ c # NoHash
        BY <1>0, <2>2, TableFacts DEF RowSet
      <4>2. c = hash[s]
        <5>1. hash[s] # LegacyHash
          <6>1. rows[i].data # "legacy"
            BY <1>0, <2>2, TableFacts DEF RowSet
          <6>2. Last(LegacyHash).data = "legacy"
            BY DEF LegacyHash, Last
          <6> QED BY <2>2, <6>1, <6>2
        <5> QED BY <2>2, <5>1 DEF HashInv, Traced
      <4>3. rows' = [rows EXCEPT ![i].column = c]
        BY <3>1
      <4> HIDE DEF c
      <4>4. rows'[i].hash = rows[i].hash
        BY <1>0, <2>2, <4>3, TableFacts DEF RowSet
      <4>5. Hashed(i, hash[s], c) \/ Hashed(i, hash[s], rows[i].column)
        BY <1>0, <2>2, <4>1, <4>2, <4>3, HashedFacts
      <4>6. rows[i].column \in {NoHash, hash[s]}
        BY <4>2 DEF c
      <4> QED BY <2>1, <2>2, <4>2, <4>5, <4>6, HashedIsTraced
    <3>2. CASE UNCHANGED rows
      BY <2>1, <3>2, TracedStep, QuietHashes
    <3> QED BY <2>1, <3>1, <3>2
  <2>5. \A k \in todo[s] \ {i} : rows'[k] = rows[k]
    BY <1>0, <2>1, <2>2, TableFacts
  <2>6. RestoresFirst(s)'
    BY <1>0, <1>5, <2>1, <2>5 DEF RestoresFirst, i
  <2> QED BY <1>0, <2>1, <2>3, <2>4, <2>6, HashStepOf
<1>15. CASE EndPass(s)
  <2>1. /\ pc' = [pc EXCEPT ![s] = "recover"] \/ pc' = [pc EXCEPT ![s] = "idle"]
        /\ hash' = [hash EXCEPT ![s] = NoHash] /\ UNCHANGED <<rows, traces, todo>>
    BY <1>15 DEF EndPass, Goto, tables, passVars
  <2>2. RestoresFirst(s)' /\ SameHashes
    BY <1>0, <2>1, QuietHashes DEF RestoresFirst
  <2> QED BY <1>0, <2>1, <2>2, HashStepOf, TracedStep
<1>16. CASE ReadJobs(s)
  <2>1. /\ pc' = [pc EXCEPT ![s] = "idle"] \/ pc' = [pc EXCEPT ![s] = "jobs"]
        /\ UNCHANGED <<rows, traces, hash, todo>>
    BY <1>16 DEF ReadJobs, Goto, tables
  <2>2. RestoresFirst(s)' /\ SameHashes
    BY <1>0, <2>1, QuietHashes DEF RestoresFirst
  <2> QED BY <1>0, <2>1, <2>2, HashStepOf, TracedStep
<1>17. CASE NextJob(s)
  <2>1. PICK j \in jobs[s] :
          \/ (MayWrite(s, j.row, "success", 0) \/ MayWrite(s, j.row, "error", 0)) /\ UNCHANGED pc
          \/ Goto(s, "jobs", "mark") /\ UNCHANGED rows
    BY <1>17 DEF NextJob
  <2>2. pc[s] = "jobs" /\ UNCHANGED <<traces, hash, todo>>
    BY <1>17 DEF NextJob
  <2>3. j.row \in DOMAIN rows /\ {"success", "error"} \subseteq Status /\ 0 \in 0..MaxAttempts
    BY ConstantFacts DEF RowInv, TableInv, Status
  <2>4. SameHashes
    <3>1. AttestationStep
      BY <1>0, <2>1, <2>3, MayWriteFacts DEF AttestationStep
    <3> QED BY <2>2, <3>1, AttestationKeepsHashes
  <2>5. pc' = [pc EXCEPT ![s] = "jobs"] \/ pc' = [pc EXCEPT ![s] = "mark"]
    BY <1>1, <2>1, <2>2 DEF Goto
  <2>6. RestoresFirst(s)'
    BY <1>0, <2>5 DEF RestoresFirst
  <2> QED BY <1>0, <2>2, <2>4, <2>5, <2>6, HashStepOf, TracedStep
<1>18. CASE EndRecovery(s)
  <2>1. UNCHANGED <<rows, traces, hash, todo>> /\ pc' = [pc EXCEPT ![s] = "idle"]
    BY <1>18 DEF EndRecovery, Goto, tables, passVars
  <2>2. RestoresFirst(s)' /\ SameHashes
    BY <1>0, <2>1, QuietHashes DEF RestoresFirst
  <2> QED BY <1>0, <2>1, <2>2, HashStepOf, TracedStep
<1>19. CASE AttemptAttestation(s)
  BY <1>0, <1>19, AttemptKeepsHashes
<1> QED
  BY <1>6, <1>7, <1>8, <1>9, <1>10, <1>11, <1>12, <1>13, <1>14, <1>15, <1>16, <1>17, <1>18,
      <1>19 DEF ServerStep

LEMMA CrashKeepsHashes ==
  ASSUME RowInv, HashInv, NEW s \in Servers, Crash(s)
  PROVE  HashInv'
<1>1. /\ UNCHANGED <<rows, traces>> /\ pc'[s] = "boot"
      /\ \A p \in Procs \ Dead(s) : pc'[p] = pc[p] /\ hash'[p] = hash[p]
      /\ \A p \in Dead(s) \ {s} : p \in Calls /\ pc'[p] = "done"
      /\ \A t \in Servers \ {s} : todo'[t] = todo[t] /\ t \notin Dead(s)
  BY CrashFacts DEF RowInv
<1>2. \A i \in DOMAIN rows' : Traced(i)'
  BY <1>1, TracedStep, QuietHashes
<1>3. \A r \in Calls : HashesOwnTrade(r)'
  BY <1>1, ConstantFacts DEF HashInv, HashesOwnTrade
<1>4. ASSUME NEW t \in Servers PROVE RestoresFirst(t)'
  <2>1. CASE t = s
    BY <1>1, <2>1 DEF RestoresFirst
  <2>2. CASE t # s
    BY <1>1, <2>2, ConstantFacts DEF HashInv, RestoresFirst
  <2> QED BY <2>1, <2>2
<1> QED BY <1>2, <1>3, <1>4 DEF HashInv

LEMMA HashInit == Init => HashInv
<1> SUFFICES ASSUME Init PROVE HashInv
  OBVIOUS
<1>1. \A p \in Procs : pc[p] \in {"boot", "new"}
  BY DEF Init
<1> QED BY <1>1, LegacyRows, ConstantFacts DEF HashInv, Traced, HashesOwnTrade, RestoresFirst

LEMMA HashStep == RowInv /\ HashInv /\ [Next]_vars => HashInv'
<1> SUFFICES ASSUME RowInv, HashInv, [Next]_vars PROVE HashInv'
  OBVIOUS
<1>1. CASE UNCHANGED vars
  BY <1>1 DEF vars, tables, passVars, HashInv, Traced, HashesOwnTrade, RestoresFirst
<1>2. CASE \E r \in Calls : SubmitOrder(r)
  BY <1>2, CallKeepsHashes
<1>3. CASE \E s \in Servers : ServerStep(s) \/ Crash(s)
  BY <1>3, ServerKeepsHashes, CrashKeepsHashes
<1> QED BY <1>1, <1>2, <1>3 DEF Next

\* The hash a filled row shows is in the chain, is the hash of that row and its data, and no
\* other row shows it, whichever call, crash or recovery put it there.
THEOREM ShownHashesAreTraced == Spec => []HashesAreTraced
<1>1. RowInv /\ HashInv => HashesAreTraced
  <2> SUFFICES ASSUME RowInv, HashInv, NEW i \in FilledRows, rows[i].hash \notin {NoHash, LegacyHash}
               PROVE  /\ rows[i].hash \in Range(traces)
                      /\ Last(rows[i].hash) = [of |-> rows[i].of, data |-> rows[i].data]
                      /\ \A j \in FilledRows : rows[j].hash = rows[i].hash => i = j
                      /\ rows[i].column \in {NoHash, rows[i].hash}
    BY DEF HashesAreTraced
  <2>1. \A j \in FilledRows : j \in DOMAIN rows /\ Traced(j)
    BY DEF HashInv, FilledRows
  <2>2. ASSUME NEW j \in FilledRows, rows[j].hash = rows[i].hash PROVE rows[j].of = rows[i].of
    <3>1. [of |-> rows[j].of, data |-> rows[j].data] = [of |-> rows[i].of, data |-> rows[i].data]
      BY <2>1, <2>2 DEF Traced
    <3> QED BY <3>1
  <2>3. \A j \in FilledRows : rows[j].hash = rows[i].hash => i = j
    BY <2>1, <2>2 DEF RowInv, TableInv, DistinctRows
  <2> QED BY <2>1, <2>3 DEF Traced
<1>2. Init => RowInv /\ HashInv
  BY RowInit, HashInit
<1>3. (RowInv /\ HashInv) /\ [Next]_vars => (RowInv /\ HashInv)'
  BY RowStep, HashStep
<1> QED BY <1>1, <1>2, <1>3, PTL DEF Spec

-----------------------------------------------------------------------------
(* The attestation a row shows. *)

Posted(t) == posts[t] # << >>
OnRecord(i) ==
  /\ Posted(rows[i].of) => rows[i].att # "none"
  /\ rows[i].att \in {"success", "pending_confirm"} => Posted(rows[i].of)

\* An attempt beyond its marker has marked its row; one that knows of a mined transaction is
\* right about it.
Attempts(p) ==
  /\ pc[p] \in Attempting \ {"mark"} => rows[job[p].row].att # "none"
  /\ (pc[p] = "settle" /\ answer[p] = "mined") \/ pc[p] = "confirm" => Posted(TradeOf(p))
Confirms(s) == \A j \in jobs[s] : j.att = "pending_confirm" => Posted(rows[j.row].of)

RecordInv ==
  /\ \A t \in Calls : Posted(t) => HasRow(t)
  /\ \A i \in DOMAIN rows : OnRecord(i)
  /\ \A p \in Procs : Attempts(p)
  /\ \A s \in Servers : Confirms(s)

\* A step that may write attestations, but only what the chain bears out.
BornOut(k) ==
  /\ rows'[k].of = rows[k].of
  /\ \/ rows'[k].att = rows[k].att
     \/ /\ rows'[k].att # "none"
        /\ rows'[k].att \in {"success", "pending_confirm"} => Posted(rows[k].of)
Recorded == DOMAIN rows' = DOMAIN rows /\ UNCHANGED posts /\ \A k \in DOMAIN rows : BornOut(k)

LEMMA RecordStepOf ==
  ASSUME RowInv, RecordInv, NEW p \in Procs, Recorded,
         \A q \in Procs \ {p} : pc'[q] = pc[q] /\ job'[q] = job[q] /\ answer'[q] = answer[q],
         Attempts(p)', \A s \in Servers : Confirms(s)'
  PROVE  RecordInv'
<1>1. \A i \in DOMAIN rows' : OnRecord(i)'
  BY DEF RecordInv, Recorded, BornOut, OnRecord, Posted
<1>2. \A t \in Calls : Posted(t)' => HasRow(t)'
  BY DEF RecordInv, Recorded, BornOut, Posted, HasRow
<1>3. ASSUME NEW q \in Procs, q # p PROVE Attempts(q)'
  <2>1. pc'[q] = pc[q] /\ job'[q] = job[q] /\ answer'[q] = answer[q] /\ posts' = posts
    BY <1>3 DEF Recorded
  <2>2. pc[q] \in Attempting => job[q].row \in DOMAIN rows
    BY DEF RowInv, TableInv
  <2>3. pc[q] \in Attempting => BornOut(job[q].row)
    BY <2>2 DEF Recorded
  <2>4. Attempts(q)
    BY DEF RecordInv
  <2> QED BY <2>1, <2>3, <2>4 DEF BornOut, Attempts, Attempting, Posted, TradeOf
<1> QED BY <1>1, <1>2, <1>3 DEF RecordInv

LEMMA QuietRecord ==
  ASSUME UNCHANGED <<rows, posts>>
  PROVE  Recorded
BY DEF Recorded, BornOut

LEMMA WriteIsRecorded ==
  ASSUME RowInv, NEW i \in DOMAIN rows, NEW a, NEW n, UNCHANGED posts,
         UNCHANGED rows \/ AttestationWrite(i, a, n),
         a # "none", a \in {"success", "pending_confirm"} => Posted(rows[i].of)
  PROVE  Recorded
BY DEF AttestationWrite, SameFill, Recorded, BornOut

\* Jobs stay those of their rows.
LEMMA ConfirmsKept ==
  ASSUME RowInv, RecordInv, Recorded, NEW s \in Servers, jobs'[s] \subseteq jobs[s]
  PROVE  Confirms(s)'
<1>1. \A j \in jobs[s] : j.row \in DOMAIN rows
  BY DEF RowInv, TableInv
<1> QED BY <1>1 DEF RecordInv, Confirms, Recorded, BornOut, Posted

\* What a process that attests nothing does.
LEMMA OtherStep ==
  ASSUME RowInv, RecordInv, NEW p \in Procs, Recorded, UNCHANGED <<job, answer>>,
         NEW to, pc' = [pc EXCEPT ![p] = to], to \notin Attempting \ {"mark"},
         \A s \in Servers : jobs'[s] \subseteq jobs[s]
  PROVE  RecordInv'
<1>1. Attempts(p)'
  BY DEF RowInv, ProcTypes, Attempts, Attempting
<1>2. \A q \in Procs \ {p} : pc'[q] = pc[q]
  BY DEF RowInv, ProcTypes
<1> QED BY <1>1, <1>2, ConfirmsKept, RecordStepOf

LEMMA AttemptKeepsRecord ==
  ASSUME RowInv, RecordInv, NEW p \in Procs, AttemptAttestation(p)
  PROVE  RecordInv'
<1>1. /\ UNCHANGED jobs /\ pc[p] \in Attempting /\ job[p].row \in DOMAIN rows /\ IsTable(rows)
      /\ TradeOf(p) \in Calls \cup Legacy
  <2>1. UNCHANGED jobs /\ pc[p] \in Attempting /\ job[p].row \in DOMAIN rows /\ IsTable(rows)
    BY AttemptTypes DEF passVars, RowInv, TableInv, SharedTypes
  <2> QED BY <2>1, TableFacts DEF TradeOf, RowSet
<1> DEFINE i == job[p].row
<1>2. \A a \in Status, n \in 0..MaxAttempts : MayWrite(p, i, a, n) => UNCHANGED rows \/ AttestationWrite(i, a, n)
  BY <1>1, MayWriteFacts
<1>3. DOMAIN pc = Procs /\ DOMAIN job = Procs /\ DOMAIN answer = Procs /\ job[p] \in JobSet
  BY DEF RowInv, ProcTypes
<1>4. \A s \in Servers : Recorded => Confirms(s)'
  BY <1>1, ConfirmsKept
<1>5. 0 \in 0..MaxAttempts /\ {"error", "pending", "pending_confirm"} \subseteq Status
  BY ConstantFacts DEF Status
<1>6. CASE Mark(p)
  <2>1. /\ UNCHANGED posts
        /\ \/ /\ MayWrite(p, i, "error", 0) \/ WriteFails(p)
              /\ \E to : pc' = [pc EXCEPT ![p] = to] /\ to \notin Attempting
              /\ job' = [job EXCEPT ![p] = NoJob] /\ answer' = [answer EXCEPT ![p] = "none"]
           \/ /\ ~(job[p].att = "pending" /\ job[p].tries >= MaxAttempts)
              /\ Writes(p, i, "pending", job[p].tries + 1)
              /\ pc' = [pc EXCEPT ![p] = "post"] /\ UNCHANGED <<job, answer>>
    BY <1>6 DEF Mark, EndAttempt, After, Goto, Attempting, attempt, chain
  <2>2. CASE /\ MayWrite(p, i, "error", 0) \/ WriteFails(p)
             /\ \E to : pc' = [pc EXCEPT ![p] = to] /\ to \notin Attempting
             /\ job' = [job EXCEPT ![p] = NoJob] /\ answer' = [answer EXCEPT ![p] = "none"]
    <3>1. UNCHANGED rows \/ AttestationWrite(i, "error", 0)
      BY <1>2, <1>5, <2>2 DEF WriteFails
    <3>2. Recorded
      BY <1>1, <2>1, <3>1, WriteIsRecorded
    <3>3. Attempts(p)'
      BY <1>3, <2>2 DEF Attempts, Attempting
    <3>4. \A q \in Procs \ {p} : pc'[q] = pc[q] /\ job'[q] = job[q] /\ answer'[q] = answer[q]
      BY <1>3, <2>2
    <3> QED BY <1>4, <3>2, <3>3, <3>4, RecordStepOf
  <2>3. CASE /\ ~(job[p].att = "pending" /\ job[p].tries >= MaxAttempts)
             /\ Writes(p, i, "pending", job[p].tries + 1)
             /\ pc' = [pc EXCEPT ![p] = "post"] /\ UNCHANGED <<job, answer>>
    <3>0. job[p].tries + 1 \in 0..MaxAttempts
      BY <1>3, <2>3, ConstantFacts DEF JobSet
    <3>1. AttestationWrite(i, "pending", job[p].tries + 1)
      <4>1. rows' = [rows EXCEPT ![i].att = "pending", ![i].tries = job[p].tries + 1]
        BY <2>3 DEF Writes
      <4> QED BY <1>1, <1>5, <3>0, <4>1, WriteFacts
    <3>2. Recorded
      BY <1>1, <2>1, <3>1, WriteIsRecorded
    <3>3. Attempts(p)'
      BY <1>3, <2>3, <3>1 DEF Attempts, AttestationWrite
    <3>4. \A q \in Procs \ {p} : pc'[q] = pc[q] /\ job'[q] = job[q] /\ answer'[q] = answer[q]
      BY <1>3, <2>3
    <3> QED BY <1>4, <3>2, <3>3, <3>4, RecordStepOf
  <2> QED BY <2>1, <2>2, <2>3
<1>7. CASE Post(p)
  <2>1. /\ pc[p] = "post" /\ pc' = [pc EXCEPT ![p] = "settle"] /\ UNCHANGED <<rows, job>>
        /\ \E a : /\ answer' = [answer EXCEPT ![p] = a]
                  /\ \/ posts' = [posts EXCEPT ![TradeOf(p)] = Append(posts[TradeOf(p)], job[p].hash)]
                     \/ a # "mined" /\ UNCHANGED posts
    BY <1>7 DEF Post, Goto, Carried, chain, tables
  <2>2. PICK a : /\ answer' = [answer EXCEPT ![p] = a]
                 /\ \/ posts' = [posts EXCEPT ![TradeOf(p)] = Append(posts[TradeOf(p)], job[p].hash)]
                    \/ a # "mined" /\ UNCHANGED posts
    BY <2>1
  <2>3. /\ \A t \in Calls \cup Legacy : t # TradeOf(p) => posts'[t] = posts[t]
        /\ Posted(TradeOf(p)) => Posted(TradeOf(p))'
        /\ a = "mined" => Posted(TradeOf(p))'
    <3>1. posts \in [Calls \cup Legacy -> Seq(Hash)] /\ posts[TradeOf(p)] \in Seq(Hash) /\ job[p].hash \in Hash
      BY <1>1, <1>3 DEF RowInv, SharedTypes, JobSet
    <3>2. Append(posts[TradeOf(p)], job[p].hash) # << >>
      BY <3>1, AppendTypes
    <3> DEFINE e == Append(posts[TradeOf(p)], job[p].hash)
    <3>3. posts' = [posts EXCEPT ![TradeOf(p)] = e] \/ (a # "mined" /\ UNCHANGED posts)
      BY <2>2
    <3>4. e # << >> /\ TradeOf(p)' = TradeOf(p) /\ DOMAIN posts = Calls \cup Legacy
      BY <2>1, <3>1, <3>2 DEF TradeOf
    <3> HIDE DEF e
    <3> QED BY <1>1, <3>3, <3>4 DEF Posted
  <2>4. \A k \in DOMAIN rows : rows[k].of \in Calls \cup Legacy
    BY <1>1, TableFacts DEF RowSet
  <2>5. \A k \in DOMAIN rows : rows[k].of = TradeOf(p) => k = i
    BY <1>1 DEF RowInv, TableInv, DistinctRows, TradeOf
  <2>6. rows[i].att # "none" /\ rows[i].of = TradeOf(p)
    BY <2>1 DEF RecordInv, Attempts, Attempting, TradeOf
  <2>7. \A t \in Calls \cup Legacy : Posted(t) => Posted(t)'
    BY <2>1, <2>3 DEF Posted, TradeOf
  <2>8. \A k \in DOMAIN rows' : OnRecord(k)'
    BY <2>1, <2>3, <2>4, <2>5, <2>6, <2>7 DEF RecordInv, OnRecord, Posted
  <2>9. \A t \in Calls : Posted(t)' => HasRow(t)'
    BY <1>1, <2>1, <2>3, <2>6 DEF RecordInv, Posted, HasRow
  <2>10. ASSUME NEW q \in Procs PROVE Attempts(q)'
    <3>1. pc[q] \in Attempting => job[q].row \in DOMAIN rows /\ TradeOf(q) \in Calls \cup Legacy
      BY <2>4 DEF RowInv, TableInv, TradeOf
    <3>2. TradeOf(q)' = TradeOf(q)
      BY <2>1 DEF TradeOf
    <3>3. CASE q = p
      BY <1>3, <2>1, <2>2, <2>3, <2>6, <3>2, <3>3 DEF Attempts, Posted
    <3>4. CASE q # p
      <4>1. pc'[q] = pc[q] /\ answer'[q] = answer[q] /\ Attempts(q)
        BY <1>3, <2>1, <2>2, <3>4 DEF RecordInv
      <4> QED BY <2>1, <2>7, <3>1, <3>2, <4>1 DEF Attempts, Attempting, Posted
    <3> QED BY <3>3, <3>4
  <2>11. ASSUME NEW s \in Servers PROVE Confirms(s)'
    <3>1. \A j \in jobs[s] : rows[j.row].of \in Calls \cup Legacy
      BY <2>4 DEF RowInv, TableInv
    <3> QED BY <1>1, <2>1, <2>7, <3>1 DEF RecordInv, Confirms, Posted
  <2> QED BY <2>8, <2>9, <2>10, <2>11 DEF RecordInv
<1>8. CASE Settle(p)
  <2>0. {"done", "idle", "jobs"} \cap Attempting = {}
    BY DEF Attempting
  <2>1. /\ pc[p] = "settle" /\ UNCHANGED posts
        /\ \/ Writes(p, i, Outcome(p), IF Outcome(p) = "pending" THEN job[p].tries + 1 ELSE 0)
           \/ UNCHANGED rows
        /\ \/ /\ \E to \in {"done", "idle", "jobs"} : pc' = [pc EXCEPT ![p] = to]
              /\ job' = [job EXCEPT ![p] = NoJob] /\ answer' = [answer EXCEPT ![p] = "none"]
           \/ /\ Outcome(p) = "success" /\ pc' = [pc EXCEPT ![p] = "confirm"]
              /\ UNCHANGED <<job, answer, rows>>
    BY <1>8 DEF Settle, EndAttempt, After, Goto, attempt, chain, WriteFails
  <2>2. Outcome(p) = "success" <=> answer[p] = "mined"
    BY DEF Outcome
  <2>3. Outcome(p) \in Status \ {"none", "pending_confirm"} /\ (Outcome(p) = "pending" => job[p].tries + 1 \in 0..MaxAttempts)
    BY <1>3, ConstantFacts DEF Outcome, Status, JobSet
  <2>4. Outcome(p) = "success" => Posted(TradeOf(p))
    BY <2>1, <2>2 DEF RecordInv, Attempts
  <2>5. Recorded
    <3>1. CASE UNCHANGED rows
      BY <2>1, <3>1, QuietRecord
    <3>2. CASE Writes(p, i, Outcome(p), IF Outcome(p) = "pending" THEN job[p].tries + 1 ELSE 0)
      <4>1. PICK n \in 0..MaxAttempts : rows' = [rows EXCEPT ![i].att = Outcome(p), ![i].tries = n]
        BY <1>5, <2>3, <3>2 DEF Writes
      <4>2. AttestationWrite(i, Outcome(p), n)
        BY <1>1, <2>3, <4>1, WriteFacts
      <4> QED BY <1>1, <2>1, <2>3, <2>4, <4>2, WriteIsRecorded DEF TradeOf
    <3> QED BY <2>1, <3>1, <3>2
  <2>6. Attempts(p)'
    <3>1. CASE \E to \in {"done", "idle", "jobs"} : pc' = [pc EXCEPT ![p] = to]
      BY <1>3, <2>0, <3>1 DEF Attempts, Attempting
    <3>2. CASE Outcome(p) = "success" /\ pc' = [pc EXCEPT ![p] = "confirm"] /\ UNCHANGED <<job,
                                                                                           answer,
                                                                                           rows>>
      BY <1>3, <2>1, <2>4, <3>2 DEF Attempts, Attempting, RecordInv, Posted, TradeOf
    <3> QED BY <2>1, <3>1, <3>2
  <2>7. \A q \in Procs \ {p} : pc'[q] = pc[q] /\ job'[q] = job[q] /\ answer'[q] = answer[q]
    BY <1>3, <2>1
  <2> QED BY <1>4, <2>5, <2>6, <2>7, RecordStepOf
<1>9. CASE Confirm(p)
  <2>0. {"done", "idle", "jobs"} \cap Attempting = {}
    BY DEF Attempting
  <2>1. /\ pc[p] = "confirm" /\ UNCHANGED posts /\ MayWrite(p, i, "pending_confirm", 0)
        /\ \E to \in {"done", "idle", "jobs"} : pc' = [pc EXCEPT ![p] = to]
        /\ job' = [job EXCEPT ![p] = NoJob] /\ answer' = [answer EXCEPT ![p] = "none"]
    BY <1>9 DEF Confirm, EndAttempt, After, Goto, chain
  <2>2. Posted(rows[i].of)
    BY <2>1 DEF RecordInv, Attempts, TradeOf
  <2>3. Recorded
    <3>1. UNCHANGED rows \/ AttestationWrite(i, "pending_confirm", 0)
      BY <1>2, <1>5, <2>1
    <3> QED BY <1>1, <2>1, <2>2, <3>1, WriteIsRecorded
  <2>4. Attempts(p)'
    BY <1>3, <2>0, <2>1 DEF Attempts
  <2>5. \A q \in Procs \ {p} : pc'[q] = pc[q] /\ job'[q] = job[q] /\ answer'[q] = answer[q]
    BY <1>3, <2>1
  <2> QED BY <1>4, <2>3, <2>4, <2>5, RecordStepOf
<1> QED BY <1>6, <1>7, <1>8, <1>9 DEF AttemptAttestation

\* A new row is the first of its trade, and nothing has been posted for it.
LEMMA NewRowStep ==
  ASSUME RowInv, RecordInv, NEW r \in Calls, ~HasRow(r), NEW st \in {"pending", "fill"},
         NEW data \in {"intent", "history"}, rows' = Append(rows, Row(r, st, data)),
         UNCHANGED <<posts, job, jobs, answer>>,
         \A q \in Procs : pc'[q] \in Attempting => pc'[q] = pc[q]
  PROVE  RecordInv'
<1> DEFINE n == Len(rows) + 1
<1>1. /\ DOMAIN rows' = DOMAIN rows \cup {n} /\ \A k \in DOMAIN rows : rows'[k] = rows[k]
      /\ rows'[n] = Row(r, st, data)
  BY AppendRowFacts DEF RowInv, SharedTypes
<1>2. rows'[n].of = r /\ rows'[n].att = "none" /\ ~Posted(r)
  BY <1>1 DEF Row, RecordInv
<1> HIDE DEF n
<1>3. \A i \in DOMAIN rows' : OnRecord(i)'
  BY <1>1, <1>2 DEF RecordInv, OnRecord, Posted
<1>4. \A t \in Calls : Posted(t)' => HasRow(t)'
  BY <1>1 DEF RecordInv, Posted, HasRow
<1>5. ASSUME NEW q \in Procs PROVE Attempts(q)'
  <2>1. pc[q] \in Attempting => job[q].row \in DOMAIN rows
    BY DEF RowInv, TableInv
  <2> QED BY <1>1, <2>1 DEF RecordInv, Attempts, Attempting, Posted, TradeOf
<1>6. \A s \in Servers : Confirms(s)'
  BY <1>1 DEF RecordInv, Confirms, Posted, RowInv, TableInv
<1> QED BY <1>3, <1>4, <1>5, <1>6 DEF RecordInv

LEMMA LockedIsRecorded ==
  ASSUME NEW i \in DOMAIN rows, UNCHANGED posts,
         \/ UNCHANGED rows
         \/ \E h, c : Hashed(i, h, c) /\ rows'[i].att \in {rows[i].att, "disabled"}
         \/ \E h, data : Booking(i, data, h)
  PROVE  Recorded
BY DEF Hashed, Booking, Recorded, BornOut

LEMMA CallKeepsRecord ==
  ASSUME RowInv, RecordInv, NEW r \in Calls, SubmitOrder(r)
  PROVE  RecordInv'
<1>0. r \in Procs /\ r \notin Servers /\ DOMAIN pc = Procs /\ DOMAIN job = Procs
  BY ConstantFacts DEF RowInv, ProcTypes
<1>1. CASE PlaceOrder(r)
  <2>1. /\ pc[r] = "new" /\ UNCHANGED <<posts, job, jobs, answer>>
        /\ pc' = [pc EXCEPT ![r] = "latest"] \/ pc' = [pc EXCEPT ![r] = "unlock_lost"]
        /\ rows' = Append(rows, Row(r, "pending", "intent")) \/ UNCHANGED rows
    BY <1>1 DEF PlaceOrder, Goto, passVars, chain, attempt
  <2>2. ~HasRow(r)
    BY <2>1 DEF RowInv, TableInv
  <2>3. CASE rows' = Append(rows, Row(r, "pending", "intent"))
    <3>1. \A q \in Procs : pc'[q] \in Attempting => pc'[q] = pc[q]
      BY <1>0, <2>1 DEF Attempting
    <3> QED BY <2>1, <2>2, <2>3, <3>1, NewRowStep
  <2>4. CASE UNCHANGED rows
    BY <1>0, <2>1, <2>4, QuietRecord, OtherStep DEF Attempting
  <2> QED BY <2>1, <2>3, <2>4
<1>2. CASE ComputeHash(r)
  <2>1. pc' = [pc EXCEPT ![r] = "finalize"] /\ UNCHANGED <<rows, posts, job, jobs, answer>>
    BY <1>2 DEF ComputeHash, Goto, tables, passVars, chain, attempt
  <2> QED BY <1>0, <2>1, QuietRecord, OtherStep DEF Attempting
<1>3. CASE Finalize(r)
  <2>1. /\ pc[r] = "finalize" /\ pc' = [pc EXCEPT ![r] = "unlock"] /\ UNCHANGED <<posts, job, jobs,
                                                                                  answer>>
        /\ FinalizeTrade(RowOf(r), "answer", hash[r]) \/ UNCHANGED <<rows, traces>>
    BY <1>3 DEF Finalize, Goto, passVars, chain, attempt
  <2>2. RowOf(r) \in DOMAIN rows /\ hash[r] \in Hash /\ IsTable(rows)
    BY <1>0, <2>1, RowOfFacts DEF RowInv, TableInv, Booked, ProcTypes, SharedTypes
  <2>3. UNCHANGED rows \/ Booking(RowOf(r), "answer", hash[r])
    BY <2>1, <2>2, FinalizeFacts
  <2>4. Recorded
    BY <2>1, <2>2, <2>3, LockedIsRecorded
  <2> QED BY <1>0, <2>1, <2>4, OtherStep DEF Attempting
<1>4. CASE Unlock(r)
  <2>1. /\ pc' = [pc EXCEPT ![r] = "attest"] \/ pc' = [pc EXCEPT ![r] = "done"]
        /\ UNCHANGED <<rows, posts, job, jobs, answer>>
    BY <1>4 DEF Unlock, Goto, tables, passVars, chain, attempt
  <2> QED BY <1>0, <2>1, QuietRecord, OtherStep DEF Attempting
<1>5. CASE Attest(r)
  <2>1. /\ pc' = [pc EXCEPT ![r] = "done"] \/ pc' = [pc EXCEPT ![r] = "mark"]
        /\ UNCHANGED job \/ \E j : job' = [job EXCEPT ![r] = j]
        /\ UNCHANGED <<posts, jobs, answer>>
        /\ UNCHANGED rows \/ MayWrite(r, RowOf(r), "waiting_for_gas", 0) \/ MayWrite(r, RowOf(r), "disabled", 0)
        /\ pc[r] = "attest"
    BY <1>5 DEF Attest, Goto, passVars, chain
  <2>2. RowOf(r) \in DOMAIN rows /\ IsTable(rows)
    BY <2>1, RowOfFacts DEF RowInv, TableInv, Booked, SharedTypes
  <2>3. {"waiting_for_gas", "disabled"} \subseteq Status /\ 0 \in 0..MaxAttempts
    BY ConstantFacts DEF Status
  <2>4. UNCHANGED rows \/ AttestationWrite(RowOf(r), "waiting_for_gas", 0) \/ AttestationWrite(RowOf(r), "disabled", 0)
    BY <2>1, <2>2, <2>3, MayWriteFacts
  <2>5. Recorded
    BY <2>1, <2>2, <2>4, WriteIsRecorded, QuietRecord
  <2>6. Attempts(r)'
    BY <1>0, <2>1 DEF Attempts, Attempting
  <2>7. \A q \in Procs \ {r} : pc'[q] = pc[q] /\ job'[q] = job[q] /\ answer'[q] = answer[q]
    BY <1>0, <2>1
  <2> QED BY <1>0, <2>1, <2>5, <2>6, <2>7, ConfirmsKept, RecordStepOf
<1>6. CASE AttemptAttestation(r)
  BY <1>0, <1>6, AttemptKeepsRecord
<1> QED BY <1>1, <1>2, <1>3, <1>4, <1>5, <1>6 DEF SubmitOrder

LEMMA ServerKeepsRecord ==
  ASSUME RowInv, RecordInv, NEW s \in Servers, ServerStep(s)
  PROVE  RecordInv'
<1>0. /\ s \in Procs /\ s \notin Calls /\ IsTable(rows) /\ traces \in Seq(Hash)
      /\ DOMAIN pc = Procs /\ DOMAIN job = Procs /\ DOMAIN jobs = Servers
      /\ todo[s] \subseteq DOMAIN rows /\ todo[s] \subseteq Nat /\ hash[s] \in Hash
  BY TableFacts, ConstantFacts DEF RowInv, SharedTypes, ServerTypes, ProcTypes
<1>1. pc' = pc => pc' = [pc EXCEPT ![s] = pc[s]]
  BY DEF RowInv, ChainInv, Shape
<1>2. todo[s] # {} => First(todo[s]) \in DOMAIN rows
  BY <1>0, FirstFacts
<1>3. pc[s] \in Hashing \ {"hash"} => todo[s] # {}
  BY DEF RowInv, TableInv
<1>4. CASE LoadKeys(s) \/ BeginPass(s) \/ QueryWithoutHash(s) \/ RestoreTrace(s) \/ EndPass(s) \/ EndRecovery(s)
  <2>1. UNCHANGED <<rows, posts, job, jobs, answer>>
    BY <1>4 DEF LoadKeys, BeginPass, QueryWithoutHash, RestoreTrace, EndPass, EndRecovery,
                tables, passVars, chain, attempt
  <2>2. \E to \in {"lock", "resolve", "hash", "evidence", "recover", "idle"} : pc' = [pc EXCEPT ![s] = to]
    BY <1>4 DEF LoadKeys, BeginPass, QueryWithoutHash, RestoreTrace, EndPass, EndRecovery, Goto
  <2>3. {"lock", "resolve", "hash", "evidence", "recover", "idle"} \cap Attempting = {}
    BY DEF Attempting
  <2> QED BY <1>0, <2>1, <2>2, <2>3, QuietRecord, OtherStep
<1>5. CASE ResolvePending(s)
  <2> DEFINE i == First(todo[s])
  <2>1. /\ pc[s] = "resolve" /\ todo[s] # {} /\ UNCHANGED <<pc, posts, job, jobs, answer>>
        /\ \/ \E h \in {Link(rows[i].of, "history"), NoHash} : FinalizeTrade(i, "history", h)
           \/ UNCHANGED <<rows, traces>>
    BY <1>5 DEF ResolvePending, chain, attempt
  <2>2. i \in DOMAIN rows
    BY <1>2, <2>1
  <2> HIDE DEF i
  <2>3. Recorded
    <3>1. CASE UNCHANGED <<rows, traces>>
      BY <2>1, <3>1, QuietRecord
    <3>2. CASE \E h \in {Link(rows[i].of, "history"), NoHash} : FinalizeTrade(i, "history", h)
      <4>1. rows[i].of \in Calls \cup Legacy
        BY <1>0, <2>2, TableFacts DEF RowSet
      <4>2. PICK h \in Hash : FinalizeTrade(i, "history", h)
        BY <1>0, <3>2, <4>1, HashFacts
      <4>3. UNCHANGED rows \/ Booking(i, "history", h)
        BY <1>0, <2>2, <4>2, FinalizeFacts
      <4> QED BY <2>1, <2>2, <4>3, LockedIsRecorded
    <3> QED BY <2>1, <3>1, <3>2
  <2> QED BY <1>0, <1>1, <2>1, <2>3, OtherStep DEF Attempting
<1>6. CASE InsertOrphan(s)
  <2>1. /\ pc[s] = "resolve" /\ UNCHANGED <<pc, posts, job, jobs, answer>>
        /\ \E r \in missing[s] : rows' = Append(rows, Row(r, "fill", "history")) \/ UNCHANGED rows
    BY <1>6 DEF InsertOrphan, chain, attempt
  <2>2. \A r \in missing[s] : r \in Calls /\ ~HasRow(r)
    BY DEF RowInv, TableInv, SharedTypes
  <2>3. CASE UNCHANGED rows
    BY <1>0, <1>1, <2>1, <2>3, QuietRecord, OtherStep DEF Attempting
  <2> QED BY <2>1, <2>2, <2>3, NewRowStep
<1>7. CASE StampLegacy(s)
  <2> DEFINE i == First(todo[s])
  <2>1. /\ pc[s] = "hash" /\ todo[s] # {} /\ UNCHANGED <<pc, posts, job, jobs, answer>>
        /\ \/ rows' = [rows EXCEPT ![i].hash = LegacyHash, ![i].att = "disabled", ![i].tries = 0]
           \/ UNCHANGED rows
    BY <1>7 DEF StampLegacy, chain, attempt
  <2>2. i \in DOMAIN rows
    BY <1>2, <2>1
  <2> HIDE DEF i
  <2>3. UNCHANGED rows \/ (Hashed(i, LegacyHash, rows[i].column) /\ rows'[i].att = "disabled")
    BY <1>0, <2>1, <2>2, StampFacts
  <2>4. Recorded
    BY <2>1, <2>2, <2>3, LockedIsRecorded
  <2> QED BY <1>0, <1>1, <2>1, <2>4, OtherStep DEF Attempting
<1>8. CASE RestoreEvidence(s) \/ RestoreColumn(s)
  <2> DEFINE i == First(todo[s])
             c == IF rows[i].column = NoHash THEN hash[s] ELSE rows[i].column
  <2>1. /\ pc[s] \in {"evidence", "column"} /\ UNCHANGED <<posts, job, jobs, answer>>
        /\ \E to \in {"hash", "column"} : pc' = [pc EXCEPT ![s] = to]
        /\ \/ rows' = [rows EXCEPT ![i].hash = hash[s]]
           \/ rows' = [rows EXCEPT ![i].column = c]
           \/ UNCHANGED rows
    BY <1>8 DEF RestoreEvidence, RestoreColumn, Goto, chain, attempt
  <2>2. i \in DOMAIN rows /\ c \in Hash
    BY <1>0, <1>2, <1>3, <2>1, TableFacts DEF Hashing, RowSet
  <2> HIDE DEF i, c
  <2>3. UNCHANGED rows \/ ((\E h, d : Hashed(i, h, d)) /\ rows'[i].att = rows[i].att)
    BY <1>0, <2>1, <2>2, HashedFacts
  <2>4. Recorded
    BY <2>1, <2>2, <2>3, LockedIsRecorded
  <2> QED BY <1>0, <2>1, <2>4, OtherStep DEF Attempting
<1>9. CASE ReadJobs(s)
  <2>1. /\ \E to \in {"idle", "jobs"} : pc' = [pc EXCEPT ![s] = to]
        /\ UNCHANGED <<rows, posts, job, answer>>
        /\ jobs' = [jobs EXCEPT ![s] = IF breaker[s] THEN {} ELSE {JobOf(i) : i \in Recoverable}]
    BY <1>9 DEF ReadJobs, Goto, tables, chain, attempt
  <2>2. \A j \in jobs'[s] : \E i \in DOMAIN rows : j.row = i /\ j.att = rows[i].att
    BY <1>0, <2>1 DEF JobOf, Recoverable, FilledRows
  <2>3. Confirms(s)'
    BY <2>1, <2>2 DEF Confirms, RecordInv, OnRecord, Posted
  <2>4. \A t \in Servers \ {s} : jobs'[t] = jobs[t]
    BY <1>0, <2>1
  <2>5. Recorded
    BY <2>1, QuietRecord
  <2>6. \A t \in Servers : Confirms(t)'
    BY <2>3, <2>4, <2>5, ConfirmsKept
  <2>7. Attempts(s)' /\ \A q \in Procs \ {s} : pc'[q] = pc[q]
    BY <1>0, <2>1 DEF Attempts, Attempting
  <2> QED BY <1>0, <2>1, <2>5, <2>6, <2>7, RecordStepOf
<1>10. CASE NextJob(s)
  <2>1. PICK j \in jobs[s] :
          /\ jobs' = [jobs EXCEPT ![s] = jobs[s] \ {j}]
          /\ \/ j.att = "pending_confirm" /\ MayWrite(s, j.row, "success", 0) /\ UNCHANGED <<pc,
                                                                                             job>>
             \/ MayWrite(s, j.row, "error", 0) /\ UNCHANGED <<pc, job>>
             \/ Goto(s, "jobs", "mark") /\ job' = [job EXCEPT ![s] = j] /\ UNCHANGED rows
    BY <1>10 DEF NextJob
  <2>2. pc[s] = "jobs" /\ UNCHANGED <<posts, answer>>
    BY <1>10 DEF NextJob, chain
  <2>3. j.row \in DOMAIN rows /\ {"success", "error"} \subseteq Status /\ 0 \in 0..MaxAttempts
    BY ConstantFacts DEF RowInv, TableInv, Status
  <2>4. Recorded
    <3>1. j.att = "pending_confirm" => Posted(rows[j.row].of)
      BY DEF RecordInv, Confirms
    <3>2. \/ UNCHANGED rows
          \/ AttestationWrite(j.row, "error", 0)
          \/ j.att = "pending_confirm" /\ AttestationWrite(j.row, "success", 0)
      BY <1>0, <2>1, <2>3, MayWriteFacts
    <3> QED BY <2>2, <2>3, <3>1, <3>2, WriteIsRecorded
  <2>5. \A t \in Servers : Confirms(t)'
    <3>1. \A t \in Servers : jobs'[t] \subseteq jobs[t]
      BY <1>0, <2>1
    <3> QED BY <2>4, <3>1, ConfirmsKept
  <2>6. /\ pc'[s] \in {"jobs", "mark"}
        /\ \A q \in Procs \ {s} : pc'[q] = pc[q] /\ job'[q] = job[q]
    BY <1>0, <2>1, <2>2 DEF Goto
  <2>7. Attempts(s)'
    BY <2>6 DEF Attempts, Attempting
  <2> QED BY <1>0, <2>2, <2>4, <2>5, <2>6, <2>7, RecordStepOf
<1>11. CASE AttemptAttestation(s)
  BY <1>0, <1>11, AttemptKeepsRecord
<1> QED BY <1>4, <1>5, <1>6, <1>7, <1>8, <1>9, <1>10, <1>11 DEF ServerStep

LEMMA CrashKeepsRecord ==
  ASSUME RowInv, RecordInv, NEW s \in Servers, Crash(s)
  PROVE  RecordInv'
<1>1. /\ UNCHANGED <<rows, posts>> /\ pc'[s] = "boot"
      /\ \A p \in Procs \ Dead(s) : pc'[p] = pc[p] /\ job'[p] = job[p] /\ answer'[p] = answer[p]
      /\ \A p \in Dead(s) \ {s} : pc'[p] = "done"
      /\ jobs'[s] = {} /\ \A t \in Servers \ {s} : jobs'[t] = jobs[t]
  BY CrashFacts, ZenonT(60) DEF RowInv
<1>2. \A p \in Procs : Attempts(p)'
  BY <1>1 DEF RecordInv, Attempts, Attempting, Posted, TradeOf
<1>3. \A t \in Servers : Confirms(t)'
  BY <1>1 DEF RecordInv, Confirms, Posted
<1> QED BY <1>1, <1>2, <1>3 DEF RecordInv, OnRecord, Posted, HasRow

LEMMA RecordInit == Init => RecordInv
<1> SUFFICES ASSUME Init PROVE RecordInv
  OBVIOUS
<1>1. \A p \in Procs : pc[p] \in {"boot", "new"}
  BY DEF Init
<1>2. \A t \in Calls \cup Legacy : ~Posted(t)
  BY DEF Init, Posted
<1>3. \A s \in Servers : jobs[s] = {}
  BY DEF Init
<1> QED BY <1>1, <1>2, <1>3, LegacyRows DEF RecordInv, OnRecord, Attempts, Attempting, Confirms

LEMMA RecordStep == RowInv /\ RecordInv /\ [Next]_vars => RecordInv'
<1> SUFFICES ASSUME RowInv, RecordInv, [Next]_vars PROVE RecordInv'
  OBVIOUS
<1>1. CASE UNCHANGED vars
  BY <1>1 DEF vars, tables, passVars, attempt, chain, RecordInv, OnRecord, Attempts, Confirms,
      Posted, HasRow, TradeOf
<1>2. CASE \E r \in Calls : SubmitOrder(r)
  BY <1>2, CallKeepsRecord
<1>3. CASE \E s \in Servers : ServerStep(s) \/ Crash(s)
  BY <1>3, ServerKeepsRecord, CrashKeepsRecord
<1> QED BY <1>1, <1>2, <1>3 DEF Next

\* A trade that was posted is marked, and a success is on the chain, with any number of servers.
THEOREM AttestationsAreRecorded == Spec => [](PostsAreMarked /\ SuccessIsOnChain)
<1>1. RecordInv => PostsAreMarked /\ SuccessIsOnChain
  BY DEF RecordInv, OnRecord, Posted, PostsAreMarked, SuccessIsOnChain
<1>2. Init => RowInv /\ RecordInv
  BY RowInit, RecordInit
<1>3. (RowInv /\ RecordInv) /\ [Next]_vars => (RowInv /\ RecordInv)'
  BY RowStep, RecordStep
<1> QED BY <1>1, <1>2, <1>3, PTL DEF Spec

-----------------------------------------------------------------------------
(* One server: the cap on attempts, and the finality of outcomes.  A row of a call that came after *)
(* the start-up, or of a legacy fill, is written by one process at a time. *)

OneServer == \A s, t \in Servers : s = t
Late == Calls \ EarlyCalls
Settled == Late \cup Legacy
Recovering == {"jobs"} \cup Attempting

\* What a job says of its row is still so.
Fresh(j) ==
  rows[j.row].of \in Settled =>
    /\ j.att = rows[j.row].att /\ j.att \notin Terminal
    /\ j.att = "pending" => j.tries = rows[j.row].tries

\* The attempts a row accounts for.
Budget(i) ==
  IF rows[i].att \in {"none", "waiting_for_gas"} THEN 0
  ELSE IF rows[i].att = "pending" THEN rows[i].tries ELSE MaxAttempts
WithinBudget(i) ==
  /\ rows[i].data = "none" => rows[i].of \in Legacy
  /\ rows[i].of \in Legacy => rows[i].att = "disabled"
  /\ rows[i].of \in Late => spent[rows[i].of] <= Budget(i)

\* An attempt is preceded by its marker, with one try more.
Trying(p) ==
  /\ pc[p] = "mark" => Fresh(job[p]) /\ job[p].att # "pending_confirm"
  /\ pc[p] \in Attempting \ {"mark"} /\ TradeOf(p) \in Settled =>
       /\ rows[job[p].row].att = "pending" /\ rows[job[p].row].tries = job[p].tries + 1
       /\ pc[p] = "post" => spent[TradeOf(p)] <= job[p].tries
       /\ pc[p] = "settle" /\ answer[p] = "funds" => spent[TradeOf(p)] = 0

\* Calls wait for the start-up, and have not touched their row before they attest it.
Waiting(r) ==
  r \in Late =>
    /\ pc[r] \notin {"new", "done"} => Ready(at[r])
    /\ pc[r] \in {"latest", "finalize", "unlock", "attest", "mark"} =>
         \A i \in DOMAIN rows : rows[i].of = r => rows[i].att = "none"

\* Only the start-up recovers attestations, each row once.
Passes(s) ==
  /\ ~startup[s] => pc[s] \in {"idle", "resolve", "hash", "evidence", "column"}
  /\ pc[s] \in Recovering =>
       /\ \A j \in jobs[s] : Fresh(j)
       /\ \A j, k \in jobs[s] : j.row = k.row => j = k
  /\ pc[s] \in Attempting => \A j \in jobs[s] : j.row # job[s].row

CapInv ==
  /\ \A i \in DOMAIN rows : WithinBudget(i)
  /\ \A t \in Late : ~HasRow(t) => spent[t] = 0
  /\ \A p \in Procs : Trying(p)
  /\ \A r \in Calls : Waiting(r)
  /\ \A s \in Servers : Passes(s)

\* Who may write the attestation of row k.
Engaged(p, k) == IF p \in Calls THEN rows[k].of = p /\ pc[p] \notin {"new", "done"} ELSE pc[p] \in Recovering

LEMMA EngagedAlone ==
  ASSUME OneServer, RowInv, CapInv, NEW p \in Procs, NEW q \in Procs, NEW k \in DOMAIN rows,
         rows[k].of \in Settled, Engaged(p, k), Engaged(q, k)
  PROVE  p = q
<1> SUFFICES ASSUME p # q PROVE FALSE
  OBVIOUS
<1>0. /\ Calls \cap Servers = {} /\ Legacy \cap Calls = {} /\ p \in Calls \cup Servers /\ q \in Calls \cup Servers
      /\ \A r \in Calls : at[r] \in Servers
  BY EvidenceAssumption DEF Procs, RowInv, SharedTypes
<1>1. ASSUME NEW r \in Calls, NEW s \in Servers, Engaged(r, k), Engaged(s, k) PROVE FALSE
  <2>1. r \in Late /\ pc[r] \notin {"new", "done"} /\ pc[s] \in Recovering
    BY <1>0, <1>1 DEF Engaged, Settled, Late
  <2>2. Ready(s)
    BY <1>0, <2>1 DEF CapInv, Waiting, OneServer
  <2>3. pc[s] # "idle" /\ startup[s]
    BY <2>1 DEF CapInv, Passes, Recovering, Attempting
  <2> QED BY <2>2, <2>3 DEF Ready
<1>2. CASE p \in Calls /\ q \in Calls
  BY <1>2 DEF Engaged
<1>3. CASE p \in Servers /\ q \in Servers
  BY <1>3 DEF OneServer
<1> QED BY <1>0, <1>1, <1>2, <1>3

\* A step of p does to row k what p may do to it.
Kept(p, k) ==
  /\ rows'[k].of = rows[k].of /\ (rows'[k].data = "none" => rows[k].data = "none")
  /\ \/ /\ rows'[k].att = rows[k].att /\ (rows[k].att = "pending" => rows'[k].tries = rows[k].tries)
        /\ spent'[rows[k].of] = spent[rows[k].of]
     \/ /\ Engaged(p, k) /\ WithinBudget(k)'
        /\ rows[k].of \in Settled => rows[k].att \notin Terminal \/ rows'[k].att = rows[k].att

Final == \A i \in DOMAIN rows : rows[i].of \in Settled /\ rows[i].att \in Terminal => rows'[i].att = rows[i].att

LEMMA CapStepOf ==
  ASSUME OneServer, RowInv, CapInv, NEW p \in Procs, NEW to, pc' = [pc EXCEPT ![p] = to],
         \A k \in DOMAIN rows : k \in DOMAIN rows' /\ Kept(p, k),
         \A k \in DOMAIN rows' \ DOMAIN rows : rows'[k].att = "none" /\ WithinBudget(k)',
         \A t \in Late : HasRow(t) \/ spent'[t] = spent[t],
         \A q \in Procs \ {p} : job'[q] = job[q] /\ answer'[q] = answer[q],
         \A s \in Servers \ {p} : jobs'[s] = jobs[s] /\ startup'[s] = startup[s],
         \A r \in Calls \ {p} : at'[r] = at[r],
         Trying(p)', p \in Calls => Waiting(p)',
         p \in Servers => Passes(p)' /\ (Ready(p) => Ready(p)')
  PROVE  CapInv' /\ Final
<1>0. /\ Calls \cap Servers = {} /\ Calls \subseteq Procs /\ Servers \subseteq Procs
      /\ \A r \in Calls : at[r] \in Servers
  BY ConstantFacts DEF RowInv, SharedTypes
<1>1. \A q \in Procs \ {p} : pc'[q] = pc[q]
  BY DEF RowInv, ProcTypes
<1>2. Final
  BY DEF Kept, Final
<1>3. ASSUME NEW k \in DOMAIN rows' PROVE WithinBudget(k)'
  <2>1. CASE k \in DOMAIN rows
    <3>1. WithinBudget(k) /\ Kept(p, k)
      BY <2>1 DEF CapInv
    <3>2. CASE WithinBudget(k)'
      BY <3>2
    <3>3. CASE /\ rows'[k].att = rows[k].att /\ (rows[k].att = "pending" => rows'[k].tries = rows[k].tries)
               /\ spent'[rows[k].of] = spent[rows[k].of]
      BY <3>1, <3>3 DEF Kept, WithinBudget, Budget
    <3> QED BY <3>1, <3>2, <3>3 DEF Kept
  <2> QED BY <2>1
<1>4. ASSUME NEW t \in Late, ~HasRow(t)' PROVE spent'[t] = 0
  <2>1. ~HasRow(t)
    BY <1>4 DEF HasRow, Kept
  <2> QED BY <2>1 DEF CapInv
<1>5. ASSUME NEW q \in Procs, q # p, NEW k \in DOMAIN rows, Engaged(q, k), rows[k].of \in Settled
      PROVE  /\ rows'[k].att = rows[k].att /\ (rows[k].att = "pending" => rows'[k].tries = rows[k].tries)
             /\ spent'[rows[k].of] = spent[rows[k].of]
  BY <1>5, EngagedAlone DEF Kept
<1>6. ASSUME NEW q \in Procs, q # p PROVE Trying(q)'
  <2>0. Trying(q) /\ pc'[q] = pc[q] /\ job'[q] = job[q] /\ answer'[q] = answer[q]
    BY <1>1, <1>6 DEF CapInv
  <2>1. CASE pc[q] \notin Attempting
    BY <2>0, <2>1 DEF Trying, Attempting
  <2>2. CASE pc[q] \in Attempting
    <3>1. job[q].row \in DOMAIN rows /\ Engaged(q, job[q].row)
      BY <2>2 DEF RowInv, TableInv, Engaged, Recovering, Attempting
    <3>2. rows'[job[q].row].of = rows[job[q].row].of
      BY <3>1 DEF Kept
    <3>3. CASE rows[job[q].row].of \notin Settled
      BY <2>0, <3>2, <3>3 DEF Trying, Fresh, TradeOf
    <3>4. CASE rows[job[q].row].of \in Settled
      <4>1. LET k == job[q].row IN
            /\ rows'[k].att = rows[k].att /\ (rows[k].att = "pending" => rows'[k].tries = rows[k].tries)
            /\ spent'[rows[k].of] = spent[rows[k].of]
        BY <1>5, <1>6, <3>1, <3>4
      <4> QED BY <2>0, <3>2, <3>4, <4>1 DEF Trying, Fresh, TradeOf
    <3> QED BY <3>3, <3>4
  <2> QED BY <2>1, <2>2
<1>7. ASSUME NEW r \in Calls, r # p PROVE Waiting(r)'
  <2> SUFFICES ASSUME r \in Late PROVE Waiting(r)'
    BY DEF Waiting
  <2>0. Waiting(r) /\ pc'[r] = pc[r] /\ at'[r] = at[r] /\ at[r] \in Servers /\ r \in Procs
    BY <1>0, <1>1, <1>7 DEF CapInv
  <2>1. Ready(at[r]) => Ready(at[r])'
    <3>1. CASE p \in Servers
      BY <2>0, <3>1 DEF OneServer
    <3>2. CASE p \notin Servers
      BY <1>0, <1>1, <2>0, <3>2 DEF Ready
    <3> QED BY <3>1, <3>2
  <2>2. ASSUME pc[r] \in {"latest", "finalize", "unlock", "attest", "mark"},
               NEW i \in DOMAIN rows', rows'[i].of = r
        PROVE  rows'[i].att = "none"
    <3>1. CASE i \in DOMAIN rows
      <4>1. rows[i].of = r /\ rows[i].att = "none" /\ r \in Settled
        BY <2>0, <2>2, <3>1 DEF Waiting, Kept, Settled
      <4>2. Engaged(r, i)
        BY <2>2, <4>1 DEF Engaged
      <4> QED BY <1>5, <1>7, <2>0, <3>1, <4>1, <4>2
    <3> QED BY <3>1
  <2> QED BY <2>0, <2>1, <2>2 DEF Waiting
<1>8. ASSUME NEW s \in Servers, s # p PROVE Passes(s)'
  <2>0. /\ Passes(s) /\ pc'[s] = pc[s] /\ job'[s] = job[s] /\ jobs'[s] = jobs[s] /\ startup'[s] = startup[s]
        /\ s \in Procs /\ s \notin Calls
    BY <1>0, <1>1, <1>8 DEF CapInv
  <2>1. ASSUME NEW j \in jobs[s], pc[s] \in Recovering PROVE Fresh(j)'
    <3>1. Fresh(j) /\ j.row \in DOMAIN rows /\ Engaged(s, j.row)
      BY <2>0, <2>1 DEF Passes, RowInv, TableInv, Engaged
    <3>2. rows'[j.row].of = rows[j.row].of
      BY <3>1 DEF Kept
    <3> QED BY <1>5, <1>8, <2>0, <3>1, <3>2 DEF Fresh
  <2> QED BY <2>0, <2>1 DEF Passes
<1>9. /\ \A q \in Procs : Trying(q)'
      /\ \A r \in Calls : Waiting(r)'
      /\ \A s \in Servers : Passes(s)'
  BY <1>6, <1>7, <1>8
<1> QED BY <1>2, <1>3, <1>4, <1>9 DEF CapInv, Late

\* Only row i's attestation is written, by the process that attempts it.
LEMMA WriteIsKept ==
  ASSUME RowInv, CapInv, NEW p \in Procs, NEW i \in DOMAIN rows, NEW a, NEW n, UNCHANGED spent,
         UNCHANGED rows \/ AttestationWrite(i, a, n),
         Engaged(p, i), rows[i].of \notin Legacy, a = rows[i].att \/ rows[i].att \notin Terminal \/ rows[i].of \notin Settled,
         rows[i].of \in Late => spent[rows[i].of] <= IF a \in {"none", "waiting_for_gas"} THEN 0 ELSE IF a = "pending" THEN n ELSE MaxAttempts
  PROVE  \A k \in DOMAIN rows : k \in DOMAIN rows' /\ Kept(p, k)
<1>1. CASE UNCHANGED rows
  BY <1>1 DEF Kept
<1>2. CASE AttestationWrite(i, a, n)
  <2>1. ASSUME NEW k \in DOMAIN rows, k # i PROVE k \in DOMAIN rows' /\ Kept(p, k)
    BY <1>2, <2>1 DEF AttestationWrite, Kept
  <2>2. WithinBudget(i)
    BY DEF CapInv
  <2>3. WithinBudget(i)'
    BY <1>2, <2>2 DEF AttestationWrite, SameFill, WithinBudget, Budget, Late
  <2>4. i \in DOMAIN rows' /\ Kept(p, i)
    BY <1>2, <2>3 DEF AttestationWrite, SameFill, Kept
  <2> QED BY <2>1, <2>4
<1> QED BY <1>1, <1>2

LEMMA QuietKept ==
  ASSUME UNCHANGED <<rows, spent>>, NEW p
  PROVE  /\ \A k \in DOMAIN rows : k \in DOMAIN rows' /\ Kept(p, k)
         /\ \A k \in DOMAIN rows' \ DOMAIN rows : rows'[k].att = "none" /\ WithinBudget(k)'
         /\ \A t \in Late : HasRow(t) \/ spent'[t] = spent[t]
BY DEF Kept

\* Nothing that an attempt counts on is below its bounds.
LEMMA BudgetFacts ==
  ASSUME RowInv, CapInv, NEW i \in DOMAIN rows
  PROVE  /\ rows[i].tries \in 0..MaxAttempts /\ rows[i].of \in Calls \cup Legacy
         /\ spent[rows[i].of] \in Nat
         /\ rows[i].of \in Late => spent[rows[i].of] <= MaxAttempts
<1>1. /\ rows[i] \in RowSet /\ spent \in [Calls \cup Legacy -> Nat] /\ WithinBudget(i)
  BY TableFacts DEF RowInv, SharedTypes, CapInv
<1> QED BY <1>1, ConstantFacts DEF RowSet, WithinBudget, Budget

LEMMA AttemptKeepsCap ==
  ASSUME OneServer, RowInv, CapInv, NEW p \in Procs, AttemptAttestation(p)
  PROVE  CapInv' /\ Final
<1> DEFINE i == job[p].row
<1>0. /\ Calls \cap Servers = {} /\ Calls \subseteq Procs /\ Servers \subseteq Procs /\ Legacy \cap Calls = {}
      /\ MaxAttempts \in Nat \ {0}
  BY EvidenceAssumption DEF Procs
<1>1. /\ UNCHANGED <<jobs, startup,
                     at>> /\ pc[p] \in Attempting /\ i \in DOMAIN rows /\ IsTable(rows)
      /\ p \in Calls => rows[i].of = p
      /\ \E to \in {"done", "idle", "jobs", "post", "settle", "confirm"} : pc' = [pc EXCEPT ![p] = to]
  BY AttemptTypes DEF passVars, RowInv, TableInv, SharedTypes
<1>2. \A a \in Status, n \in 0..MaxAttempts : MayWrite(p, i, a, n) => UNCHANGED rows \/ AttestationWrite(i, a, n)
  BY <1>1, MayWriteFacts
<1>3. DOMAIN pc = Procs /\ DOMAIN job = Procs /\ DOMAIN answer = Procs /\ job[p] \in JobSet
  BY DEF RowInv, ProcTypes
<1>4. 0 \in 0..MaxAttempts /\ {"error", "pending", "pending_confirm"} \subseteq Status
  BY ConstantFacts DEF Status
<1>5. Trying(p) /\ WithinBudget(i) /\ TradeOf(p) = rows[i].of
  BY <1>1 DEF CapInv, TradeOf
<1>6. Engaged(p, i)
  BY <1>1 DEF Engaged, Recovering, Attempting
<1>7. rows[i].of \notin Legacy
  BY <1>5, <1>1 DEF Trying, WithinBudget, Fresh, Settled, Terminal, Attempting
<1>8. /\ rows[i].tries \in 0..MaxAttempts /\ spent[rows[i].of] \in Nat
      /\ rows[i].of \in Late => spent[rows[i].of] <= MaxAttempts
  BY <1>1, BudgetFacts
<1>9. /\ rows[i].of \in Settled <=> rows[i].of \in Late
      /\ rows[i].of \in Settled => rows[i].att \notin Terminal
  BY <1>1, <1>5, <1>7 DEF Settled, Trying, Fresh, Terminal, Attempting
<1>10. ASSUME NEW a, NEW n, UNCHANGED rows \/ AttestationWrite(i, a, n), UNCHANGED spent,
              rows[i].of \in Late => spent[rows[i].of] <= IF a \in {"none", "waiting_for_gas"} THEN 0 ELSE IF a = "pending" THEN n ELSE MaxAttempts
       PROVE  /\ \A k \in DOMAIN rows : k \in DOMAIN rows' /\ Kept(p, k)
              /\ DOMAIN rows' = DOMAIN rows /\ \A k \in DOMAIN rows \ {i} : rows'[k] = rows[k]
  <2>1. \A k \in DOMAIN rows : k \in DOMAIN rows' /\ Kept(p, k)
    BY <1>1, <1>6, <1>7, <1>9, <1>10, WriteIsKept
  <2> QED BY <1>10, <2>1 DEF AttestationWrite
\* The calls' and the server's own clauses.
<1>11. ASSUME UNCHANGED job \/ \E j : job' = [job EXCEPT ![p] = j],
              DOMAIN rows' = DOMAIN rows, \A k \in DOMAIN rows \ {i} : rows'[k] = rows[k],
              pc'[p] \in Attempting \ {"mark"} => UNCHANGED job,
              NEW to \in {"done", "idle", "jobs", "post", "settle", "confirm"}, pc' = [pc EXCEPT ![p] = to]
       PROVE  /\ p \in Calls => Waiting(p)'
              /\ p \in Servers => Passes(p)' /\ (Ready(p) => Ready(p)')
  <2>1. ASSUME p \in Calls PROVE Waiting(p)'
    <3>1. at[p] \in Servers /\ at'[p] = at[p] /\ pc'[at[p]] = pc[at[p]] /\ pc'[p] = to
      BY <1>0, <1>1, <1>3, <1>11, <2>1 DEF RowInv, SharedTypes
    <3>2. p \in Late => Ready(at[p])
      BY <1>1, <2>1 DEF CapInv, Waiting, Attempting
    <3> QED BY <1>1, <3>1, <3>2 DEF Waiting, Ready
  <2>2. ASSUME p \in Servers PROVE Passes(p)' /\ (Ready(p) => Ready(p)')
    <3>1. Passes(p) /\ pc'[p] = to
      BY <1>3, <1>11, <2>2 DEF CapInv
    <3>2. startup[p] /\ pc[p] # "idle" /\ pc[p] \in Recovering
      BY <1>1, <3>1 DEF Passes, Attempting, Recovering
    <3>3. \A j \in jobs[p] : j.row \in DOMAIN rows /\ j.row # i /\ Fresh(j)
      BY <1>1, <2>2, <3>1, <3>2 DEF Passes, RowInv, TableInv
    <3>4. \A j \in jobs'[p] : Fresh(j)'
      BY <1>1, <1>11, <3>3 DEF Fresh
    <3>5. pc'[p] \in Attempting => UNCHANGED job
      BY <1>11, <3>1 DEF Attempting
    <3> QED BY <1>1, <3>1, <3>2, <3>3, <3>4, <3>5 DEF Passes, Ready
  <2> QED BY <2>1, <2>2
<1>12. {"done", "idle", "jobs"} \cap Attempting = {}
  BY DEF Attempting
\* Whatever the attempt writes, its process leaves the row.
<1>13. ASSUME NEW a, NEW n, UNCHANGED rows \/ AttestationWrite(i, a, n), UNCHANGED spent,
              rows[i].of \in Late => spent[rows[i].of] <= IF a \in {"none", "waiting_for_gas"} THEN 0 ELSE IF a = "pending" THEN n ELSE MaxAttempts,
              NEW to \in {"done", "idle", "jobs"}, pc' = [pc EXCEPT ![p] = to],
              job' = [job EXCEPT ![p] = NoJob], answer' = [answer EXCEPT ![p] = "none"]
       PROVE  CapInv' /\ Final
  <2>1. /\ \A k \in DOMAIN rows : k \in DOMAIN rows' /\ Kept(p, k)
        /\ DOMAIN rows' = DOMAIN rows /\ \A k \in DOMAIN rows \ {i} : rows'[k] = rows[k]
    BY <1>10, <1>13
  <2>2. pc'[p] = to /\ pc'[p] \notin Attempting
    BY <1>3, <1>12, <1>13
  <2>3. Trying(p)'
    BY <2>2 DEF Trying, Attempting
  <2>4. /\ p \in Calls => Waiting(p)'
        /\ p \in Servers => Passes(p)' /\ (Ready(p) => Ready(p)')
    BY <1>11, <1>13, <2>1, <2>2
  <2>5. \A q \in Procs \ {p} : job'[q] = job[q] /\ answer'[q] = answer[q]
    BY <1>3, <1>13
  <2> QED BY <1>1, <1>13, <2>1, <2>3, <2>4, <2>5, CapStepOf
<1>14. CASE Mark(p)
  <2>1. /\ pc[p] = "mark" /\ UNCHANGED spent
        /\ \/ /\ MayWrite(p, i, "error", 0) \/ WriteFails(p)
              /\ \E to \in {"done", "idle", "jobs"} : pc' = [pc EXCEPT ![p] = to]
              /\ job' = [job EXCEPT ![p] = NoJob] /\ answer' = [answer EXCEPT ![p] = "none"]
           \/ /\ ~(job[p].att = "pending" /\ job[p].tries >= MaxAttempts)
              /\ Writes(p, i, "pending", job[p].tries + 1)
              /\ pc' = [pc EXCEPT ![p] = "post"] /\ UNCHANGED <<job, answer>>
    BY <1>14 DEF Mark, EndAttempt, After, Goto, attempt, chain
  <2>2. CASE /\ MayWrite(p, i, "error", 0) \/ WriteFails(p)
             /\ \E to \in {"done", "idle", "jobs"} : pc' = [pc EXCEPT ![p] = to]
             /\ job' = [job EXCEPT ![p] = NoJob] /\ answer' = [answer EXCEPT ![p] = "none"]
    <3>1. UNCHANGED rows \/ AttestationWrite(i, "error", 0)
      BY <1>2, <1>4, <2>2 DEF WriteFails
    <3> QED BY <1>8, <1>13, <2>1, <2>2, <3>1
  <2>3. CASE /\ ~(job[p].att = "pending" /\ job[p].tries >= MaxAttempts)
             /\ Writes(p, i, "pending", job[p].tries + 1)
             /\ pc' = [pc EXCEPT ![p] = "post"] /\ UNCHANGED <<job, answer>>
    <3>0. job[p].tries + 1 \in 0..MaxAttempts /\ job[p].tries \in Nat
      BY <1>0, <1>3, <2>3 DEF JobSet
    <3>1. AttestationWrite(i, "pending", job[p].tries + 1)
      <4>1. rows' = [rows EXCEPT ![i].att = "pending", ![i].tries = job[p].tries + 1]
        BY <2>3 DEF Writes
      <4> QED BY <1>1, <1>4, <3>0, <4>1, WriteFacts
    <3>2. rows[i].of \in Settled => spent[rows[i].of] <= job[p].tries
      <4>1. Fresh(job[p]) /\ job[p].att # "pending_confirm" /\ job[p].att \in Status
        BY <1>3, <1>5, <2>1 DEF Trying, JobSet
      <4>2. rows[i].of \in Settled => Budget(i) <= job[p].tries
        BY <1>8, <3>0, <4>1 DEF Fresh, Budget, Terminal, Status
      <4>3. Budget(i) \in Nat
        BY <1>0, <1>8 DEF Budget
      <4> QED BY <1>5, <1>8, <1>9, <3>0, <4>2, <4>3 DEF WithinBudget
    <3>3. /\ \A k \in DOMAIN rows : k \in DOMAIN rows' /\ Kept(p, k)
          /\ DOMAIN rows' = DOMAIN rows /\ \A k \in DOMAIN rows \ {i} : rows'[k] = rows[k]
      <4>1. rows[i].of \in Late => spent[rows[i].of] <= job[p].tries + 1
        BY <1>8, <1>9, <3>0, <3>2
      <4> QED BY <1>10, <2>1, <3>1, <4>1
    <3>4. pc'[p] = "post" /\ rows'[i].of = rows[i].of /\ rows'[i].att = "pending" /\ rows'[i].tries = job[p].tries + 1
      BY <1>1, <1>3, <2>3, <3>1 DEF AttestationWrite, SameFill
    <3>5. Trying(p)'
      BY <2>1, <2>3, <3>2, <3>4 DEF Trying, TradeOf, Settled, Late
    <3>6. /\ p \in Calls => Waiting(p)'
          /\ p \in Servers => Passes(p)' /\ (Ready(p) => Ready(p)')
      BY <1>11, <2>3, <3>3
    <3>7. \A q \in Procs \ {p} : job'[q] = job[q] /\ answer'[q] = answer[q]
      BY <2>3
    <3> QED BY <1>1, <2>1, <2>3, <3>3, <3>5, <3>6, <3>7, CapStepOf
  <2> QED BY <2>1, <2>2, <2>3
<1>15. CASE Post(p)
  <2>1. /\ pc[p] = "post" /\ pc' = [pc EXCEPT ![p] = "settle"] /\ UNCHANGED <<rows, job>>
        /\ \E a : /\ answer' = [answer EXCEPT ![p] = a]
                  /\ \/ a # "funds" /\ spent' = [spent EXCEPT ![TradeOf(p)] = spent[TradeOf(p)] + 1]
                     \/ a # "funds" /\ UNCHANGED spent
                     \/ spent' = [spent EXCEPT ![TradeOf(p)] = 0]
    BY <1>15 DEF Post, Goto, Carried, chain, tables
  <2>2. PICK a : /\ answer' = [answer EXCEPT ![p] = a]
                 /\ \/ a # "funds" /\ spent' = [spent EXCEPT ![TradeOf(p)] = spent[TradeOf(p)] + 1]
                    \/ a # "funds" /\ UNCHANGED spent
                    \/ spent' = [spent EXCEPT ![TradeOf(p)] = 0]
    BY <2>1
  <2>3. /\ DOMAIN spent = Calls \cup Legacy /\ TradeOf(p) \in Calls \cup Legacy /\ TradeOf(p)' = TradeOf(p)
        /\ pc'[p] = "settle" /\ answer'[p] = a /\ job[p].tries \in Nat
    <3>1. TradeOf(p) \in Calls \cup Legacy
      BY <1>1, <1>5, BudgetFacts
    <3>2. DOMAIN spent = Calls \cup Legacy
      BY DEF RowInv, SharedTypes
    <3> QED BY <1>3, <2>1, <2>2, <3>1, <3>2 DEF TradeOf, JobSet
  <2>4. /\ \A t \in Calls \cup Legacy : t # TradeOf(p) => spent'[t] = spent[t]
        /\ spent'[TradeOf(p)] \in {0, spent[TradeOf(p)], spent[TradeOf(p)] + 1}
        /\ a = "funds" => spent'[TradeOf(p)] = 0
    BY <2>2, <2>3
  <2>5. rows[i].of \in Settled => rows[i].att = "pending" /\ rows[i].tries = job[p].tries + 1 /\ spent[rows[i].of] <= job[p].tries
    BY <1>5, <2>1 DEF Trying, Attempting
  <2>6. WithinBudget(i)'
    <3>1. rows[i].of \in Late => spent'[rows[i].of] <= job[p].tries + 1
      BY <1>5, <1>8, <1>9, <2>3, <2>4, <2>5
    <3> QED BY <1>5, <1>7, <1>9, <2>1, <2>5, <3>1 DEF WithinBudget, Budget
  <2>7. ASSUME NEW k \in DOMAIN rows PROVE k \in DOMAIN rows' /\ Kept(p, k)
    <3>1. CASE k = i
      BY <1>1, <1>6, <2>1, <2>6, <3>1 DEF Kept
    <3>2. CASE k # i
      <4>1. rows[k].of # TradeOf(p) /\ rows[k].of \in Calls \cup Legacy
        BY <1>1, <1>5, <3>2, BudgetFacts DEF RowInv, TableInv, DistinctRows
      <4> QED BY <2>1, <2>4, <4>1 DEF Kept
    <3> QED BY <3>1, <3>2
  <2>8. \A t \in Late : HasRow(t) \/ spent'[t] = spent[t]
    BY <1>1, <1>5, <2>4 DEF HasRow, Late
  <2>9. Trying(p)'
    BY <1>5, <2>1, <2>3, <2>4, <2>5 DEF Trying, TradeOf
  <2>10. /\ p \in Calls => Waiting(p)'
         /\ p \in Servers => Passes(p)' /\ (Ready(p) => Ready(p)')
    BY <1>11, <2>1
  <2>11. \A q \in Procs \ {p} : job'[q] = job[q] /\ answer'[q] = answer[q]
    BY <2>1
  <2> QED BY <1>1, <2>1, <2>7, <2>8, <2>9, <2>10, <2>11, CapStepOf
<1>16. CASE Settle(p)
  <2> DEFINE n == IF Outcome(p) = "pending" THEN job[p].tries + 1 ELSE 0
  <2>1. /\ pc[p] = "settle" /\ UNCHANGED spent
        /\ \/ /\ Writes(p, i, Outcome(p), n) \/ UNCHANGED rows
              /\ \E to \in {"done", "idle", "jobs"} : pc' = [pc EXCEPT ![p] = to]
              /\ job' = [job EXCEPT ![p] = NoJob] /\ answer' = [answer EXCEPT ![p] = "none"]
           \/ pc' = [pc EXCEPT ![p] = "confirm"] /\ UNCHANGED <<job, answer, rows>>
    BY <1>16 DEF Settle, EndAttempt, After, Goto, attempt, chain, WriteFails
  <2>2. Outcome(p) \in Status \ {"none"} /\ n \in 0..MaxAttempts
    BY <1>0, <1>3 DEF Outcome, Status, JobSet
  <2>3. rows[i].of \in Late => spent[rows[i].of] <= IF Outcome(p) \in {"none", "waiting_for_gas"} THEN 0 ELSE IF Outcome(p) = "pending" THEN n ELSE MaxAttempts
    <3>1. rows[i].of \in Late => /\ rows[i].att = "pending" /\ rows[i].tries = job[p].tries + 1
                                 /\ answer[p] = "funds" => spent[rows[i].of] = 0
      BY <1>5, <1>9, <2>1 DEF Trying, Attempting
    <3>2. Outcome(p) = "waiting_for_gas" => answer[p] = "funds"
      BY DEF Outcome
    <3>3. rows[i].of \in Late => spent[rows[i].of] <= rows[i].tries
      BY <1>5, <3>1 DEF WithinBudget, Budget
    <3> QED BY <1>8, <2>2, <3>1, <3>2, <3>3
  <2>4. CASE /\ Writes(p, i, Outcome(p), n) \/ UNCHANGED rows
             /\ \E to \in {"done", "idle", "jobs"} : pc' = [pc EXCEPT ![p] = to]
             /\ job' = [job EXCEPT ![p] = NoJob] /\ answer' = [answer EXCEPT ![p] = "none"]
    <3> HIDE DEF n
    <3>1. UNCHANGED rows \/ AttestationWrite(i, Outcome(p), n)
      BY <1>2, <2>2, <2>4 DEF MayWrite
    <3> QED BY <1>13, <2>1, <2>3, <2>4, <3>1
  <2>5. CASE pc' = [pc EXCEPT ![p] = "confirm"] /\ UNCHANGED <<job, answer, rows>>
    <3>1. pc'[p] = "confirm"
      BY <1>3, <2>5
    <3>2. Trying(p)'
      BY <1>5, <2>1, <2>5, <3>1 DEF Trying, TradeOf, Attempting
    <3>3. /\ p \in Calls => Waiting(p)'
          /\ p \in Servers => Passes(p)' /\ (Ready(p) => Ready(p)')
      BY <1>11, <2>5
    <3> QED BY <1>1, <2>1, <2>5, <3>2, <3>3, QuietKept, CapStepOf
  <2> QED BY <2>1, <2>4, <2>5
<1>17. CASE Confirm(p)
  <2>1. /\ pc[p] = "confirm" /\ UNCHANGED spent /\ MayWrite(p, i, "pending_confirm", 0)
        /\ \E to \in {"done", "idle", "jobs"} : pc' = [pc EXCEPT ![p] = to]
        /\ job' = [job EXCEPT ![p] = NoJob] /\ answer' = [answer EXCEPT ![p] = "none"]
    BY <1>17 DEF Confirm, EndAttempt, After, Goto, chain
  <2>2. UNCHANGED rows \/ AttestationWrite(i, "pending_confirm", 0)
    BY <1>2, <1>4, <2>1
  <2> QED BY <1>8, <1>13, <2>1, <2>2
<1> QED BY <1>14, <1>15, <1>16, <1>17 DEF AttemptAttestation

\* A step that writes no attestation, and may add the row of a trade that has none.
LEMMA NoAttestation ==
  ASSUME RowInv, CapInv, NEW p \in Procs, UNCHANGED spent,
         \/ UNCHANGED rows
         \/ \E i \in DOMAIN rows : \E h, c : Hashed(i, h, c) /\ rows'[i].att = rows[i].att /\ rows'[i].tries = rows[i].tries
         \/ \E i \in DOMAIN rows : \E h : \E data \in {"answer", "history"} : Booking(i, data, h)
         \/ \E r \in Calls : \E st \in {"pending", "fill"}, data \in {"intent", "history"} :
              ~HasRow(r) /\ rows' = Append(rows, Row(r, st, data))
  PROVE  /\ \A k \in DOMAIN rows : k \in DOMAIN rows' /\ Kept(p, k) /\ rows'[k].of = rows[k].of /\ rows'[k].att = rows[k].att
         /\ \A k \in DOMAIN rows' \ DOMAIN rows : rows'[k].att = "none" /\ WithinBudget(k)'
<1>1. CASE UNCHANGED rows
  BY <1>1 DEF Kept
<1>2. ASSUME NEW i \in DOMAIN rows, NEW h, NEW c, Hashed(i, h, c), rows'[i].att = rows[i].att, rows'[i].tries = rows[i].tries
      PROVE  /\ \A k \in DOMAIN rows : k \in DOMAIN rows' /\ Kept(p, k) /\ rows'[k].of = rows[k].of /\ rows'[k].att = rows[k].att
             /\ \A k \in DOMAIN rows' \ DOMAIN rows : rows'[k].att = "none" /\ WithinBudget(k)'
  BY <1>2 DEF Hashed, Kept
<1>3. ASSUME NEW i \in DOMAIN rows, NEW h, NEW data \in {"answer", "history"}, Booking(i, data, h)
      PROVE  /\ \A k \in DOMAIN rows : k \in DOMAIN rows' /\ Kept(p, k) /\ rows'[k].of = rows[k].of /\ rows'[k].att = rows[k].att
             /\ \A k \in DOMAIN rows' \ DOMAIN rows : rows'[k].att = "none" /\ WithinBudget(k)'
  BY <1>3 DEF Booking, Kept
<1>4. ASSUME NEW r \in Calls, NEW st \in {"pending", "fill"}, NEW data \in {"intent", "history"},
             ~HasRow(r), rows' = Append(rows, Row(r, st, data))
      PROVE  /\ \A k \in DOMAIN rows : k \in DOMAIN rows' /\ Kept(p, k) /\ rows'[k].of = rows[k].of /\ rows'[k].att = rows[k].att
             /\ \A k \in DOMAIN rows' \ DOMAIN rows : rows'[k].att = "none" /\ WithinBudget(k)'
  <2>0. PICK n : n = Len(rows) + 1
    OBVIOUS
  <2>1. /\ DOMAIN rows' = DOMAIN rows \cup {n} /\ \A k \in DOMAIN rows : rows'[k] = rows[k]
        /\ rows'[n] = Row(r, st, data)
    BY <1>4, <2>0, AppendRowFacts DEF RowInv, SharedTypes
  <2>2. rows'[n].of = r /\ rows'[n].att = "none" /\ rows'[n].data # "none"
    BY <2>1 DEF Row
  <2>3. r \notin Legacy /\ (r \in Late => spent'[r] = 0)
    BY <1>4, EvidenceAssumption DEF CapInv, Procs
  <2>4. WithinBudget(n)'
    BY <2>2, <2>3 DEF WithinBudget, Budget, Late
  <2> QED BY <2>1, <2>2, <2>4 DEF Kept
<1> QED BY <1>1, <1>2, <1>3, <1>4

LEMMA CallKeepsCap ==
  ASSUME OneServer, RowInv, CapInv, NEW r \in Calls, SubmitOrder(r)
  PROVE  CapInv' /\ Final
<1>0. /\ r \in Procs /\ r \notin Servers /\ DOMAIN pc = Procs /\ DOMAIN job = Procs /\ DOMAIN answer = Procs
      /\ at \in [Calls -> Servers] /\ IsTable(rows)
      /\ Waiting(r)
  BY ConstantFacts DEF RowInv, ProcTypes, SharedTypes, CapInv
<1>1. CASE PlaceOrder(r)
  <2>1. /\ pc[r] = "new" /\ UNCHANGED <<spent, job, jobs, answer, startup>>
        /\ pc' = [pc EXCEPT ![r] = "latest"] \/ pc' = [pc EXCEPT ![r] = "unlock_lost"]
        /\ rows' = Append(rows, Row(r, "pending", "intent")) \/ UNCHANGED rows
        /\ \E s \in Servers : at' = [at EXCEPT ![r] = s] /\ (r \in Late => Ready(s))
    BY <1>1 DEF PlaceOrder, Goto, passVars, chain, attempt, Late
  <2>2. ~HasRow(r)
    BY <2>1 DEF RowInv, TableInv
  <2>3. /\ \A k \in DOMAIN rows : k \in DOMAIN rows' /\ Kept(r, k) /\ rows'[k].of = rows[k].of /\ rows'[k].att = rows[k].att
        /\ \A k \in DOMAIN rows' \ DOMAIN rows : rows'[k].att = "none" /\ WithinBudget(k)'
    BY <1>0, <2>1, <2>2, NoAttestation
  <2>4. r \in Late => Ready(at[r])'
    <3>1. PICK s \in Servers : at' = [at EXCEPT ![r] = s] /\ (r \in Late => Ready(s))
      BY <2>1
    <3>2. s # r /\ r \in DOMAIN at /\ \E to : pc' = [pc EXCEPT ![r] = to]
      BY <1>0, <2>1
    <3>3. at'[r] = s /\ pc'[s] = pc[s]
      BY <1>0, <3>1, <3>2, ConstantFacts
    <3> QED BY <2>1, <3>1, <3>3 DEF Ready
  <2>5. Waiting(r)'
    BY <2>2, <2>3, <2>4 DEF Waiting, HasRow
  <2>6. Trying(r)' /\ \A q \in Calls \ {r} : at'[q] = at[q]
    BY <1>0, <2>1 DEF Trying, Attempting
  <2> QED BY <1>0, <2>1, <2>3, <2>5, <2>6, CapStepOf
<1>2. CASE ComputeHash(r) \/ Finalize(r) \/ Unlock(r)
  <2>1. /\ UNCHANGED <<spent, at, job, jobs, answer, startup>>
        /\ pc[r] \notin {"new", "done"}
        /\ \E to \in {"finalize", "unlock", "attest", "done"} :
             /\ pc' = [pc EXCEPT ![r] = to]
             /\ to # "done" => pc[r] \in {"latest", "finalize", "unlock"}
    BY <1>2 DEF ComputeHash, Finalize, Unlock, Goto, chain, passVars, attempt
  <2>2. UNCHANGED rows \/ \E h : Booking(RowOf(r), "answer", h) /\ RowOf(r) \in DOMAIN rows
    <3>1. CASE Finalize(r)
      <4>1. pc[r] = "finalize" /\ (FinalizeTrade(RowOf(r), "answer", hash[r]) \/ UNCHANGED <<rows,
                                                                                             traces>>)
        BY <3>1 DEF Finalize, Goto
      <4>2. RowOf(r) \in DOMAIN rows /\ hash[r] \in Hash /\ IsTable(rows)
        BY <1>0, <4>1, RowOfFacts DEF RowInv, TableInv, Booked, ProcTypes
      <4> QED BY <4>1, <4>2, FinalizeFacts
    <3>2. CASE ComputeHash(r) \/ Unlock(r)
      BY <3>2 DEF ComputeHash, Unlock, tables
    <3> QED BY <1>2, <3>1, <3>2
  <2>3. /\ \A k \in DOMAIN rows : k \in DOMAIN rows' /\ Kept(r, k) /\ rows'[k].of = rows[k].of /\ rows'[k].att = rows[k].att
        /\ \A k \in DOMAIN rows' \ DOMAIN rows : rows'[k].att = "none" /\ WithinBudget(k)'
    BY <1>0, <2>1, <2>2, NoAttestation
  <2>4. Ready(at[r]) => Ready(at[r])'
    <3>1. at[r] \in Servers
      BY <1>0
    <3> QED BY <1>0, <2>1, <3>1 DEF Ready
  <2>5. PICK to \in {"finalize", "unlock", "attest", "done"} :
             /\ pc' = [pc EXCEPT ![r] = to]
             /\ to # "done" => pc[r] \in {"latest", "finalize", "unlock"}
    BY <2>1
  <2>6. pc'[r] = to
    BY <1>0, <2>5
  <2>7. Waiting(r)'
    BY <1>0, <2>1, <2>3, <2>4, <2>5, <2>6 DEF Waiting
  <2>8. Trying(r)'
    BY <2>6 DEF Trying, Attempting
  <2> QED BY <1>0, <2>1, <2>3, <2>5, <2>7, <2>8, CapStepOf
<1>3. CASE Attest(r)
  <2> DEFINE i == RowOf(r)
             j == [NoJob EXCEPT !.row = i, !.hash = hash[r]]
  <2>1. /\ pc[r] = "attest" /\ UNCHANGED <<spent, at, jobs, answer, startup>>
        /\ \/ /\ pc' = [pc EXCEPT ![r] = "done"] /\ UNCHANGED job
              /\ MayWrite(r, i, "waiting_for_gas", 0) \/ MayWrite(r, i, "disabled", 0)
           \/ pc' = [pc EXCEPT ![r] = "mark"] /\ job' = [job EXCEPT ![r] = j] /\ UNCHANGED rows
    BY <1>3 DEF Attest, Goto, chain, passVars
  <2>2. i \in DOMAIN rows /\ rows[i].of = r /\ r \notin Legacy
    BY <2>1, RowOfFacts, EvidenceAssumption DEF RowInv, TableInv, Booked, Procs
  <2>3. {"waiting_for_gas", "disabled"} \subseteq Status /\ 0 \in 0..MaxAttempts
    BY ConstantFacts DEF Status
  <2>4. /\ r \in Late => rows[i].att = "none" /\ spent[r] <= 0
        /\ r \in Settled <=> r \in Late
    <3>1. r \in Late => rows[i].att = "none"
      BY <1>0, <2>1, <2>2 DEF Waiting
    <3> QED BY <2>2, <3>1 DEF CapInv, WithinBudget, Budget, Settled
  <2>5. j.row = i /\ j.att = "none"
    BY DEF NoJob
  <2> HIDE DEF i, j
  <2>6. Engaged(r, i) /\ MaxAttempts \in Nat /\ spent[r] \in Nat
    BY <2>1, <2>2, ConstantFacts, BudgetFacts DEF Engaged
  <2>7. CASE /\ pc' = [pc EXCEPT ![r] = "done"] /\ UNCHANGED job
             /\ MayWrite(r, i, "waiting_for_gas", 0) \/ MayWrite(r, i, "disabled", 0)
    <3>1. UNCHANGED rows \/ AttestationWrite(i, "waiting_for_gas", 0) \/ AttestationWrite(i, "disabled", 0)
      BY <1>0, <2>2, <2>3, <2>7, MayWriteFacts
    <3>2. r \in Late => spent[r] <= MaxAttempts
      BY <2>4, <2>6
    <3>3. /\ \A k \in DOMAIN rows : k \in DOMAIN rows' /\ Kept(r, k)
          /\ DOMAIN rows' = DOMAIN rows
      <4>0. DOMAIN rows' = DOMAIN rows
        BY <3>1 DEF AttestationWrite
      <4>1. rows[i].att \notin Terminal \/ rows[i].of \notin Settled
        BY <2>2, <2>4 DEF Terminal
      <4>2. CASE UNCHANGED rows
        BY <2>1, <4>2, QuietKept
      <4>3. CASE AttestationWrite(i, "waiting_for_gas", 0)
        BY <1>0, <2>1, <2>2, <2>4, <2>6, <4>0, <4>1, <4>3, WriteIsKept
      <4>4. CASE AttestationWrite(i, "disabled", 0)
        BY <1>0, <2>1, <2>2, <2>6, <3>2, <4>0, <4>1, <4>4, WriteIsKept
      <4> QED BY <3>1, <4>0, <4>2, <4>3, <4>4
    <3>4. Trying(r)' /\ Waiting(r)'
      BY <1>0, <2>7 DEF Trying, Waiting, Attempting
    <3> QED BY <1>0, <2>1, <2>7, <3>3, <3>4, CapStepOf
  <2>8. CASE pc' = [pc EXCEPT ![r] = "mark"] /\ job' = [job EXCEPT ![r] = j] /\ UNCHANGED rows
    <3>1. pc'[r] = "mark" /\ job'[r] = j /\ pc'[at[r]] = pc[at[r]]
      BY <1>0, <2>8
    <3>2. Trying(r)'
      BY <2>2, <2>4, <2>5, <2>8, <3>1 DEF Trying, Fresh, Terminal
    <3>3. Waiting(r)'
      BY <1>0, <2>1, <2>8, <3>1 DEF Waiting, Ready
    <3> QED BY <1>0, <2>1, <2>8, <3>2, <3>3, QuietKept, CapStepOf
  <2> QED BY <2>1, <2>7, <2>8
<1>4. CASE AttemptAttestation(r)
  BY <1>0, <1>4, AttemptKeepsCap
<1> QED BY <1>1, <1>2, <1>3, <1>4 DEF SubmitOrder

LEMMA ServerKeepsCap ==
  ASSUME OneServer, RowInv, CapInv, NEW s \in Servers, ServerStep(s)
  PROVE  CapInv' /\ Final
<1>0. /\ s \in Procs /\ s \notin Calls /\ IsTable(rows) /\ traces \in Seq(Hash)
      /\ DOMAIN pc = Procs /\ DOMAIN job = Procs /\ DOMAIN jobs = Servers /\ DOMAIN startup = Servers
      /\ todo[s] \subseteq DOMAIN rows /\ todo[s] \subseteq Nat /\ hash[s] \in Hash
      /\ Passes(s) /\ Trying(s)
  BY TableFacts, ConstantFacts DEF RowInv, SharedTypes, ServerTypes, ProcTypes, CapInv
<1>1. pc' = pc => pc' = [pc EXCEPT ![s] = pc[s]]
  BY DEF RowInv, ChainInv, Shape
<1>2. todo[s] # {} => First(todo[s]) \in DOMAIN rows /\ First(todo[s]) \in todo[s]
  BY <1>0, FirstFacts
<1>3. pc[s] \in Hashing => todo[s] \subseteq FilledRows /\ (pc[s] # "hash" => todo[s] # {})
  BY DEF RowInv, TableInv
\* What does not touch attestations, and where it leads.
<1>4. ASSUME /\ \A k \in DOMAIN rows : k \in DOMAIN rows' /\ Kept(s, k)
             /\ \A k \in DOMAIN rows' \ DOMAIN rows : rows'[k].att = "none" /\ WithinBudget(k)',
             UNCHANGED <<spent, at, job, answer, jobs>>,
             NEW to \in {"lock", "resolve", "hash", "evidence", "column", "recover", "idle"},
             pc' = [pc EXCEPT ![s] = to],
             \/ UNCHANGED startup /\ (~startup[s] => to \notin {"lock", "recover"})
             \/ startup' = [startup EXCEPT ![s] = pc[s] = "lock"] /\ to = "resolve" /\ pc[s] \in {"lock", "idle"},
             pc[s] = "idle" => to = "resolve" /\ startup' = [startup EXCEPT ![s] = pc[s] = "lock"]
      PROVE  CapInv' /\ Final
  <2>1. pc'[s] = to /\ to \notin Recovering /\ to \notin Attempting
    BY <1>0, <1>4 DEF Recovering, Attempting
  <2>2. Passes(s)' /\ (Ready(s) => Ready(s)')
    BY <1>0, <1>4, <2>1 DEF Passes, Ready
  <2>3. Trying(s)'
    BY <2>1 DEF Trying, Attempting
  <2>4. \A t \in Servers \ {s} : startup'[t] = startup[t]
    <3>1. UNCHANGED startup \/ \E b : startup' = [startup EXCEPT ![s] = b]
      BY <1>4
    <3> QED BY <1>0, <3>1
  <2> QED BY <1>0, <1>4, <2>2, <2>3, <2>4, CapStepOf
<1>5. CASE LoadKeys(s)
  <2>1. /\ pc[s] = "boot" /\ pc' = [pc EXCEPT ![s] = "lock"]
        /\ UNCHANGED <<rows, spent, at, job, answer, jobs, startup>>
    BY <1>5 DEF LoadKeys, Goto, tables, passVars, chain, attempt
  <2>2. startup[s]
    BY <1>0, <2>1 DEF Passes
  <2> QED BY <1>4, <2>1, <2>2, QuietKept
<1>6. CASE BeginPass(s)
  <2>1. /\ pc[s] \in {"lock", "idle"} /\ pc' = [pc EXCEPT ![s] = "resolve"]
        /\ startup' = [startup EXCEPT ![s] = pc[s] = "lock"]
        /\ UNCHANGED <<rows, spent, at, job, answer, jobs>>
    BY <1>6 DEF BeginPass, Goto, tables, chain, attempt
  <2> QED BY <1>4, <2>1, QuietKept
<1>7. CASE ResolvePending(s)
  <2> DEFINE i == First(todo[s])
  <2>1. /\ pc[s] = "resolve" /\ todo[s] # {} /\ UNCHANGED <<pc, spent, at, job, answer, jobs,
                                                            startup>>
        /\ \/ \E h \in {Link(rows[i].of, "history"), NoHash} : FinalizeTrade(i, "history", h)
           \/ UNCHANGED <<rows, traces>>
    BY <1>7 DEF ResolvePending, chain, attempt
  <2>2. i \in DOMAIN rows
    BY <1>2, <2>1
  <2> HIDE DEF i
  <2>3. UNCHANGED rows \/ \E h : Booking(i, "history", h)
    <3>1. rows[i].of \in Calls \cup Legacy
      BY <1>0, <2>2, TableFacts DEF RowSet
    <3>2. \A h \in {Link(rows[i].of, "history"), NoHash} : h \in Hash
      BY <1>0, <3>1, HashFacts
    <3>3. \A h \in Hash : FinalizeTrade(i, "history", h) => UNCHANGED rows \/ Booking(i, "history", h)
      BY <1>0, <2>2, FinalizeFacts
    <3> QED BY <2>1, <3>2, <3>3
  <2>4. /\ \A k \in DOMAIN rows : k \in DOMAIN rows' /\ Kept(s, k)
        /\ \A k \in DOMAIN rows' \ DOMAIN rows : rows'[k].att = "none" /\ WithinBudget(k)'
    BY <1>0, <2>1, <2>2, <2>3, NoAttestation
  <2> QED BY <1>1, <1>4, <2>1, <2>4
<1>8. CASE InsertOrphan(s)
  <2>1. /\ pc[s] = "resolve" /\ UNCHANGED <<pc, spent, at, job, answer, jobs, startup>>
        /\ \E r \in missing[s] : rows' = Append(rows, Row(r, "fill", "history")) \/ UNCHANGED rows
    BY <1>8 DEF InsertOrphan, chain, attempt
  <2>2. \A r \in missing[s] : r \in Calls /\ ~HasRow(r)
    BY DEF RowInv, TableInv, SharedTypes
  <2>3. /\ \A k \in DOMAIN rows : k \in DOMAIN rows' /\ Kept(s, k)
        /\ \A k \in DOMAIN rows' \ DOMAIN rows : rows'[k].att = "none" /\ WithinBudget(k)'
    BY <1>0, <2>1, <2>2, NoAttestation
  <2> QED BY <1>1, <1>4, <2>1, <2>3
<1>9. CASE QueryWithoutHash(s) \/ RestoreTrace(s) \/ EndPass(s)
  <2>1. UNCHANGED <<rows, spent, at, job, answer, jobs, startup>>
    BY <1>9 DEF QueryWithoutHash, RestoreTrace, EndPass, tables, chain, attempt, passVars
  <2>2. \E to \in {"hash", "evidence", "recover", "idle"} :
          /\ pc' = [pc EXCEPT ![s] = to] /\ pc[s] # "idle"
          /\ ~startup[s] => to # "recover"
    BY <1>9 DEF QueryWithoutHash, RestoreTrace, EndPass, Goto
  <2> QED BY <1>4, <2>1, <2>2, QuietKept
<1>10. CASE StampLegacy(s)
  <2> DEFINE i == First(todo[s])
  <2>1. /\ pc[s] = "hash" /\ todo[s] # {} /\ rows[i].data = "none"
        /\ UNCHANGED <<pc, spent, at, job, answer, jobs, startup>>
        /\ \/ rows' = [rows EXCEPT ![i].hash = LegacyHash, ![i].att = "disabled", ![i].tries = 0]
           \/ UNCHANGED rows
    BY <1>10 DEF StampLegacy, chain, attempt, passVars
  <2>2. i \in DOMAIN rows
    BY <1>2, <2>1
  <2>3. rows[i].att = "disabled"
    BY <2>1, <2>2 DEF CapInv, WithinBudget
  <2> HIDE DEF i
  <2>4. UNCHANGED rows \/ (Hashed(i, LegacyHash, rows[i].column) /\ rows'[i].att = "disabled")
    BY <1>0, <2>1, <2>2, StampFacts
  <2>5. /\ DOMAIN rows' = DOMAIN rows /\ \A k \in DOMAIN rows : Kept(s, k)
    BY <2>1, <2>2, <2>3, <2>4 DEF Hashed, Kept
  <2> QED BY <1>1, <1>4, <2>1, <2>5
<1>11. CASE RestoreEvidence(s) \/ RestoreColumn(s)
  <2> DEFINE i == First(todo[s])
             c == IF rows[i].column = NoHash THEN hash[s] ELSE rows[i].column
  <2>1. /\ pc[s] \in {"evidence", "column"} /\ UNCHANGED <<spent, at, job, answer, jobs, startup>>
        /\ \E to \in {"hash", "column"} : pc' = [pc EXCEPT ![s] = to]
        /\ \/ rows' = [rows EXCEPT ![i].hash = hash[s]]
           \/ rows' = [rows EXCEPT ![i].column = c]
           \/ UNCHANGED rows
    BY <1>11 DEF RestoreEvidence, RestoreColumn, Goto, chain, attempt, passVars
  <2>2. i \in DOMAIN rows /\ c \in Hash
    BY <1>0, <1>2, <1>3, <2>1, TableFacts DEF Hashing, RowSet
  <2> HIDE DEF i, c
  <2>3. UNCHANGED rows \/ ((\E h, d : Hashed(i, h, d)) /\ rows'[i].att = rows[i].att /\ rows'[i].tries = rows[i].tries)
    BY <1>0, <2>1, <2>2, HashedFacts
  <2>4. /\ \A k \in DOMAIN rows : k \in DOMAIN rows' /\ Kept(s, k)
        /\ \A k \in DOMAIN rows' \ DOMAIN rows : rows'[k].att = "none" /\ WithinBudget(k)'
    BY <1>0, <2>1, <2>2, <2>3, NoAttestation
  <2> QED BY <1>4, <2>1, <2>4
<1>12. CASE ReadJobs(s)
  <2> DEFINE J == IF breaker[s] THEN {} ELSE {JobOf(i) : i \in Recoverable}
  <2>1. /\ pc[s] = "recover" /\ \E to \in {"idle", "jobs"} : pc' = [pc EXCEPT ![s] = to]
        /\ UNCHANGED <<rows, spent, at, job, answer, startup>> /\ jobs' = [jobs EXCEPT ![s] = J]
    BY <1>12 DEF ReadJobs, Goto, tables, chain, attempt
  <2>2. startup[s]
    BY <1>0, <2>1 DEF Passes
  <2>3. \A i \in Recoverable : \A j : j = JobOf(i) => j.row = i /\ Fresh(j)'
    BY <2>1 DEF JobOf, Recoverable, Fresh
  <2>4. \A j \in J : \E i \in Recoverable : j = JobOf(i)
    OBVIOUS
  <2> HIDE DEF J
  <2>5. (\A j \in J : Fresh(j)') /\ \A j, k \in J : j.row = k.row => j = k
    BY <2>3, <2>4
  <2>6. jobs'[s] = J /\ startup'[s] /\ pc'[s] \in {"idle", "jobs"}
    BY <1>0, <2>1, <2>2
  <2>7. Passes(s)' /\ (Ready(s) => Ready(s)')
    BY <2>1, <2>2, <2>5, <2>6 DEF Passes, Ready, Attempting, Recovering
  <2>8. Trying(s)'
    BY <2>6 DEF Trying, Attempting
  <2> QED BY <1>0, <2>1, <2>7, <2>8, QuietKept, CapStepOf
<1>13. CASE NextJob(s)
  <2>1. PICK j \in jobs[s] :
          /\ jobs' = [jobs EXCEPT ![s] = jobs[s] \ {j}]
          /\ \/ (MayWrite(s, j.row, "success", 0) \/ MayWrite(s, j.row, "error", 0)) /\ UNCHANGED <<pc, job>>
             \/ /\ j.att # "pending_confirm" /\ UNCHANGED rows
                /\ Goto(s, "jobs", "mark") /\ job' = [job EXCEPT ![s] = j]
    BY <1>13 DEF NextJob
  <2>2. pc[s] = "jobs" /\ UNCHANGED <<spent, at, answer, startup>>
    BY <1>13 DEF NextJob, chain
  <2>3. /\ j.row \in DOMAIN rows /\ Fresh(j)
        /\ \A k \in jobs[s] \ {j} : k.row \in DOMAIN rows /\ k.row # j.row /\ Fresh(k)
    BY <1>0, <2>2 DEF Passes, Recovering, RowInv, TableInv
  <2>4. startup[s] /\ jobs'[s] = jobs[s] \ {j} /\ \A t \in Servers \ {s} : jobs'[t] = jobs[t]
    BY <1>0, <2>1, <2>2 DEF Passes
  <2>5. CASE (MayWrite(s, j.row, "success", 0) \/ MayWrite(s, j.row, "error", 0)) /\ UNCHANGED <<pc, job>>
    <3>1. {"success", "error"} \subseteq Status /\ 0 \in 0..MaxAttempts /\ MaxAttempts \in Nat
      BY ConstantFacts DEF Status
    <3>2. UNCHANGED rows \/ AttestationWrite(j.row, "success", 0) \/ AttestationWrite(j.row, "error", 0)
      BY <1>0, <2>3, <2>5, <3>1, MayWriteFacts
    <3>3. rows[j.row].of \notin Legacy /\ (rows[j.row].of \in Settled => rows[j.row].att \notin Terminal)
      BY <2>3 DEF Fresh, CapInv, WithinBudget, Settled, Terminal
    <3>4. rows[j.row].of \in Late => spent[rows[j.row].of] <= MaxAttempts
      BY <2>3, BudgetFacts
    <3>5. Engaged(s, j.row)
      BY <1>0, <2>2 DEF Engaged, Recovering
    <3>6. \A k \in DOMAIN rows : k \in DOMAIN rows' /\ Kept(s, k)
      <4>1. CASE UNCHANGED rows
        BY <2>2, <4>1, QuietKept
      <4>2. CASE AttestationWrite(j.row, "success", 0)
        BY <1>0, <2>2, <2>3, <3>3, <3>4, <3>5, <4>2, WriteIsKept
      <4>3. CASE AttestationWrite(j.row, "error", 0)
        BY <1>0, <2>2, <2>3, <3>3, <3>4, <3>5, <4>3, WriteIsKept
      <4> QED BY <3>2, <4>1, <4>2, <4>3
    <3>7. DOMAIN rows' = DOMAIN rows /\ \A k \in DOMAIN rows \ {j.row} : rows'[k] = rows[k]
      BY <3>2 DEF AttestationWrite
    <3>8. Passes(s)' /\ Trying(s)'
      BY <1>0, <2>2, <2>3, <2>4, <2>5, <3>7 DEF Passes, Trying, Fresh, Attempting
    <3> QED BY <1>0, <1>1, <2>2, <2>4, <2>5, <3>6, <3>7, <3>8, CapStepOf DEF Ready
  <2>6. CASE /\ j.att # "pending_confirm" /\ UNCHANGED rows
             /\ Goto(s, "jobs", "mark") /\ job' = [job EXCEPT ![s] = j]
    <3>1. pc' = [pc EXCEPT ![s] = "mark"] /\ pc'[s] = "mark" /\ job'[s] = j
      BY <1>0, <2>6 DEF Goto
    <3>2. Trying(s)'
      BY <2>3, <2>6, <3>1 DEF Trying, Fresh
    <3>3. \A k, l \in jobs[s] : k.row = l.row => k = l
      BY <1>0, <2>2 DEF Passes, Recovering
    <3>4. Passes(s)' /\ (Ready(s) => Ready(s)')
      BY <2>2, <2>3, <2>4, <2>6, <3>1, <3>3 DEF Passes, Fresh, Ready
    <3>5. \A q \in Procs \ {s} : job'[q] = job[q] /\ answer'[q] = answer[q]
      BY <1>0, <2>2, <2>6
    <3> QED BY <1>0, <2>2, <2>4, <2>6, <3>1, <3>2, <3>4, <3>5, QuietKept, CapStepOf
  <2> QED BY <2>1, <2>5, <2>6
<1>14. CASE EndRecovery(s)
  <2>1. /\ pc[s] = "jobs" /\ pc' = [pc EXCEPT ![s] = "idle"]
        /\ UNCHANGED <<rows, spent, at, job, answer, jobs, startup>>
    BY <1>14 DEF EndRecovery, Goto, tables, passVars, chain, attempt
  <2> QED BY <1>4, <2>1, QuietKept
<1>15. CASE AttemptAttestation(s)
  BY <1>0, <1>15, AttemptKeepsCap
<1> QED
  BY <1>5, <1>6, <1>7, <1>8, <1>9, <1>10, <1>11, <1>12, <1>13, <1>14, <1>15 DEF ServerStep

LEMMA CrashKeepsCap ==
  ASSUME OneServer, RowInv, CapInv, NEW s \in Servers, Crash(s)
  PROVE  CapInv' /\ Final
<1>1. /\ UNCHANGED <<rows, spent, at>> /\ pc'[s] = "boot" /\ startup'[s] = TRUE
      /\ \A p \in Procs \ Dead(s) : pc'[p] = pc[p]
      /\ \A p \in Dead(s) \ {s} : pc'[p] = "done"
      /\ at \in [Calls -> Servers]
  BY CrashFacts DEF RowInv, SharedTypes
<1>2. \A r \in Calls : pc'[r] \in {"new", "done"}
  BY <1>1, ConstantFacts DEF Dead, OneServer
<1>3. \A p \in Procs : pc'[p] \notin Recovering
  BY <1>1, <1>2 DEF Procs, OneServer, Recovering, Attempting
<1>4. \A r \in Calls : Waiting(r)'
  BY <1>2 DEF Waiting
<1>5. \A p \in Procs : Trying(p)'
  BY <1>3 DEF Trying, Recovering, Attempting
<1>6. \A t \in Servers : Passes(t)'
  BY <1>1, <1>3, ConstantFacts DEF Passes, OneServer, Recovering
<1>7. CapInv'
  BY <1>1, <1>4, <1>5, <1>6 DEF CapInv, WithinBudget, Budget, HasRow
<1> QED BY <1>1, <1>7 DEF Final

LEMMA CapInit == Init => CapInv
<1> SUFFICES ASSUME Init PROVE CapInv
  OBVIOUS
<1>1. \A p \in Procs : pc[p] \in {"boot", "new"}
  BY DEF Init
<1>2. /\ \A s \in Servers : startup[s]
      /\ \A r \in Calls : pc[r] = "new"
      /\ \A t \in Late : spent[t] = 0
  BY EvidenceAssumption DEF Init, Procs, Late
<1>3. Calls \cap Legacy = {}
  BY EvidenceAssumption DEF Procs
<1>4. \A s \in Servers : Passes(s)
  BY <1>1, <1>2, ConstantFacts DEF Passes, Recovering, Attempting
<1>5. \A i \in DOMAIN rows : WithinBudget(i)
  BY <1>3, LegacyRows DEF WithinBudget, Late
<1>6. \A p \in Procs : Trying(p)
  BY <1>1 DEF Trying, Attempting
<1>7. \A r \in Calls : Waiting(r)
  BY <1>2 DEF Waiting
<1> QED BY <1>2, <1>4, <1>5, <1>6, <1>7 DEF CapInv

LEMMA CapStep == OneServer /\ RowInv /\ CapInv /\ [Next]_vars => CapInv' /\ Final
<1> SUFFICES ASSUME OneServer, RowInv, CapInv, [Next]_vars PROVE CapInv' /\ Final
  OBVIOUS
<1>1. CASE UNCHANGED vars
  <2>1. UNCHANGED <<rows, spent, pc, at, jobs, job, startup, answer>>
    BY <1>1 DEF vars, tables, passVars, attempt, chain
  <2>2. Final
    BY <2>1 DEF Final
  <2>3. /\ \A i \in DOMAIN rows' : WithinBudget(i)'
        /\ \A t \in Late : ~HasRow(t)' => spent'[t] = 0
    BY <2>1 DEF CapInv, WithinBudget, Budget, HasRow
  <2>4. /\ \A p \in Procs : Trying(p)'
        /\ \A s \in Servers : Passes(s)'
    BY <2>1 DEF CapInv, Trying, Fresh, TradeOf, Passes
  <2>5. \A r \in Calls : Waiting(r)'
    BY <2>1 DEF CapInv, Waiting, Ready
  <2> QED BY <2>2, <2>3, <2>4, <2>5 DEF CapInv
<1>2. CASE \E r \in Calls : SubmitOrder(r)
  BY <1>2, CallKeepsCap
<1>3. CASE \E s \in Servers : ServerStep(s) \/ Crash(s)
  BY <1>3, ServerKeepsCap, CrashKeepsCap
<1> QED BY <1>1, <1>2, <1>3 DEF Next

\* With one server, what the table says of an attestation agrees with the chain, and a trade is
\* posted at most MaxAttempts times before the wallet is found empty, however often the server dies.
THEOREM OneServerKeepsTheRecord == OneServer => (Spec => []AttestationsAreOnRecord)
<1> SUFFICES ASSUME OneServer PROVE Spec => []AttestationsAreOnRecord
  OBVIOUS
<1>1. RowInv /\ RecordInv /\ CapInv => AttestationsAreOnRecord
  <2> SUFFICES ASSUME RowInv, RecordInv, CapInv PROVE AttestationsAreOnRecord
    OBVIOUS
  <2>1. PostsAreMarked /\ SuccessIsOnChain
    BY DEF RecordInv, OnRecord, Posted, PostsAreMarked, SuccessIsOnChain
  <2>2. ASSUME NEW t \in Calls \ EarlyCalls PROVE spent[t] <= MaxAttempts
    <3>1. CASE ~HasRow(t)
      BY <3>1, ConstantFacts DEF CapInv, Late
    <3>2. CASE HasRow(t)
      BY <3>2, BudgetFacts DEF HasRow, Late
    <3> QED BY <3>1, <3>2
  <2> QED BY <2>1, <2>2 DEF AttestationsAreOnRecord, AttemptsAreCapped
<1>2. Init => RowInv /\ RecordInv /\ CapInv
  BY RowInit, RecordInit, CapInit
<1>3. (RowInv /\ RecordInv /\ CapInv) /\ [Next]_vars => (RowInv /\ RecordInv /\ CapInv)'
  BY RowStep, RecordStep, CapStep
<1> QED BY <1>1, <1>2, <1>3, PTL DEF Spec

\* With one server, success, error and disabled are final.
THEOREM OneServerKeepsOutcomes == OneServer => (Spec => TerminalIsFinal)
<1> SUFFICES ASSUME OneServer PROVE Spec => TerminalIsFinal
  OBVIOUS
<1> DEFINE A == \A i \in DOMAIN rows :
                  rows[i].of \notin EarlyCalls /\ rows[i].att \in Terminal => rows'[i].att = rows[i].att
<1>1. RowInv /\ CapInv /\ [Next]_vars => A
  <2> SUFFICES ASSUME RowInv, CapInv, [Next]_vars PROVE A
    OBVIOUS
  <2>1. \A i \in DOMAIN rows : rows[i].of \in Calls \cup Legacy
    BY BudgetFacts
  <2>2. \A i \in DOMAIN rows : rows[i].of \notin EarlyCalls => rows[i].of \in Settled
    BY <2>1 DEF Settled, Late
  <2> QED BY <2>2, CapStep DEF Final
<1>2. Init => RowInv /\ CapInv
  BY RowInit, CapInit
<1>3. (RowInv /\ CapInv) /\ [Next]_vars => (RowInv /\ CapInv)'
  BY RowStep, CapStep
<1>4. (RowInv /\ CapInv) /\ [Next]_vars => [A]_rows
  BY <1>1
<1> QED BY <1>2, <1>3, <1>4, PTL DEF Spec, TerminalIsFinal
=============================================================================
