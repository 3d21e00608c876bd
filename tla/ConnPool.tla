------------------------------ MODULE ConnPool ------------------------------
(***************************************************************************)
(* The connections behind the per-agent lock (db/pgx_repository.go,        *)
(* LockAgent; db/db.go): a call takes a connection of the pool for the     *)
(* advisory lock, keeps it while it queues for the lock and in the         *)
(* critical section, and takes a second one for each of its statements.    *)
(***************************************************************************)
EXTENDS Integers, FiniteSets

CONSTANTS
  Calls, AgentOf,    \* calls at the same time, and their agents: [Calls -> agents]
  PoolSize,
  MaxLeaks           \* bound on what a mutant leaks

VARIABLES
  pc,                \* [Calls -> where the call is]
  leaked             \* connections that nobody gives back

vars == <<pc, leaked>>

ConnPoolAssumption == {PoolSize, MaxLeaks} \subseteq Nat

Init == pc = [c \in Calls |-> "idle"] /\ leaked = 0

In(pcs) == Cardinality({c \in Calls : pc[c] \in pcs})
Locked == {"held", "want", "query", "unlock"}
Free == PoolSize - leaked - In(Locked \cup {"lock"}) - In({"query"})
LockFree(c) == \A d \in Calls : AgentOf[d] = AgentOf[c] => pc[d] \notin Locked

Step(c, from, to) == pc[c] = from /\ pc' = [pc EXCEPT ![c] = to] /\ UNCHANGED leaked

\* A tool call, SetHalted or the reconciliation of an agent.
Arrive(c) == Step(c, "idle", "acquire")

\* pool.Acquire waits for a free connection; pg_advisory_lock waits with it in hand.
Acquire(c) == Free > 0 /\ Step(c, "acquire", "lock")
Lock(c) == LockFree(c) /\ Step(c, "lock", "held")

\* Mutant: the error path does not release the connection.
LockFailsLeaking(c) ==
  /\ pc[c] = "lock" /\ leaked < MaxLeaks
  /\ pc' = [pc EXCEPT ![c] = "idle"] /\ leaked' = leaked + 1

\* The statement fails, or the caller goes away while it waits.
LockFails(c) == Step(c, "lock", "idle")

\* Each statement of the critical section takes a connection of the pool for itself; the one
\* that asks GetAgent is due at once.
Statement(c) == Step(c, "held", "want")
Query(c) == Free > 0 /\ Step(c, "want", "query")
QueryDone(c) == \E next \in {"want", "unlock"} : Step(c, "query", next)

\* pg_advisory_unlock, on the connection of the lock, and its release.
Unlock(c) == Step(c, "unlock", "idle")

Next ==
  \E c \in Calls : Arrive(c) \/ Acquire(c) \/ Lock(c) \/ LockFails(c) \/ Statement(c) \/ Query(c)
                     \/ QueryDone(c) \/ Unlock(c)

Spec == Init /\ [][Next]_vars

-----------------------------------------------------------------------------
(* Properties. *)

\* Calls never wait for each other in a circle: while one of them is under way, one of them can
\* go on without another one giving up.  That needs more connections than calls.
SomebodyCanMove ==
  In({"idle"}) < Cardinality(Calls) =>
    \E c \in Calls : \/ pc[c] \in {"held", "query", "unlock"}
                     \/ pc[c] = "lock" /\ LockFree(c)
                     \/ pc[c] \in {"acquire", "want"} /\ Free > 0
=============================================================================
