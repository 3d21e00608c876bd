------------------------------ MODULE Sandbox ------------------------------
(***************************************************************************)
(* The Python sandbox of one agent (mcps/codesandbox/service.go): a Docker *)
(* container that lives across code/execute calls.  Calls find it in a map *)
(* or start it, a ticker evicts it when it was idle, and the name of the   *)
(* container is the same whoever starts it.                                *)
(***************************************************************************)
EXTENDS Integers, FiniteSets

CONSTANTS
  Calls,              \* calls that may run at the same time
  MaxRuns, MaxFaults  \* bounds: containers started, and failures of them or of the server

VARIABLES
  docker,             \* [id, st, network, runs, faults]: the container with the agent's name, and
                      \*  whether it is reached by its name or by a port of its own
  reg,                \* [id, old]: containers[agentID], and whether its idle time is over
  creating,           \* creating[agentID]
  call                \* [Calls -> [pc, id]]

vars == <<docker, reg, creating, call>>

SandboxAssumption == {MaxRuns, MaxFaults} \subseteq Nat

None == 0
NoReg == [id |-> None, old |-> FALSE]
NoCall == [pc |-> "idle", id |-> None]

Init ==
  /\ \E network \in BOOLEAN : docker = [id |-> None, st |-> "none", network |-> network, runs |-> 0, faults |-> 0]
  /\ reg = NoReg /\ creating = FALSE
  /\ call = [c \in Calls |-> NoCall]

At(c, pc) == call[c].pc = pc
Goto(c, pc) == call' = [call EXCEPT ![c].pc = pc]
Removed == [docker EXCEPT !.id = None, !.st = "none"]
Faulty == docker.faults < MaxFaults

\* Does the container answer that a call with this state talks to?
Answers(id) == docker.st = "ready" /\ (docker.network \/ docker.id = id)

-----------------------------------------------------------------------------
(* getOrCreateContainer. *)

\* While the container is being started, wait for createCond.
Enter(c) ==
  /\ call[c].pc \in {"idle", "woken"}
  /\ IF creating THEN Goto(c, "waiting") /\ UNCHANGED creating
     ELSE IF reg.id # None
     THEN call' = [call EXCEPT ![c] = [pc |-> "inspect", id |-> reg.id]] /\ UNCHANGED creating
     ELSE Goto(c, "remove") /\ creating' = TRUE
  /\ UNCHANGED <<docker, reg>>

\* docker inspect, without the lock.
Inspect(c) ==
  /\ At(c, "inspect")
  /\ IF docker.st \in {"starting", "ready"} THEN Goto(c, "touch") ELSE Goto(c, "drop")
  /\ UNCHANGED <<docker, reg, creating>>

\* The command itself may fail.
InspectFails(c) ==
  /\ At(c, "inspect") /\ Faulty
  /\ Goto(c, "drop")
  /\ docker' = [docker EXCEPT !.faults = @ + 1]
  /\ UNCHANGED <<reg, creating>>

Touch(c) ==
  /\ At(c, "touch")
  /\ reg' = IF reg.id = call[c].id THEN [reg EXCEPT !.old = FALSE] ELSE reg
  /\ Goto(c, "execute")
  /\ UNCHANGED <<docker, creating>>

\* The container is gone: forget it and claim its creation.
Drop(c) ==
  /\ At(c, "drop")
  /\ reg' = NoReg /\ creating' = TRUE
  /\ Goto(c, "remove")
  /\ UNCHANGED docker

-----------------------------------------------------------------------------
(* startContainer. *)

RemoveOld(c) ==
  /\ At(c, "remove")
  /\ docker' = Removed
  /\ Goto(c, "run")
  /\ UNCHANGED <<reg, creating>>

\* docker run fails when the name is taken.
DockerRun(c) ==
  /\ At(c, "run") /\ docker.runs < MaxRuns
  /\ IF docker.id = None
     THEN /\ docker' = [docker EXCEPT !.id = docker.runs + 1, !.st = "starting", !.runs = @ + 1]
          /\ call' = [call EXCEPT ![c] = [pc |-> "await", id |-> docker.runs + 1]]
     ELSE Goto(c, "failed") /\ UNCHANGED docker
  /\ UNCHANGED <<reg, creating>>

DockerRunFails(c) ==
  /\ At(c, "run")
  /\ Faulty \/ docker.runs = MaxRuns
  /\ Goto(c, "failed")
  /\ docker' = [docker EXCEPT !.faults = IF Faulty THEN @ + 1 ELSE @]
  /\ UNCHANGED <<reg, creating>>

waitForRepl(c) ==
  /\ At(c, "await") /\ Answers(call[c].id)
  /\ Goto(c, "started")
  /\ UNCHANGED <<docker, reg, creating>>

\* The container is removed by its name, whoever started it.
ReplNotReady(c) ==
  /\ At(c, "await") /\ ~ Answers(call[c].id)
  /\ docker.id # call[c].id \/ docker.st = "exited" \/ Faulty
  /\ docker' = [Removed EXCEPT !.faults = IF docker.id # call[c].id \/ docker.st = "exited" THEN @ ELSE @ + 1]
  /\ Goto(c, "failed")
  /\ UNCHANGED <<reg, creating>>

\* Those who wait look again.
Broadcast(c, pc) ==
  [d \in Calls |-> IF d = c THEN [call[c] EXCEPT !.pc = pc]
                   ELSE IF At(d, "waiting") THEN [NoCall EXCEPT !.pc = "woken"] ELSE call[d]]

Register(c) ==
  /\ At(c, "started")
  /\ reg' = [id |-> call[c].id, old |-> FALSE]
  /\ creating' = FALSE
  /\ call' = Broadcast(c, "execute")
  /\ UNCHANGED docker

\* Mutant: an error returns before the sentinel is released.
GiveUpAtOnce(c) ==
  /\ At(c, "failed")
  /\ Goto(c, "idle")
  /\ UNCHANGED <<docker, reg, creating>>

GiveUp(c) ==
  /\ At(c, "failed")
  /\ creating' = FALSE
  /\ call' = Broadcast(c, "idle")
  /\ UNCHANGED <<docker, reg>>

-----------------------------------------------------------------------------
(* toolExecute, eviction and what happens to containers and the server. *)

\* callRepl: the code runs, or there is nobody to run it, or its container goes meanwhile.
Execute(c) ==
  /\ At(c, "execute")
  /\ reg' = IF Answers(call[c].id) THEN [reg EXCEPT !.old = FALSE] ELSE reg
  /\ call' = [call EXCEPT ![c] = NoCall]
  /\ UNCHANGED <<docker, creating>>

\* The idle time (30 minutes) is longer than any call.
IdleTimePasses ==
  /\ reg.id # None /\ ~ reg.old /\ \A c \in Calls : At(c, "idle")
  /\ reg' = [reg EXCEPT !.old = TRUE]
  /\ UNCHANGED <<docker, creating, call>>

evictIdleContainers ==
  /\ reg.old
  /\ docker' = Removed /\ reg' = NoReg
  /\ UNCHANGED <<creating, call>>

ReplStarts ==
  /\ docker.st = "starting"
  /\ docker' = [docker EXCEPT !.st = "ready"]
  /\ UNCHANGED <<reg, creating, call>>

\* It runs out of memory, say.
ContainerExits ==
  /\ docker.st \in {"starting", "ready"} /\ Faulty
  /\ docker' = [docker EXCEPT !.st = "exited", !.faults = @ + 1]
  /\ UNCHANGED <<reg, creating, call>>

\* The server starts again; Stop removes the registered container, a crash leaves it running.
Restart ==
  /\ Faulty
  /\ \E stopped \in BOOLEAN :
       docker' = [(IF stopped /\ reg.id # None THEN Removed ELSE docker) EXCEPT !.faults = docker.faults + 1]
  /\ reg' = NoReg /\ creating' = FALSE
  /\ call' = [c \in Calls |-> NoCall]

Next ==
  \/ \E c \in Calls : \/ Enter(c) \/ Inspect(c) \/ InspectFails(c) \/ Touch(c) \/ Drop(c) \/ RemoveOld(c)
                      \/ DockerRun(c) \/ DockerRunFails(c) \/ waitForRepl(c) \/ ReplNotReady(c)
                      \/ Register(c) \/ GiveUp(c) \/ Execute(c)
  \/ IdleTimePasses \/ evictIdleContainers \/ ReplStarts \/ ContainerExits \/ Restart

Spec == Init /\ [][Next]_vars

-----------------------------------------------------------------------------
(* Properties. *)

Creators == {c \in Calls : call[c].pc \in {"remove", "run", "await", "started", "failed"}}

\* A call that waits for another one's container is woken, whatever becomes of that container:
\* while somebody waits, somebody is at work who will broadcast.
NobodyWaitsInVain ==
  /\ (\E c \in Calls : At(c, "waiting")) => creating
  /\ creating => Creators # {}

\* "Concurrent calls for the same agent wait on createCond instead of racing to run docker run
\* twice with the same container name."
OneCreatorAtATime == Cardinality(Creators) <= 1
=============================================================================
