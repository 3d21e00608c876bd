-------------------------- MODULE AnalyticSandbox --------------------------
(***************************************************************************)
(* The analytic sandbox of the Ruby agents, a Go server of its own         *)
(* (src/ruby/agents/analytic-sandbox): sessions with a container each, in  *)
(* a map that a restart empties, and with metadata on disk from which a    *)
(* session that is asked for again gets its limits back.                   *)
(***************************************************************************)
EXTENDS Integers, FiniteSets

CONSTANTS
  Requests,               \* requests that are served at the same time
  Limits,                 \* what a new session may ask for; 0 is "not given"
  TornWrites,             \* may a crash tear the metadata file?
  MaxSessions, MaxStructs,            \* bounds: sessions, Session structs of one run of the server,
  MaxContainers, MaxExecs, MaxFaults  \*  containers, tools that run, failures and restarts

VARIABLES
  docker,                 \* containers that exist, as [name, cid]
  sessions,               \* m.sessions under the sessions' own ids: [ids -> structs, 0 for none]
  aliases,                \* m.sessions under the ids the MCP library gave them
  structs,                \* the Session structs of this run of the server
  disk,                   \* [meta, work]: data/sessions and data/containers
  request,                \* [Requests -> what each has in hand]
  book                    \* tallies: limits asked for, tools that ran, restarts and failures

vars == <<docker, sessions, aliases, structs, disk, request, book>>

AnalyticSandboxAssumption ==
  /\ Limits \subseteq Nat \ {0} /\ Limits # {}
  /\ {MaxSessions, MaxStructs, MaxContainers, MaxExecs, MaxFaults} \subseteq Nat /\ TornWrites \in BOOLEAN

Ids == 1..MaxSessions
None == 0
NoMeta == [limits |-> None, history |-> -1]
Torn == [limits |-> None, history |-> -2]
HasMeta(id) == disk.meta[id].history >= 0
NoStruct == [id |-> None, cid |-> None, limits |-> None, stopped |-> FALSE, old |-> FALSE, busy |-> FALSE]
Idle == [pc |-> "idle", id |-> None, struct |-> None, new |-> FALSE]

Init ==
  /\ docker = {}
  /\ sessions = [id \in Ids |-> None] /\ aliases = sessions
  /\ structs = [s \in 1..MaxStructs |-> NoStruct]
  /\ disk = [meta |-> [id \in Ids |-> NoMeta], work |-> {}]
  /\ request = [r \in Requests |-> Idle]
  /\ book = [asked |-> [id \in Ids |-> None], ran |-> [id \in Ids |-> 0], starts |-> 0, cids |-> 0, faults |-> 0]

At(r, pc) == request[r].pc = pc
Goto(r, pc) == request' = [request EXCEPT ![r].pc = pc]
Done(r) == request' = [request EXCEPT ![r] = Idle]
Of(r) == structs[request[r].struct]
Faulty == book.faults < MaxFaults
Fault == book' = [book EXCEPT !.faults = @ + 1]

\* StartContainer: a container of that name is taken over, otherwise one is created.
Named(id) == {k \in docker : k.name = id}
Started(id) == IF Named(id) # {} THEN docker ELSE docker \cup {[name |-> id, cid |-> book.cids + 1]}
StartedCid(id) == IF Named(id) # {} THEN (CHOOSE k \in Named(id) : TRUE).cid ELSE book.cids + 1
\* Container ids grow as containers are created.
Cids(id) == IF Named(id) # {} THEN book.cids ELSE book.cids + 1

CanStart(id) == Cids(id) <= MaxContainers

NewStruct(id, limits) ==
  [id |-> id, cid |-> StartedCid(id), limits |-> limits, stopped |-> FALSE, old |-> FALSE, busy |-> FALSE]

\* A struct is made, registered under its id, and serves the request.
Install(r, id, limits, new) ==
  LET s == book.starts + 1
  IN /\ s <= MaxStructs /\ CanStart(id)
     /\ docker' = Started(id)
     /\ structs' = [structs EXCEPT ![s] = NewStruct(id, limits)]
     /\ sessions' = [sessions EXCEPT ![id] = s]
     /\ disk' = [disk EXCEPT !.work = @ \cup {id},
                             !.meta[id] = IF HasMeta(id) THEN @ ELSE [limits |-> limits, history |-> 0]]
     /\ request' = [request EXCEPT ![r] = [pc |-> "ensure", id |-> id, struct |-> s, new |-> new]]
     /\ book' = [book EXCEPT !.starts = s, !.cids = Cids(id), !.asked[id] = IF new THEN limits ELSE @]

-----------------------------------------------------------------------------
(* GetOrCreate. *)

\* No Mcp-Session-Id: a new session with the limits of the headers.
NewSession(r) ==
  /\ At(r, "idle")
  /\ \E id \in Ids \ disk.work, limits \in Limits :
       /\ \A lower \in Ids : lower < id => lower \in disk.work
       /\ Install(r, id, limits, TRUE)
  /\ UNCHANGED aliases

\* The work directory stays behind.
NewSessionFails(r) ==
  /\ At(r, "idle") /\ Faulty
  /\ \E id \in Ids \ disk.work :
       /\ \A lower \in Ids : lower < id => lower \in disk.work
       /\ disk' = [disk EXCEPT !.work = @ \cup {id}]
  /\ Fault
  /\ UNCHANGED <<docker, sessions, aliases, structs, request>>

\* The session is looked up under the read lock.
Find(r) ==
  /\ At(r, "idle")
  /\ \E id \in Ids :
       /\ book.asked[id] # None
       /\ request' = [request EXCEPT ![r] = IF sessions[id] = None THEN [Idle EXCEPT !.pc = "create", !.id = id]
                                            ELSE [pc |-> "ensure", id |-> id, struct |-> sessions[id], new |-> FALSE]]
  /\ UNCHANGED <<docker, sessions, aliases, structs, disk, book>>

\* The id that clients use is the library's; after a restart its directory is missing: "session expired".
FindByAlias(r) ==
  /\ At(r, "idle")
  /\ \E id \in Ids :
       /\ aliases[id] # None
       /\ request' = [request EXCEPT ![r] = [pc |-> "ensure", id |-> id, struct |-> aliases[id], new |-> FALSE]]
  /\ UNCHANGED <<docker, sessions, aliases, structs, disk, book>>

\* Mutant: only the defaults of the request are used.
ResumeWithoutMetadata(r) ==
  /\ At(r, "create") /\ request[r].id \in disk.work
  /\ Install(r, request[r].id, None, FALSE)
  /\ UNCHANGED aliases

\* Another request may have made the session meanwhile: nobody looks again.  A request that resumes
\* gives no limits; an unreadable file counts as none.
Resume(r) ==
  /\ At(r, "create") /\ request[r].id \in disk.work
  /\ Install(r, request[r].id, disk.meta[request[r].id].limits, FALSE)
  /\ UNCHANGED aliases

ResumeFails(r) ==
  /\ At(r, "create") /\ Faulty
  /\ Done(r) /\ Fault
  /\ UNCHANGED <<docker, sessions, aliases, structs, disk>>

-----------------------------------------------------------------------------
(* The bridge: container, activity, handler. *)

RestartContainerIfNeeded(r) ==
  /\ At(r, "ensure")
  /\ LET id == request[r].id  s == sessions[id]
     IN IF ~ structs[s].stopped
        THEN Goto(r, "touch") /\ UNCHANGED <<docker, structs, book>>
        ELSE /\ CanStart(id) /\ docker' = Started(id)
             /\ structs' = [structs EXCEPT ![s].cid = StartedCid(id), ![s].stopped = FALSE, ![s].old = FALSE]
             /\ book' = [book EXCEPT !.cids = Cids(id)]
             /\ Goto(r, "touch")
  /\ UNCHANGED <<sessions, aliases, disk>>

RestartContainerFails(r) ==
  /\ At(r, "ensure") /\ structs[sessions[request[r].id]].stopped /\ Faulty
  /\ Done(r) /\ Fault
  /\ UNCHANGED <<docker, sessions, aliases, structs, disk>>

UpdateActivity(r) ==
  /\ At(r, "touch")
  /\ structs' = [structs EXCEPT ![sessions[request[r].id]].old = FALSE]
  /\ Goto(r, "serve")
  /\ UNCHANGED <<docker, sessions, aliases, disk, book>>

\* shell, write_file and edit_file hold the session's ExecMutex.
LockExec(r) ==
  /\ At(r, "serve") /\ ~ Of(r).busy
  /\ \A id \in Ids : book.ran[id] < MaxExecs
  /\ structs' = [structs EXCEPT ![request[r].struct].busy = TRUE]
  /\ Goto(r, "run")
  /\ UNCHANGED <<docker, sessions, aliases, disk, book>>

\* AddHistoryEvent: an unreadable file is an error that is only logged.
Exec(r) ==
  /\ At(r, "run")
  /\ LET id == request[r].id
         alive == [name |-> id, cid |-> Of(r).cid] \in docker
     IN /\ disk' = IF alive /\ HasMeta(id) THEN [disk EXCEPT !.meta[id].history = @ + 1] ELSE disk
        /\ book' = IF alive THEN [book EXCEPT !.ran[id] = @ + 1] ELSE book
  /\ structs' = [structs EXCEPT ![request[r].struct].busy = FALSE]
  /\ Goto(r, "reply")
  /\ UNCHANGED <<docker, sessions, aliases>>

\* A new session is registered under the id the client was given, too.
Reply(r) ==
  /\ At(r, "reply")
  /\ aliases' = IF request[r].new THEN [aliases EXCEPT ![request[r].id] = request[r].struct] ELSE aliases
  /\ Done(r)
  /\ UNCHANGED <<docker, sessions, structs, disk, book>>

-----------------------------------------------------------------------------
(* The inactivity monitor, and restarts of the server. *)

Mapped == {s \in DOMAIN structs : \E id \in Ids : s \in {sessions[id], aliases[id]}}

TimePasses ==
  /\ \E s \in Mapped : ~ structs[s].old
  /\ structs' = [s \in DOMAIN structs |-> IF s \in Mapped THEN [structs[s] EXCEPT !.old = TRUE] ELSE structs[s]]
  /\ UNCHANGED <<docker, sessions, aliases, disk, request, book>>

\* Docker may fail to remove one; its session counts as stopped all the same.
StopInactiveContainers ==
  LET idle == {s \in Mapped : structs[s].old /\ ~ structs[s].stopped}
      theirs == {k \in docker : \E s \in idle : k.name = structs[s].id /\ k.cid = structs[s].cid}
  IN /\ idle # {}
     /\ \E kept \in SUBSET theirs :
          /\ Cardinality(kept) <= IF Faulty THEN 1 ELSE 0
          /\ docker' = docker \ (theirs \ kept)
          /\ book' = [book EXCEPT !.faults = IF kept = {} THEN @ ELSE @ + 1]
     /\ structs' = [s \in DOMAIN structs |-> IF s \in idle THEN [structs[s] EXCEPT !.stopped = TRUE] ELSE structs[s]]
     /\ UNCHANGED <<sessions, aliases, disk, request>>

\* CleanupOrphans may fail, and a crash may tear the file that is being written.
Restart ==
  /\ Faulty
  /\ docker' \in {{}, docker}
  /\ sessions' = [id \in Ids |-> None] /\ aliases' = [id \in Ids |-> None]
  /\ \/ UNCHANGED disk
     \/ \E r \in Requests :
          /\ TornWrites /\ At(r, "run")
          /\ disk' = [disk EXCEPT !.meta[request[r].id] = Torn]
  /\ request' = [r \in Requests |-> Idle]
  /\ structs' = [s \in DOMAIN structs |-> NoStruct]
  /\ book' = [book EXCEPT !.starts = 0, !.faults = @ + 1]

Next ==
  \/ \E r \in Requests :
       \/ NewSession(r) \/ NewSessionFails(r) \/ Find(r) \/ FindByAlias(r) \/ Resume(r) \/ ResumeFails(r)
       \/ RestartContainerIfNeeded(r) \/ RestartContainerFails(r) \/ UpdateActivity(r) \/ LockExec(r) \/ Exec(r) \/ Reply(r)
  \/ TimePasses \/ StopInactiveContainers \/ Restart

-----------------------------------------------------------------------------
(* Properties. *)

\* A session has the limits it was created with, however often it was stopped, resumed by
\* several requests at once, and the server restarted.
LimitsSurvive == \A id \in Ids : sessions[id] # None => structs[sessions[id]].limits = book.asked[id]

\* A session that does not count as stopped has its container: nobody else's stop took it.
ActiveSessionsHaveContainers ==
  \A id \in Ids : LET s == structs[sessions[id]]
                  IN sessions[id] # None /\ ~ s.stopped => [name |-> id, cid |-> s.cid] \in docker

\* Every tool that ran is in the session's history.
HistoryIsComplete == \A id \in Ids : book.asked[id] # None => disk.meta[id].history = book.ran[id]

\* "Session.ExecMutex ensures only one command runs per session at a time."
OneCommandAtATime ==
  \A r, q \in Requests : At(r, "run") /\ At(q, "run") /\ request[r].id = request[q].id => r = q
=============================================================================
