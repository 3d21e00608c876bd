----------------------------- MODULE ChainSync -----------------------------
(***************************************************************************)
(* The incremental download of the chain's events (agentintel/sync.go):    *)
(* one file of lines per kind of event, appended to chunk by chunk, and    *)
(* meta.json, which says up to which block they are complete.  The process *)
(* may die or fail at every step; the next one takes back what meta.json   *)
(* does not cover and goes on.                                             *)
(*                                                                         *)
(* A record is its block number; Torn is a line that is cut off.  There is *)
(* one directory of files: the code's loop over agents repeats it.         *)
(***************************************************************************)
EXTENDS Integers, Sequences, FiniteSets, Selection, SequencesExt, FiniteSetsExt

CONSTANTS
  Events,            \* what is on the chain: a set of [file, block]
  Agents,            \* agents of the registry
  ChunkSize, MaxResults, MaxDepth, MaxAttempts,
  StampFaults,       \* faults of timestamps.json: subset of {"load", "save"}
  MaxBlock, MaxFaults \* bounds: the chain's height, errors and crashes

VARIABLES
  chain,             \* [head: the latest block, aged: do the snapshots count as old?]
  disk,              \* the directory: files, meta, stamps, infos, stale, lock, faults left
  sync               \* the running process

vars == <<chain, disk, sync>>

\* The files of each family of events, in the order in which they are appended to.
Families == << <<"intents", "approvals", "rejections">>, <<"reputation">>, <<"attestations">> >>
AllFiles == Families[1] \o Families[2] \o Families[3]
Files == ToSet(AllFiles)
Blocks == 1..MaxBlock
Torn == 0

ChainSyncAssumption ==
  /\ Events \subseteq [file : Files, block : Blocks]
  /\ {ChunkSize, MaxAttempts} \subseteq Nat \ {0} /\ {MaxResults, MaxDepth, MaxFaults, MaxBlock} \subseteq Nat
  /\ StampFaults \subseteq {"load", "save"}

NoMeta == [synced |-> 0, pending |-> {}, attempts |-> [b \in Blocks |-> 0], gaveUp |-> {},
           known |-> {}, fresh |-> FALSE]
Off == [pc |-> "off", meta |-> NoMeta, from |-> 1, to |-> 0, latest |-> 0, family |-> 1,
        todo |-> << >>, seen |-> {}]

Init ==
  /\ chain = [head |-> 0, aged |-> TRUE]
  /\ disk = [files |-> [f \in Files |-> << >>], meta |-> NoMeta, stamps |-> {}, infos |-> {},
             stale |-> Agents, lock |-> FALSE, faults |-> MaxFaults]
  /\ sync = Off

At(pc) == sync.pc = pc

\* The blocks in from..to with an event for file f, in order.
OnChain(f, from, to) == Select([b \in Blocks |-> b], {b \in from..to : [file |-> f, block |-> b] \in Events})

-----------------------------------------------------------------------------
(* Files of lines. *)

\* A line written behind a torn one is lost in it.
Appended(lines, records) ==
  IF lines # << >> /\ records # << >> /\ Last(lines) = Torn THEN lines \o Tail(records)
  ELSE lines \o records

\* Mutant: the record at the checkpoint is dropped too.
TrimFromBlock(lines, synced) == Select(lines, {b \in Blocks : b < synced})

TrimJSONLAfterBlock(lines, synced) == Select(lines, {b \in Blocks : b <= synced})

\* Can ReadJSONL read the file?  It forgives a torn last line only.
Readable(lines) == \A i \in 1..(Len(lines) - 1) : lines[i] # Torn

-----------------------------------------------------------------------------
(* The process. *)

\* A query with more than MaxResults results is halved, down to MaxDepth times.
FilterLogs(f, from, to) ==
  LET Bisect[left \in 0..MaxDepth] == [range \in Blocks \X (0..MaxBlock) |->
        LET first == range[1]
            last == range[2]
            mid == first + (last - first) \div 2
            logs == OnChain(f, first, last)
        IN IF Len(logs) <= MaxResults THEN [ok |-> TRUE, logs |-> logs]
           ELSE IF left = 0 \/ first >= last THEN [ok |-> FALSE, logs |-> << >>]
           ELSE LET lower == Bisect[left - 1][<<first, mid>>]
                    upper == Bisect[left - 1][<<mid + 1, last>>]
                IN [ok |-> lower.ok /\ upper.ok, logs |-> lower.logs \o upper.logs]]
  IN Bisect[MaxDepth][<<from, to>>]

Goto(pc) == sync' = [sync EXCEPT !.pc = pc]

AcquireSyncLock ==
  /\ At("off") /\ ~ disk.lock
  /\ disk' = [disk EXCEPT !.lock = TRUE]
  /\ sync' = [Off EXCEPT !.pc = "rewind", !.meta = disk.meta, !.todo = AllFiles]
  /\ UNCHANGED chain

\* One file at a time, each replaced by a rename.
rewindUncommittedEvents ==
  /\ At("rewind")
  /\ disk' = [disk EXCEPT !.files[Head(sync.todo)] = TrimJSONLAfterBlock(@, sync.meta.synced)]
  /\ sync' = [sync EXCEPT !.todo = Tail(@), !.pc = IF Len(sync.todo) = 1 THEN "discover" ELSE @]
  /\ UNCHANGED chain

\* Agents whose registration cannot be read are left for the next run.
discoverAgents ==
  /\ At("discover")
  /\ \E found \in SUBSET (Agents \ disk.infos) :
       LET infos == disk.infos \cup found
           fault == IF infos = Agents THEN 0 ELSE 1
       IN /\ disk.faults >= fault
          /\ disk' = [disk EXCEPT !.infos = infos, !.faults = @ - fault]
          /\ sync' = [sync EXCEPT !.pc = "height", !.meta.known = @ \cup infos]
  /\ UNCHANGED chain

\* BlockNumber, and where the events phase starts.
ReadHeight ==
  /\ At("height")
  /\ sync' = [sync EXCEPT !.from = sync.meta.synced + 1, !.latest = chain.head,
                         !.pc = IF sync.meta.synced < chain.head THEN "fetch" ELSE "state"]
  /\ UNCHANGED <<chain, disk>>

ChunkEnd == Min({sync.from + ChunkSize - 1, sync.latest})
Fetched(f) == FilterLogs(f, sync.from, ChunkEnd)

\* All logs of a family are there before the first of its files is written.
FetchLogs ==
  LET files == Select(Families[sync.family], {f \in Files : Fetched(f).logs # << >>}) IN
  /\ At("fetch")
  /\ \A f \in ToSet(Families[sync.family]) : Fetched(f).ok
  /\ sync' = [sync EXCEPT !.pc = "append", !.todo = files,
                         !.seen = @ \cup UNION {ToSet(Fetched(f).logs) : f \in ToSet(files)}]
  /\ UNCHANGED <<chain, disk>>

AppendJSONL ==
  /\ At("append") /\ sync.todo # << >>
  /\ disk' = [disk EXCEPT !.files[Head(sync.todo)] = Appended(@, Fetched(Head(sync.todo)).logs)]
  /\ sync' = [sync EXCEPT !.todo = Tail(@)]
  /\ UNCHANGED chain

FamilyDone ==
  /\ At("append") /\ sync.todo = << >>
  /\ sync' = IF sync.family < Len(Families)
             THEN [sync EXCEPT !.pc = "fetch", !.family = @ + 1]
             ELSE [sync EXCEPT !.pc = "resolve", !.family = 1]
  /\ UNCHANGED <<chain, disk>>

\* The timestamps of the chunk's blocks and of those left over; failed: those whose header
\* cannot be read.  What fails MaxAttempts times is given up.
resolveNewBlocks ==
  LET missing == (sync.seen \cup sync.meta.pending) \ disk.stamps IN
  /\ At("resolve")
  /\ \E failed \in SUBSET missing, fault \in {"none"} \cup StampFaults :
       LET tried == [b \in Blocks |-> IF b \in failed THEN sync.meta.attempts[b] + 1
                                     ELSE IF b \in missing THEN 0 ELSE sync.meta.attempts[b]]
           gaveUp == {b \in failed : tried[b] >= MaxAttempts}
           meta == [sync.meta EXCEPT
                      !.pending = failed \ gaveUp, !.gaveUp = @ \cup gaveUp,
                      !.attempts = [b \in Blocks |-> IF b \in gaveUp \/ missing = {} THEN 0 ELSE tried[b]]]
           faults == (IF failed = {} THEN 0 ELSE 1) + (IF fault = "none" THEN 0 ELSE 1)
       IN /\ fault = "load" => failed = {}
          /\ faults <= disk.faults
          /\ sync' = [sync EXCEPT !.pc = "checkpoint", !.seen = {}, !.meta = IF fault = "load" THEN @ ELSE meta]
          /\ disk' = [disk EXCEPT !.faults = @ - faults,
                                 !.stamps = IF fault = "none" THEN @ \cup (missing \ failed) ELSE @]
  /\ UNCHANGED chain

Checkpoint ==
  LET meta == [sync.meta EXCEPT !.synced = ChunkEnd] IN
  /\ At("checkpoint")
  /\ disk' = [disk EXCEPT !.meta = meta]
  /\ sync' = [sync EXCEPT !.meta = meta, !.from = ChunkEnd + 1,
                         !.pc = IF ChunkEnd < sync.latest THEN "fetch" ELSE "state"]
  /\ UNCHANGED chain

\* The snapshots of the known agents, unless they are recent.
syncState ==
  /\ At("state")
  /\ \E failed \in SUBSET sync.meta.known :
       LET skip == sync.meta.fresh /\ ~ chain.aged
           fault == IF failed = {} THEN 0 ELSE 1
       IN /\ fault <= disk.faults /\ (skip => failed = {})
          /\ disk' = [disk EXCEPT !.stale = IF skip THEN @ ELSE @ \ (sync.meta.known \ failed),
                                 !.faults = @ - fault]
          /\ sync' = [sync EXCEPT !.pc = "save", !.meta.fresh = IF skip THEN @ ELSE failed = {}]
          /\ chain' = [chain EXCEPT !.aged = @ /\ failed # {}]

SaveMeta ==
  /\ At("save")
  /\ disk' = [disk EXCEPT !.meta = sync.meta, !.lock = FALSE]
  /\ sync' = Off
  /\ UNCHANGED chain

\* An error ends the process, which removes its lock; a crash leaves it there.  Both may
\* leave a part of the lines of an append, the last one cut off.
Ends ==
  /\ ~ At("off") /\ disk.faults > 0
  /\ \E lock \in BOOLEAN :
       LET appending == At("append") /\ sync.todo # << >>
           f == Head(sync.todo)
       IN \E n \in 0..(IF appending THEN Len(Fetched(f).logs) ELSE 0), torn \in {<< >>, <<Torn>>} :
            /\ torn # << >> => appending /\ n < Len(Fetched(f).logs)
            /\ disk' = [disk EXCEPT !.lock = lock, !.faults = @ - 1,
                  !.files = IF ~ appending THEN disk.files
                            ELSE [disk.files EXCEPT ![f] = Appended(disk.files[f], SubSeq(Fetched(f).logs, 1, n)) \o torn]]
  /\ sync' = Off
  /\ UNCHANGED chain

-----------------------------------------------------------------------------
(* Around it. *)

\* An operator deletes the lock of a dead process.
DeleteStaleLock ==
  /\ At("off") /\ disk.lock
  /\ disk' = [disk EXCEPT !.lock = FALSE]
  /\ UNCHANGED <<chain, sync>>

NewBlock ==
  /\ chain.head < MaxBlock
  /\ chain' = [chain EXCEPT !.head = @ + 1]
  /\ UNCHANGED <<disk, sync>>

\* stateMaxAge passes.
Age ==
  /\ ~ chain.aged
  /\ chain' = [chain EXCEPT !.aged = TRUE]
  /\ disk' = [disk EXCEPT !.stale = Agents]
  /\ UNCHANGED sync

Next ==
  \/ AcquireSyncLock \/ rewindUncommittedEvents \/ discoverAgents \/ ReadHeight \/ FetchLogs
  \/ AppendJSONL \/ FamilyDone \/ resolveNewBlocks \/ Checkpoint \/ syncState \/ SaveMeta \/ Ends
  \/ DeleteStaleLock \/ NewBlock \/ Age

-----------------------------------------------------------------------------
(* Properties. *)

\* What meta.json covers is in the files once and in order, whatever was cut off before;
\* and every file can be read.
FilesMatchChain ==
  \A f \in Files :
    /\ Select(disk.files[f], {b \in Blocks : b <= disk.meta.synced}) = OnChain(f, 1, disk.meta.synced)
    /\ Readable(disk.files[f])

\* A block with events gets its timestamp, is to be tried again, or has been given up after
\* MaxAttempts; so the trades in it are never left out of the profits by accident.
EventBlocksAreStamped ==
  \A e \in Events : e.block <= disk.meta.synced
    => e.block \in disk.stamps \cup disk.meta.pending \cup disk.meta.gaveUp
=============================================================================
