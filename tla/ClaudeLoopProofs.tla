-------------------------- MODULE ClaudeLoopProofs --------------------------
(***************************************************************************)
(* For any numbers of session goroutines, alerts, messages, faults and     *)
(* restarts: one Claude process at a time, a daily cap that holds across   *)
(* restarts, kills that do not count as errors, and a /clear that is never *)
(* missed; each but for the window in which a skipped session clears       *)
(* sessionActive twice.  The invariant says which session sessionCancel    *)
(* names, which flag still explains a kill, and how the counter of the day *)
(* relates to the trail it is restored from.                               *)
(***************************************************************************)
EXTENDS ClaudeLoop, FiniteSetTheorems, TLAPS

Pcs == {"none", "begin", "triage", "count", "mode", "start", "run", "check", "send", "sent"}
\* Where sessionCancel names the session, and where it has not passed the cap yet.
Cancellable == {"mode", "start", "run", "check"}
Uncounted == {"triage", "count"}

RunType ==
  [pc : Pcs, alerts : SUBSET Alerts, mode : {"none", "fresh", "continue", "after_clear"},
   claude : {"off", "working", "idle", "exited"}, killed : BOOLEAN, failed : BOOLEAN, fatal : BOOLEAN]

DrainType == [pc : {"free", "queue", "cancel", "kill"}, msg : Messages \cup {Nobody}, target : Runs \cup {Nobody}]

LoopTypes ==
  /\ run \in [Runs -> RunType]
  /\ active \in BOOLEAN /\ recycle \in BOOLEAN /\ clear \in BOOLEAN /\ force \in BOOLEAN
  /\ pipe \in Runs \cup {Nobody} /\ cancel \in Runs \cup {Nobody}
  /\ drain \in DrainType
  /\ alerts \subseteq Alerts
  /\ done \in Seq(BOOLEAN)
  /\ timer \in {"off", "set", "due"}
  /\ errors \in Nat
  /\ window \in Windows

CountTypes ==
  /\ daily \in Nat /\ num \in Nat
  /\ day \in 1..MaxDay /\ lastReset \in 1..day
  /\ trail \in [1..MaxDay -> Nat]

\* At most one session is under way, sessionActive says so, and its process lives only
\* while Executor.Run runs.
OneSession ==
  /\ \A g, h \in Runs : run[g].pc # "none" /\ run[h].pc # "none" => g = h
  /\ \A g \in Runs : run[g].pc # "none" => active
  /\ \A g \in Runs : Alive(g) => At(g, "run")

\* sessionCancel is the session's while it can be killed.
CancelIsCurrent ==
  \A g \in Runs : /\ cancel = g <=> run[g].pc \in Cancellable
                  /\ run[g].killed => run[g].pc \in Cancellable \cup {"send", "sent"}

\* A kill under way is still known when the session ends.
KillsAreKnown ==
  /\ \A g \in Runs : run[g].killed /\ run[g].pc \in Cancellable => clear \/ (recycle /\ done = << >>)
  /\ timer = "due" /\ done # << >> => \A g \in Runs : run[g].pc \in {"none", "sent"}

\* /clear is on its way to a session that would continue the conversation.
ClearReaches ==
  \A g \in Runs : At(g, "start") /\ run[g].mode = "continue" /\ force =>
    \/ drain.pc = "cancel"
    \/ drain.pc = "kill" /\ drain.target = g
    \/ run[g].killed

Extra(d) == IF d = 1 THEN 0 ELSE 1
CapInv ==
  MaxSessionsPerDay > 0 =>
  /\ \A d \in 1..MaxDay : trail[d] <= MaxSessionsPerDay + Extra(d)
  /\ \A d \in 1..MaxDay : d > day => trail[d] = 0
  /\ lastReset = day => trail[day] <= daily + Extra(day)
  /\ lastReset # day => trail[day] <= 1
  /\ \A g \in Runs : run[g].pc \in Uncounted =>
       IF lastReset = day THEN daily < MaxSessionsPerDay ELSE trail[day] = 0

LoopInv == LoopTypes /\ CountTypes /\ OneSession /\ CancelIsCurrent /\ KillsAreKnown /\ ClearReaches

-----------------------------------------------------------------------------
(* What a step does to the session it moves. *)

\* A step gives the record of session g these fields and leaves the other sessions alone.
Moves(g, to, mode, claude, killed) ==
  /\ run' \in [Runs -> RunType]
  /\ \A h \in Runs \ {g} : run'[h] = run[h]
  /\ run'[g].pc = to /\ run'[g].mode = mode
  /\ run'[g].claude = claude /\ run'[g].killed = killed

LEMMA Change ==
  ASSUME run \in [Runs -> RunType], NEW g \in Runs, NEW r \in RunType, run' = [run EXCEPT ![g] = r]
  PROVE  Moves(g, r.pc, r.mode, r.claude, r.killed)
BY DEF Moves

LEMMA MovePc ==
  ASSUME run \in [Runs -> RunType], NEW g \in Runs, NEW to \in Pcs, run' = [run EXCEPT ![g].pc = to]
  PROVE  Moves(g, to, run[g].mode, run[g].claude, run[g].killed)
<1> DEFINE r == [run[g] EXCEPT !.pc = to]
<1>1. r \in RunType /\ r.pc = to /\ r.mode = run[g].mode /\ r.claude = run[g].claude /\ r.killed = run[g].killed
  BY DEF RunType
<1>2. run' = [run EXCEPT ![g] = r]
  OBVIOUS
<1> HIDE DEF r
<1> QED BY <1>1, <1>2, Change

LEMMA MoveStart ==
  ASSUME run \in [Runs -> RunType], NEW g \in Runs, NEW a \in SUBSET Alerts,
         run' = [run EXCEPT ![g] = [NoRun EXCEPT !.pc = "begin", !.alerts = a]]
  PROVE  Moves(g, "begin", "none", "off", FALSE)
<1> DEFINE r == [NoRun EXCEPT !.pc = "begin", !.alerts = a]
<1>1. r \in RunType /\ r.pc = "begin" /\ r.mode = "none" /\ r.claude = "off" /\ r.killed = FALSE
  BY DEF RunType, NoRun, Pcs
<1>2. run' = [run EXCEPT ![g] = r]
  OBVIOUS
<1> HIDE DEF r
<1> QED BY <1>1, <1>2, Change

LEMMA MoveEnd ==
  ASSUME run \in [Runs -> RunType], NEW g \in Runs, run' = [run EXCEPT ![g] = NoRun]
  PROVE  Moves(g, "none", "none", "off", FALSE)
<1>1. NoRun \in RunType /\ NoRun.pc = "none" /\ NoRun.mode = "none" /\ NoRun.claude = "off" /\ NoRun.killed = FALSE
  BY DEF RunType, NoRun, Pcs
<1> QED BY <1>1, Change

LEMMA MoveClaude ==
  ASSUME run \in [Runs -> RunType], NEW g \in Runs, NEW c \in {"working", "idle"}, run' = [run EXCEPT ![g].claude = c]
  PROVE  Moves(g, run[g].pc, run[g].mode, c, run[g].killed)
<1> DEFINE r == [run[g] EXCEPT !.claude = c]
<1>1. r \in RunType /\ r.pc = run[g].pc /\ r.mode = run[g].mode /\ r.claude = c /\ r.killed = run[g].killed
  BY DEF RunType
<1>2. run' = [run EXCEPT ![g] = r]
  OBVIOUS
<1> HIDE DEF r
<1> QED BY <1>1, <1>2, Change

LEMMA MoveKilled ==
  ASSUME run \in [Runs -> RunType], NEW g \in Runs, run' = [run EXCEPT ![g].killed = TRUE]
  PROVE  Moves(g, run[g].pc, run[g].mode, run[g].claude, TRUE)
<1> DEFINE r == [run[g] EXCEPT !.killed = TRUE]
<1>1. r \in RunType /\ r.pc = run[g].pc /\ r.mode = run[g].mode /\ r.claude = run[g].claude /\ r.killed = TRUE
  BY DEF RunType
<1>2. run' = [run EXCEPT ![g] = r]
  OBVIOUS
<1> HIDE DEF r
<1> QED BY <1>1, <1>2, Change

LEMMA ReadFlagsMoves ==
  ASSUME run \in [Runs -> RunType], NEW g \in Runs, ReadFlags(g)
  PROVE  Moves(g, "start", Mode(g), run[g].claude, run[g].killed)
<1> DEFINE r == [run[g] EXCEPT !.pc = "start", !.mode = Mode(g)]
<1>0. Mode(g) \in {"fresh", "continue", "after_clear"}
  BY DEF Mode
<1>1. r \in RunType /\ r.pc = "start" /\ r.mode = Mode(g) /\ r.claude = run[g].claude /\ r.killed = run[g].killed
  BY <1>0, ZenonT(60) DEF RunType, Pcs
<1>2. run' = [run EXCEPT ![g] = r]
  BY DEF ReadFlags
<1> HIDE DEF r
<1> QED BY <1>1, <1>2, Change

LEMMA StartMoves ==
  ASSUME run \in [Runs -> RunType], NEW g \in Runs, StartClaude(g)
  PROVE  \/ Moves(g, "run", run[g].mode, "working", run[g].killed) /\ pipe' = g
         \/ Moves(g, "check", run[g].mode, "exited", run[g].killed) /\ pipe' = Nobody
<1>1. CASE run' = [run EXCEPT ![g].pc = "run", ![g].claude = "working"] /\ pipe' = g
  <2> DEFINE r == [run[g] EXCEPT !.pc = "run", !.claude = "working"]
  <2>1. r \in RunType /\ r.pc = "run" /\ r.mode = run[g].mode /\ r.claude = "working" /\ r.killed = run[g].killed
    BY ZenonT(60) DEF RunType, Pcs
  <2>2. run' = [run EXCEPT ![g] = r]
    BY <1>1
  <2> HIDE DEF r
  <2>3. pipe' = g
    BY <1>1
  <2>4. Moves(g, r.pc, r.mode, r.claude, r.killed)
    BY <2>1, <2>2, Change
  <2> QED BY <2>1, <2>3, <2>4
<1>2. CASE run' = [run EXCEPT ![g].pc = "check", ![g].claude = "exited", ![g].failed = TRUE] /\ pipe' = Nobody
  <2> DEFINE r == [run[g] EXCEPT !.pc = "check", !.claude = "exited", !.failed = TRUE]
  <2>1. r \in RunType /\ r.pc = "check" /\ r.mode = run[g].mode /\ r.claude = "exited" /\ r.killed = run[g].killed
    BY ZenonT(60) DEF RunType, Pcs
  <2>2. run' = [run EXCEPT ![g] = r]
    BY <1>2
  <2> HIDE DEF r
  <2>3. pipe' = Nobody
    BY <1>2
  <2>4. Moves(g, r.pc, r.mode, r.claude, r.killed)
    BY <2>1, <2>2, Change
  <2> QED BY <2>1, <2>3, <2>4
<1> QED BY <1>1, <1>2 DEF StartClaude

LEMMA ExitsMoves ==
  ASSUME run \in [Runs -> RunType], NEW g \in Runs, Exits(g)
  PROVE  Moves(g, run[g].pc, run[g].mode, "exited", run[g].killed)
<1>1. PICK failed \in BOOLEAN, fatal \in BOOLEAN :
        run' = [run EXCEPT ![g].claude = "exited", ![g].failed = failed, ![g].fatal = fatal]
  <2>1. CASE run' = [run EXCEPT ![g].claude = "exited", ![g].failed = TRUE]
    <3> run' = [run EXCEPT ![g].claude = "exited", ![g].failed = TRUE, ![g].fatal = run[g].fatal]
      BY <2>1 DEF RunType
    <3> run[g].fatal \in BOOLEAN
      BY DEF RunType
    <3> QED OBVIOUS
  <2> QED BY <2>1 DEF Exits
<1> DEFINE r == [run[g] EXCEPT !.claude = "exited", !.failed = failed, !.fatal = fatal]
<1>2. r \in RunType /\ r.pc = run[g].pc /\ r.mode = run[g].mode /\ r.claude = "exited" /\ r.killed = run[g].killed
  BY ZenonT(60) DEF RunType
<1>3. run' = [run EXCEPT ![g] = r]
  BY <1>1
<1> HIDE DEF r
<1> QED BY <1>2, <1>3, Change

LEMMA CheckMoves ==
  ASSUME run \in [Runs -> RunType], NEW g \in Runs, Check(g)
  PROVE  Moves(g, "send", run[g].mode, run[g].claude, run[g].killed)
<1>1. PICK fatal \in BOOLEAN : run' = [run EXCEPT ![g].pc = "send", ![g].fatal = fatal]
  BY DEF Check, RunType
<1> DEFINE r == [run[g] EXCEPT !.pc = "send", !.fatal = fatal]
<1>2. r \in RunType /\ r.pc = "send" /\ r.mode = run[g].mode /\ r.claude = run[g].claude /\ r.killed = run[g].killed
  BY ZenonT(60) DEF RunType, Pcs
<1>3. run' = [run EXCEPT ![g] = r]
  BY <1>1
<1> HIDE DEF r
<1> QED BY <1>2, <1>3, Change

-----------------------------------------------------------------------------
(* What each step does to the invariant. *)

\* A new session begins where there was none.
Opens ==
  /\ ~ active /\ active' = TRUE /\ alerts' = {}
  /\ \E g \in Runs : run[g].pc = "none" /\ Moves(g, "begin", "none", "off", FALSE)

\* A step that leaves the counters of sessions alone, and has no session pass the cap's check.
Uncounting ==
  /\ UNCHANGED <<trail, day, daily, lastReset>>
  /\ \A h \in Runs : run'[h].pc \in Uncounted => run[h].pc \in Uncounted

\* A message reaches the Claude process that listens.
Injects ==
  pipe \in Runs /\ Alive(pipe) /\ Moves(pipe, run[pipe].pc, run[pipe].mode, "working", run[pipe].killed)

LEMMA SpareIsFree == Free # {} => Spare \in Runs /\ run[Spare].pc = "none"
BY DEF Free, Spare

LEMMA AsyncOpens ==
  ASSUME LoopInv, startSessionAsync PROVE UNCHANGED <<run, active, alerts>> \/ Opens
<1>1. CASE ~ active
  <2>1. Spare \in Runs /\ run[Spare].pc = "none"
    BY <1>1, SpareIsFree DEF startSessionAsync
  <2>2. run \in [Runs -> RunType] /\ alerts \in SUBSET Alerts
    BY DEF LoopInv, LoopTypes
  <2>3. run' = [run EXCEPT ![Spare] = [NoRun EXCEPT !.pc = "begin", !.alerts = alerts]] /\ active' = TRUE /\ alerts' = {}
    BY <1>1 DEF startSessionAsync
  <2>4. Moves(Spare, "begin", "none", "off", FALSE)
    BY <2>1, <2>2, <2>3, MoveStart
  <2> QED BY <1>1, <2>1, <2>3, <2>4 DEF Opens
<1> QED BY <1>1 DEF startSessionAsync

LEMMA PollMoves ==
  ASSUME LoopInv, NEW polled \in SUBSET Alerts, NEW calm \in BOOLEAN, handleAlertPoll(polled, calm)
  PROVE  \/ UNCHANGED <<run, active, timer>>
         \/ UNCHANGED active /\ timer' = "off" /\ Injects
         \/ timer' = "off" /\ Opens
<1> DEFINE new == polled \ alerts
<1>0. run \in [Runs -> RunType] /\ alerts \in SUBSET Alerts /\ pipe \in Runs \cup {Nobody} /\ active \in BOOLEAN
  BY DEF LoopInv, LoopTypes
<1>1. CASE active /\ Listening
  <2>1. run' = [run EXCEPT ![pipe].claude = "working"] /\ UNCHANGED active /\ timer' = "off"
    BY <1>1 DEF handleAlertPoll, Injected
  <2>2. pipe \in Runs /\ Alive(pipe)
    BY <1>0, <1>1 DEF Listening
  <2> QED BY <1>0, <2>1, <2>2, MoveClaude DEF Injects
<1>2. CASE ~ active /\ calm
  <2>1. /\ Free # {} /\ active' = TRUE /\ alerts' = {} /\ timer' = "off"
        /\ run' = [run EXCEPT ![Spare] = [NoRun EXCEPT !.pc = "begin", !.alerts = alerts \cup new]]
    BY <1>2 DEF handleAlertPoll
  <2>2. Spare \in Runs /\ run[Spare].pc = "none"
    BY <2>1, SpareIsFree
  <2>3. alerts \cup new \in SUBSET Alerts
    BY <1>0
  <2> HIDE DEF new
  <2>4. Moves(Spare, "begin", "none", "off", FALSE)
    BY <1>0, <2>1, <2>2, <2>3, MoveStart
  <2> QED BY <1>2, <2>1, <2>2, <2>4 DEF Opens
<1>3. CASE (active /\ ~ Listening) \/ (~ active /\ ~ calm)
  BY <1>3 DEF handleAlertPoll
<1> QED BY <1>0, <1>1, <1>2, <1>3

LEMMA ReceiveMoves ==
  ASSUME LoopInv, NEW m \in Messages, Receive(m) PROVE UNCHANGED run \/ Injects
<1>0. run \in [Runs -> RunType] /\ pipe \in Runs \cup {Nobody}
  BY DEF LoopInv, LoopTypes
<1>1. CASE run' = Injected /\ Listening
  <2>1. run' = [run EXCEPT ![pipe].claude = "working"]
    BY <1>1 DEF Injected
  <2>2. pipe \in Runs /\ Alive(pipe)
    BY <1>0, <1>1 DEF Listening
  <2> QED BY <1>0, <2>1, <2>2, MoveClaude DEF Injects
<1> QED BY <1>1 DEF Receive

LEMMA KillMoves ==
  ASSUME LoopInv, ClearKills
  PROVE  \/ UNCHANGED run /\ cancel # drain.target
         \/ /\ cancel = drain.target /\ cancel \in Runs
            /\ Moves(cancel, run[cancel].pc, run[cancel].mode, run[cancel].claude, TRUE)
         \/ UNCHANGED run /\ cancel = Nobody
<1>0. run \in [Runs -> RunType] /\ cancel \in Runs \cup {Nobody}
  BY DEF LoopInv, LoopTypes
<1>1. CASE cancel = drain.target /\ cancel \in Runs
  <2>1. run' = [run EXCEPT ![cancel].killed = TRUE]
    BY <1>1 DEF ClearKills
  <2> QED BY <1>0, <1>1, <2>1, MoveKilled
<1>2. CASE cancel = drain.target /\ cancel = Nobody
  <2>1. run' = [run EXCEPT ![cancel].killed = TRUE]
    BY <1>2 DEF ClearKills
  <2>2. cancel \notin DOMAIN run
    BY <1>0, <1>2, ClaudeLoopAssumption
  <2>3. run' = run
    BY <1>0, <2>1, <2>2
  <2> QED BY <1>2, <2>3
<1>3. CASE cancel # drain.target
  BY <1>3 DEF ClearKills
<1> QED BY <1>0, <1>1, <1>2, <1>3

LEMMA BeginKeeps ==
  ASSUME LoopInv, "skip" \notin Windows, NEW g \in Runs, Begin(g) PROVE LoopInv' /\ UNCHANGED errors
<1>1. \E to \in {"send", "triage", "count"} : Moves(g, to, run[g].mode, run[g].claude, run[g].killed)
  BY MovePc DEF Begin, Skip, Pcs, LoopInv, LoopTypes
<1>2. /\ run[g].pc = "begin" /\ daily' \in Nat /\ lastReset' = day /\ active' = active
         /\ UNCHANGED <<recycle, clear, force, cancel, pipe, drain, alerts, done, timer, errors,
                        window, num, trail, day>>
  BY DEF Begin, Skip, At, MayRace, resetDailyCounterIfNeeded, LoopInv, LoopTypes, CountTypes,
      loopVars
<1>3. LoopTypes'
  BY <1>1, <1>2, ClaudeLoopAssumption DEF LoopInv, LoopTypes, DrainType, OneSession, At, Alive,
      Moves
<1>4. CountTypes'
  BY <1>1, <1>2, ClaudeLoopAssumption DEF LoopInv, CountTypes
<1>5. OneSession'
  BY <1>1, <1>2 DEF LoopInv, LoopTypes, DrainType, OneSession, At, Alive, Moves
<1>6. CancelIsCurrent'
  BY <1>1, <1>2, ClaudeLoopAssumption DEF LoopInv, LoopTypes, DrainType, OneSession, At, Alive,
      Moves, CancelIsCurrent, Cancellable
<1>7. KillsAreKnown'
  BY <1>1, <1>2, ClaudeLoopAssumption DEF LoopInv, LoopTypes, DrainType, OneSession, At, Alive,
      Moves, CancelIsCurrent, Cancellable, KillsAreKnown
<1>8. ClearReaches'
  BY <1>1, <1>2, ClaudeLoopAssumption DEF LoopInv, LoopTypes, DrainType, OneSession, At, Alive,
      Moves, CancelIsCurrent, Cancellable, ClearReaches, Mode
<1>9. UNCHANGED errors
  BY <1>2
<1> QED BY <1>3, <1>4, <1>5, <1>6, <1>7, <1>8, <1>9 DEF LoopInv

LEMMA TriageKeeps ==
  ASSUME LoopInv, "skip" \notin Windows, NEW g \in Runs, runTriageSession(g) PROVE LoopInv' /\ Uncounting /\ UNCHANGED errors
<1>1. \E to \in {"send", "count"} : Moves(g, to, run[g].mode, run[g].claude, run[g].killed)
  BY MovePc DEF runTriageSession, Skip, Pcs, LoopInv, LoopTypes
<1>2. /\ run[g].pc = "triage" /\ active' = active
         /\ UNCHANGED <<recycle, clear, force, cancel, pipe, drain, alerts, done, timer, errors,
                        window, daily, num, lastReset, trail, day>>
  BY DEF runTriageSession, Skip, At, MayRace, LoopInv, LoopTypes, loopVars, flagVars, countVars
<1>3. LoopTypes'
  BY <1>1, <1>2, ClaudeLoopAssumption DEF LoopInv, LoopTypes, DrainType, OneSession, At, Alive,
      Moves
<1>4. CountTypes'
  BY <1>1, <1>2, ClaudeLoopAssumption DEF LoopInv, CountTypes
<1>5. OneSession'
  BY <1>1, <1>2 DEF LoopInv, LoopTypes, DrainType, OneSession, At, Alive, Moves
<1>6. CancelIsCurrent'
  BY <1>1, <1>2, ClaudeLoopAssumption DEF LoopInv, LoopTypes, DrainType, OneSession, At, Alive,
      Moves, CancelIsCurrent, Cancellable
<1>7. KillsAreKnown'
  BY <1>1, <1>2, ClaudeLoopAssumption DEF LoopInv, LoopTypes, DrainType, OneSession, At, Alive,
      Moves, CancelIsCurrent, Cancellable, KillsAreKnown
<1>8. ClearReaches'
  BY <1>1, <1>2, ClaudeLoopAssumption DEF LoopInv, LoopTypes, DrainType, OneSession, At, Alive,
      Moves, CancelIsCurrent, Cancellable, ClearReaches, Mode
<1>9. Uncounting /\ UNCHANGED errors
  BY <1>1, <1>2 DEF Uncounting, Uncounted, Moves, LoopInv, OneSession
<1> QED BY <1>3, <1>4, <1>5, <1>6, <1>7, <1>8, <1>9 DEF LoopInv

LEMMA CountKeeps ==
  ASSUME LoopInv, "skip" \notin Windows, NEW g \in Runs, Count(g) PROVE LoopInv' /\ UNCHANGED errors
<1>1. Moves(g, "mode", run[g].mode, run[g].claude, run[g].killed)
  BY MovePc DEF Count, Pcs, LoopInv, LoopTypes
<1>2. /\ run[g].pc = "count" /\ num' \in Nat /\ daily' \in Nat /\ trail' \in [1..MaxDay -> Nat] /\ clear' = FALSE /\ cancel' = g
         /\ UNCHANGED <<active, recycle, force, pipe, drain, alerts, done, timer, errors, window,
                        lastReset, day>>
  BY SMTT(60) DEF Count, At, Saturated, LoopInv, LoopTypes, CountTypes, loopVars
<1>3. LoopTypes'
  BY <1>1, <1>2, ClaudeLoopAssumption DEF LoopInv, LoopTypes, DrainType, OneSession, At, Alive,
      Moves
<1>4. CountTypes'
  BY <1>1, <1>2, ClaudeLoopAssumption DEF LoopInv, CountTypes
<1>5. OneSession'
  BY <1>1, <1>2 DEF LoopInv, LoopTypes, DrainType, OneSession, At, Alive, Moves
<1>6. CancelIsCurrent'
  BY <1>1, <1>2, ClaudeLoopAssumption DEF LoopInv, LoopTypes, DrainType, OneSession, At, Alive,
      Moves, CancelIsCurrent, Cancellable
<1>7. KillsAreKnown'
  BY <1>1, <1>2, ClaudeLoopAssumption, SMTT(60) DEF LoopInv, LoopTypes, DrainType, OneSession, At, Alive,
      Moves, CancelIsCurrent, Cancellable, KillsAreKnown
<1>8. ClearReaches'
  BY <1>1, <1>2, ClaudeLoopAssumption DEF LoopInv, LoopTypes, DrainType, OneSession, At, Alive,
      Moves, CancelIsCurrent, Cancellable, ClearReaches, Mode
<1>9. UNCHANGED errors
  BY <1>2
<1> QED BY <1>3, <1>4, <1>5, <1>6, <1>7, <1>8, <1>9 DEF LoopInv

LEMMA ReadFlagsKeeps ==
  ASSUME LoopInv, "skip" \notin Windows, NEW g \in Runs, ReadFlags(g) PROVE LoopInv' /\ Uncounting /\ UNCHANGED errors
<1>1. Moves(g, "start", Mode(g), run[g].claude, run[g].killed)
  BY ReadFlagsMoves DEF LoopInv, LoopTypes
<1>2. /\ run[g].pc = "mode" /\ force' = FALSE
         /\ UNCHANGED <<active, recycle, clear, cancel, pipe, drain, alerts, done, timer, errors,
                        window, daily, num, lastReset, trail, day>>
  BY DEF ReadFlags, At, loopVars, countVars
<1>3. LoopTypes'
  BY <1>1, <1>2, ClaudeLoopAssumption, ZenonT(60) DEF LoopInv, LoopTypes, DrainType, OneSession, At, Alive,
      Moves
<1>4. CountTypes'
  BY <1>1, <1>2, ClaudeLoopAssumption DEF LoopInv, CountTypes
<1>5. OneSession'
  BY <1>1, <1>2 DEF LoopInv, LoopTypes, DrainType, OneSession, At, Alive, Moves
<1>6. CancelIsCurrent'
  BY <1>1, <1>2, ClaudeLoopAssumption DEF LoopInv, LoopTypes, DrainType, OneSession, At, Alive,
      Moves, CancelIsCurrent, Cancellable
<1>7. KillsAreKnown'
  BY <1>1, <1>2, ClaudeLoopAssumption DEF LoopInv, LoopTypes, DrainType, OneSession, At, Alive,
      Moves, CancelIsCurrent, Cancellable, KillsAreKnown
<1>8. ClearReaches'
  BY <1>1, <1>2, ClaudeLoopAssumption DEF LoopInv, LoopTypes, DrainType, OneSession, At, Alive,
      Moves, CancelIsCurrent, Cancellable, ClearReaches, Mode
<1>9. Uncounting /\ UNCHANGED errors
  BY <1>1, <1>2 DEF Uncounting, Uncounted, Moves, LoopInv, OneSession
<1> QED BY <1>3, <1>4, <1>5, <1>6, <1>7, <1>8, <1>9 DEF LoopInv

LEMMA StartClaudeKeeps ==
  ASSUME LoopInv, "skip" \notin Windows, NEW g \in Runs, StartClaude(g) PROVE LoopInv' /\ Uncounting /\ UNCHANGED errors
<1>1. \/ Moves(g, "run", run[g].mode, "working", run[g].killed) /\ pipe' = g
      \/ Moves(g, "check", run[g].mode, "exited", run[g].killed) /\ pipe' = Nobody
  BY StartMoves DEF LoopInv, LoopTypes
<1>2. /\ run[g].pc = "start"
         /\ UNCHANGED <<active, recycle, clear, force, cancel, drain, alerts, done, timer, errors,
                        window, daily, num, lastReset, trail, day>>
  BY DEF StartClaude, At, loopVars, flagVars, countVars
<1>3. LoopTypes'
  BY <1>1, <1>2, ClaudeLoopAssumption DEF LoopInv, LoopTypes, DrainType, OneSession, At, Alive,
      Moves
<1>4. CountTypes'
  BY <1>1, <1>2, ClaudeLoopAssumption DEF LoopInv, CountTypes
<1>5. OneSession'
  BY <1>1, <1>2 DEF LoopInv, LoopTypes, DrainType, OneSession, At, Alive, Moves
<1>6. CancelIsCurrent'
  BY <1>1, <1>2, ClaudeLoopAssumption DEF LoopInv, LoopTypes, DrainType, OneSession, At, Alive,
      Moves, CancelIsCurrent, Cancellable
<1>7. KillsAreKnown'
  BY <1>1, <1>2, ClaudeLoopAssumption DEF LoopInv, LoopTypes, DrainType, OneSession, At, Alive,
      Moves, CancelIsCurrent, Cancellable, KillsAreKnown
<1>8. ClearReaches'
  BY <1>1, <1>2, ClaudeLoopAssumption DEF LoopInv, LoopTypes, DrainType, OneSession, At, Alive,
      Moves, CancelIsCurrent, Cancellable, ClearReaches, Mode
<1>9. Uncounting /\ UNCHANGED errors
  BY <1>1, <1>2 DEF Uncounting, Uncounted, Moves, LoopInv, OneSession
<1> QED BY <1>3, <1>4, <1>5, <1>6, <1>7, <1>8, <1>9 DEF LoopInv

LEMMA TurnEndsKeeps ==
  ASSUME LoopInv, "skip" \notin Windows, NEW g \in Runs, TurnEnds(g) PROVE LoopInv' /\ Uncounting /\ UNCHANGED errors
<1>1. Moves(g, run[g].pc, run[g].mode, "idle", run[g].killed)
  BY MoveClaude DEF TurnEnds, LoopInv, LoopTypes
<1>2. /\ run[g].claude = "working"
         /\ UNCHANGED <<active, recycle, clear, force, cancel, pipe, drain, alerts, done, timer,
                        errors, window, daily, num, lastReset, trail, day>>
  BY DEF TurnEnds, flagVars, countVars
<1>3. LoopTypes'
  BY <1>1, <1>2, ClaudeLoopAssumption DEF LoopInv, LoopTypes, DrainType, OneSession, At, Alive,
      Moves
<1>4. CountTypes'
  BY <1>1, <1>2, ClaudeLoopAssumption DEF LoopInv, CountTypes
<1>5. OneSession'
  BY <1>1, <1>2 DEF LoopInv, LoopTypes, DrainType, OneSession, At, Alive, Moves
<1>6. CancelIsCurrent'
  BY <1>1, <1>2, ClaudeLoopAssumption DEF LoopInv, LoopTypes, DrainType, OneSession, At, Alive,
      Moves, CancelIsCurrent, Cancellable
<1>7. KillsAreKnown'
  BY <1>1, <1>2, ClaudeLoopAssumption DEF LoopInv, LoopTypes, DrainType, OneSession, At, Alive,
      Moves, CancelIsCurrent, Cancellable, KillsAreKnown
<1>8. ClearReaches'
  BY <1>1, <1>2, ClaudeLoopAssumption DEF LoopInv, LoopTypes, DrainType, OneSession, At, Alive,
      Moves, CancelIsCurrent, Cancellable, ClearReaches, Mode
<1>9. Uncounting /\ UNCHANGED errors
  BY <1>1, <1>2 DEF Uncounting, Uncounted, Moves, LoopInv, OneSession
<1> QED BY <1>3, <1>4, <1>5, <1>6, <1>7, <1>8, <1>9 DEF LoopInv

LEMMA ExitsKeeps ==
  ASSUME LoopInv, "skip" \notin Windows, NEW g \in Runs, Exits(g) PROVE LoopInv' /\ Uncounting /\ UNCHANGED errors
<1>1. Moves(g, run[g].pc, run[g].mode, "exited", run[g].killed)
  BY ExitsMoves DEF LoopInv, LoopTypes
<1>2. /\ Alive(g)
         /\ UNCHANGED <<active, recycle, clear, force, cancel, pipe, drain, alerts, done, timer,
                        errors, window, daily, num, lastReset, trail, day>>
  BY DEF Exits, loopVars, flagVars, countVars
<1>3. LoopTypes'
  BY <1>1, <1>2, ClaudeLoopAssumption DEF LoopInv, LoopTypes, DrainType, OneSession, At, Alive,
      Moves
<1>4. CountTypes'
  BY <1>1, <1>2, ClaudeLoopAssumption DEF LoopInv, CountTypes
<1>5. OneSession'
  BY <1>1, <1>2 DEF LoopInv, LoopTypes, DrainType, OneSession, At, Alive, Moves
<1>6. CancelIsCurrent'
  BY <1>1, <1>2, ClaudeLoopAssumption DEF LoopInv, LoopTypes, DrainType, OneSession, At, Alive,
      Moves, CancelIsCurrent, Cancellable
<1>7. KillsAreKnown'
  BY <1>1, <1>2, ClaudeLoopAssumption DEF LoopInv, LoopTypes, DrainType, OneSession, At, Alive,
      Moves, CancelIsCurrent, Cancellable, KillsAreKnown
<1>8. ClearReaches'
  BY <1>1, <1>2, ClaudeLoopAssumption DEF LoopInv, LoopTypes, DrainType, OneSession, At, Alive,
      Moves, CancelIsCurrent, Cancellable, ClearReaches, Mode
<1>9. Uncounting /\ UNCHANGED errors
  BY <1>1, <1>2 DEF Uncounting, Uncounted, Moves, LoopInv, OneSession
<1> QED BY <1>3, <1>4, <1>5, <1>6, <1>7, <1>8, <1>9 DEF LoopInv

LEMMA RunReturnsKeeps ==
  ASSUME LoopInv, "skip" \notin Windows, NEW g \in Runs, RunReturns(g) PROVE LoopInv' /\ Uncounting /\ UNCHANGED errors
<1>1. Moves(g, "check", run[g].mode, run[g].claude, run[g].killed)
  BY MovePc DEF RunReturns, Pcs, LoopInv, LoopTypes
<1>2. /\ run[g].pc = "run" /\ run[g].claude = "exited" /\ pipe' = Nobody
         /\ UNCHANGED <<active, recycle, clear, force, cancel, drain, alerts, done, timer, errors,
                        window, daily, num, lastReset, trail, day>>
  BY DEF RunReturns, At, loopVars, flagVars, countVars
<1>3. LoopTypes'
  BY <1>1, <1>2, ClaudeLoopAssumption DEF LoopInv, LoopTypes, DrainType, OneSession, At, Alive,
      Moves
<1>4. CountTypes'
  BY <1>1, <1>2, ClaudeLoopAssumption DEF LoopInv, CountTypes
<1>5. OneSession'
  BY <1>1, <1>2 DEF LoopInv, LoopTypes, DrainType, OneSession, At, Alive, Moves
<1>6. CancelIsCurrent'
  BY <1>1, <1>2, ClaudeLoopAssumption DEF LoopInv, LoopTypes, DrainType, OneSession, At, Alive,
      Moves, CancelIsCurrent, Cancellable
<1>7. KillsAreKnown'
  BY <1>1, <1>2, ClaudeLoopAssumption DEF LoopInv, LoopTypes, DrainType, OneSession, At, Alive,
      Moves, CancelIsCurrent, Cancellable, KillsAreKnown
<1>8. ClearReaches'
  BY <1>1, <1>2, ClaudeLoopAssumption DEF LoopInv, LoopTypes, DrainType, OneSession, At, Alive,
      Moves, CancelIsCurrent, Cancellable, ClearReaches, Mode
<1>9. Uncounting /\ UNCHANGED errors
  BY <1>1, <1>2 DEF Uncounting, Uncounted, Moves, LoopInv, OneSession
<1> QED BY <1>3, <1>4, <1>5, <1>6, <1>7, <1>8, <1>9 DEF LoopInv

LEMMA CheckKeeps ==
  ASSUME LoopInv, "skip" \notin Windows, NEW g \in Runs, Check(g) PROVE LoopInv' /\ Uncounting
<1>1. Moves(g, "send", run[g].mode, run[g].claude, run[g].killed)
  BY CheckMoves DEF LoopInv, LoopTypes
<1>2. /\ run[g].pc = "check" /\ ~ Alive(g) /\ clear' = FALSE /\ cancel' = Nobody /\ errors' \in Nat
         /\ UNCHANGED <<active, recycle, force, pipe, drain, alerts, done, timer, window, daily,
                        num, lastReset, trail, day>>
  BY DEF Check, At, Alive, loopVars, LoopInv, LoopTypes, OneSession
<1>3. LoopTypes'
  BY <1>1, <1>2, ClaudeLoopAssumption DEF LoopInv, LoopTypes, DrainType, OneSession, At, Alive,
      Moves
<1>4. CountTypes'
  BY <1>1, <1>2, ClaudeLoopAssumption DEF LoopInv, CountTypes
<1>5. OneSession'
  BY <1>1, <1>2 DEF LoopInv, LoopTypes, DrainType, OneSession, At, Alive, Moves
<1>6. CancelIsCurrent'
  BY <1>1, <1>2, ClaudeLoopAssumption DEF LoopInv, LoopTypes, DrainType, OneSession, At, Alive,
      Moves, CancelIsCurrent, Cancellable
<1>7. KillsAreKnown'
  BY <1>1, <1>2, ClaudeLoopAssumption DEF LoopInv, LoopTypes, DrainType, OneSession, At, Alive,
      Moves, CancelIsCurrent, Cancellable, KillsAreKnown
<1>8. ClearReaches'
  BY <1>1, <1>2, ClaudeLoopAssumption DEF LoopInv, LoopTypes, DrainType, OneSession, At, Alive,
      Moves, CancelIsCurrent, Cancellable, ClearReaches, Mode
<1>9. Uncounting
  BY <1>1, <1>2 DEF Uncounting, Uncounted, Moves
<1> QED BY <1>3, <1>4, <1>5, <1>6, <1>7, <1>8, <1>9 DEF LoopInv

LEMMA SendKeeps ==
  ASSUME LoopInv, "skip" \notin Windows, NEW g \in Runs, Send(g) PROVE LoopInv' /\ Uncounting /\ UNCHANGED errors
<1>1. \/ Moves(g, "sent", run[g].mode, run[g].claude, run[g].killed) /\ active' = active
      \/ Moves(g, "none", "none", "off", FALSE) /\ active' = FALSE
  BY MovePc, MoveEnd DEF Send, Pcs, LoopInv, LoopTypes
<1>2. /\ run[g].pc = "send" /\ done = << >> /\ done' = <<run[g].fatal>> /\ done' \in Seq(BOOLEAN) /\ done' # << >>
         /\ UNCHANGED <<recycle, clear, force, cancel, pipe, drain, alerts, timer, errors, window,
                        daily, num, lastReset, trail, day>>
  BY DEF Send, At, flagVars, countVars, LoopInv, LoopTypes, RunType
<1>3. LoopTypes'
  BY <1>1, <1>2, ClaudeLoopAssumption, ZenonT(60) DEF LoopInv, LoopTypes, DrainType, OneSession, At, Alive,
      Moves
<1>4. CountTypes'
  BY <1>1, <1>2, ClaudeLoopAssumption DEF LoopInv, CountTypes
<1>5. OneSession'
  BY <1>1, <1>2 DEF LoopInv, LoopTypes, DrainType, OneSession, At, Alive, Moves
<1>6. CancelIsCurrent'
  BY <1>1, <1>2, ClaudeLoopAssumption DEF LoopInv, LoopTypes, DrainType, OneSession, At, Alive,
      Moves, CancelIsCurrent, Cancellable
<1>7. KillsAreKnown'
  BY <1>1, <1>2, ClaudeLoopAssumption DEF LoopInv, LoopTypes, DrainType, OneSession, At, Alive,
      Moves, CancelIsCurrent, Cancellable, KillsAreKnown
<1>8. ClearReaches'
  BY <1>1, <1>2, ClaudeLoopAssumption DEF LoopInv, LoopTypes, DrainType, OneSession, At, Alive,
      Moves, CancelIsCurrent, Cancellable, ClearReaches, Mode
<1>9. Uncounting /\ UNCHANGED errors
  BY <1>1, <1>2 DEF Uncounting, Uncounted, Moves, LoopInv, OneSession
<1> QED BY <1>3, <1>4, <1>5, <1>6, <1>7, <1>8, <1>9 DEF LoopInv

LEMMA ClearActiveKeeps ==
  ASSUME LoopInv, "skip" \notin Windows, NEW g \in Runs, ClearActive(g) PROVE LoopInv' /\ Uncounting /\ UNCHANGED errors
<1>1. Moves(g, "none", "none", "off", FALSE)
  BY MoveEnd DEF ClearActive, LoopInv, LoopTypes
<1>2. /\ run[g].pc = "sent" /\ active' = FALSE
         /\ UNCHANGED <<recycle, clear, force, cancel, pipe, drain, alerts, done, timer, errors,
                        window, daily, num, lastReset, trail, day>>
  BY DEF ClearActive, At, loopVars, flagVars, countVars
<1>3. LoopTypes'
  BY <1>1, <1>2, ClaudeLoopAssumption, ZenonT(60) DEF LoopInv, LoopTypes, DrainType, OneSession, At, Alive,
      Moves
<1>4. CountTypes'
  BY <1>1, <1>2, ClaudeLoopAssumption DEF LoopInv, CountTypes
<1>5. OneSession'
  BY <1>1, <1>2 DEF LoopInv, LoopTypes, DrainType, OneSession, At, Alive, Moves
<1>6. CancelIsCurrent'
  BY <1>1, <1>2, ClaudeLoopAssumption DEF LoopInv, LoopTypes, DrainType, OneSession, At, Alive,
      Moves, CancelIsCurrent, Cancellable
<1>7. KillsAreKnown'
  BY <1>1, <1>2, ClaudeLoopAssumption DEF LoopInv, LoopTypes, DrainType, OneSession, At, Alive,
      Moves, CancelIsCurrent, Cancellable, KillsAreKnown
<1>8. ClearReaches'
  BY <1>1, <1>2, ClaudeLoopAssumption DEF LoopInv, LoopTypes, DrainType, OneSession, At, Alive,
      Moves, CancelIsCurrent, Cancellable, ClearReaches, Mode
<1>9. Uncounting /\ UNCHANGED errors
  BY <1>1, <1>2 DEF Uncounting, Uncounted, Moves, LoopInv, OneSession
<1> QED BY <1>3, <1>4, <1>5, <1>6, <1>7, <1>8, <1>9 DEF LoopInv

LEMMA SessionDoneKeeps ==
  ASSUME LoopInv, "skip" \notin Windows, handleSessionDone PROVE LoopInv' /\ Uncounting /\ UNCHANGED errors
<1>1. \/ UNCHANGED <<run, active, alerts>>
      \/ Opens
  BY AsyncOpens DEF handleSessionDone, NoStart
<1>2. /\ done' = << >> /\ done' \in Seq(BOOLEAN) /\ done # << >>
      /\ timer' \in {"off", "set", timer} /\ recycle' \in BOOLEAN
      /\ UNCHANGED <<clear, force, cancel, pipe, drain, errors, window, daily, num, lastReset,
                     trail, day>>
  <2>1. done' = << >> /\ done # << >>
    BY DEF handleSessionDone
  <2>2. timer' \in {"off", "set", timer}
    BY DEF handleSessionDone
  <2>3. recycle' \in BOOLEAN
    BY DEF handleSessionDone, LoopInv, LoopTypes
  <2>4. UNCHANGED <<clear, force, cancel, pipe, drain, errors, window, daily, num, lastReset,
                    trail, day>>
    BY DEF handleSessionDone, countVars
  <2> QED BY <2>1, <2>2, <2>3, <2>4
<1>3. LoopTypes'
  <2>1. timer' \in {"off", "set", "due"}
    BY <1>2 DEF LoopInv, LoopTypes
  <2>2. CASE UNCHANGED <<run, active, alerts>>
    BY <1>2, <2>1, <2>2 DEF LoopInv, LoopTypes
  <2>3. CASE Opens
    BY <1>2, <2>1, <2>3 DEF LoopInv, LoopTypes, Opens, Moves
  <2> QED BY <1>1, <2>2, <2>3
<1>4. CountTypes'
  BY <1>1, <1>2, ClaudeLoopAssumption DEF LoopInv, CountTypes
<1>5. OneSession'
  BY <1>1, <1>2 DEF LoopInv, LoopTypes, DrainType, OneSession, At, Alive, Moves, Opens
<1>6. CancelIsCurrent'
  BY <1>1, <1>2, ClaudeLoopAssumption DEF LoopInv, LoopTypes, DrainType, OneSession, At, Alive,
      Moves, Opens, CancelIsCurrent, Cancellable
<1>7. KillsAreKnown'
  BY <1>1, <1>2, ClaudeLoopAssumption DEF LoopInv, LoopTypes, DrainType, OneSession, At, Alive,
      Moves, Opens, CancelIsCurrent, Cancellable, KillsAreKnown
<1>8. ClearReaches'
  BY <1>1, <1>2, ClaudeLoopAssumption DEF LoopInv, LoopTypes, DrainType, OneSession, At, Alive,
      Moves, Opens, CancelIsCurrent, Cancellable, ClearReaches, Mode
<1>9. Uncounting /\ UNCHANGED errors
  BY <1>1, <1>2 DEF Uncounting, Uncounted, Moves, LoopInv, OneSession, Opens
<1> QED BY <1>3, <1>4, <1>5, <1>6, <1>7, <1>8, <1>9 DEF LoopInv

LEMMA TurnDoneKeeps ==
  ASSUME LoopInv, "skip" \notin Windows, handleTurnDone PROVE LoopInv' /\ Uncounting /\ UNCHANGED errors
<1>1. UNCHANGED run
  BY DEF handleTurnDone
<1>2. /\ timer' \in {"set", timer}
         /\ UNCHANGED <<active, recycle, clear, force, cancel, pipe, drain, alerts, done, errors,
                        window, daily, num, lastReset, trail, day>>
  BY DEF handleTurnDone, flagVars, countVars, LoopInv, LoopTypes
<1>3. LoopTypes'
  BY <1>1, <1>2, ClaudeLoopAssumption DEF LoopInv, LoopTypes, DrainType, OneSession, At, Alive,
      Moves
<1>4. CountTypes'
  BY <1>1, <1>2, ClaudeLoopAssumption DEF LoopInv, CountTypes
<1>5. OneSession'
  BY <1>1, <1>2 DEF LoopInv, LoopTypes, DrainType, OneSession, At, Alive, Moves
<1>6. CancelIsCurrent'
  BY <1>1, <1>2, ClaudeLoopAssumption DEF LoopInv, LoopTypes, DrainType, OneSession, At, Alive,
      Moves, CancelIsCurrent, Cancellable
<1>7. KillsAreKnown'
  BY <1>1, <1>2, ClaudeLoopAssumption DEF LoopInv, LoopTypes, DrainType, OneSession, At, Alive,
      Moves, CancelIsCurrent, Cancellable, KillsAreKnown
<1>8. ClearReaches'
  BY <1>1, <1>2, ClaudeLoopAssumption DEF LoopInv, LoopTypes, DrainType, OneSession, At, Alive,
      Moves, CancelIsCurrent, Cancellable, ClearReaches, Mode
<1>9. Uncounting /\ UNCHANGED errors
  BY <1>1, <1>2 DEF Uncounting, Uncounted, Moves, LoopInv, OneSession
<1> QED BY <1>3, <1>4, <1>5, <1>6, <1>7, <1>8, <1>9 DEF LoopInv

LEMMA IntervalOverKeeps ==
  ASSUME LoopInv, "skip" \notin Windows, IntervalOver PROVE LoopInv' /\ Uncounting /\ UNCHANGED errors
<1>1. UNCHANGED run
  BY DEF IntervalOver
<1>2. /\ timer' = "due" /\ done = << >>
         /\ UNCHANGED <<active, recycle, clear, force, cancel, pipe, drain, alerts, done, errors,
                        window, daily, num, lastReset, trail, day>>
  BY DEF IntervalOver, flagVars, countVars
<1>3. LoopTypes'
  BY <1>1, <1>2, ClaudeLoopAssumption DEF LoopInv, LoopTypes, DrainType, OneSession, At, Alive,
      Moves
<1>4. CountTypes'
  BY <1>1, <1>2, ClaudeLoopAssumption DEF LoopInv, CountTypes
<1>5. OneSession'
  BY <1>1, <1>2 DEF LoopInv, LoopTypes, DrainType, OneSession, At, Alive, Moves
<1>6. CancelIsCurrent'
  BY <1>1, <1>2, ClaudeLoopAssumption DEF LoopInv, LoopTypes, DrainType, OneSession, At, Alive,
      Moves, CancelIsCurrent, Cancellable
<1>7. KillsAreKnown'
  BY <1>1, <1>2, ClaudeLoopAssumption DEF LoopInv, LoopTypes, DrainType, OneSession, At, Alive,
      Moves, CancelIsCurrent, Cancellable, KillsAreKnown
<1>8. ClearReaches'
  BY <1>1, <1>2, ClaudeLoopAssumption DEF LoopInv, LoopTypes, DrainType, OneSession, At, Alive,
      Moves, CancelIsCurrent, Cancellable, ClearReaches, Mode
<1>9. Uncounting /\ UNCHANGED errors
  BY <1>1, <1>2 DEF Uncounting, Uncounted, Moves, LoopInv, OneSession
<1> QED BY <1>3, <1>4, <1>5, <1>6, <1>7, <1>8, <1>9 DEF LoopInv

LEMMA TimerKeeps ==
  ASSUME LoopInv, "skip" \notin Windows, handleTimer PROVE LoopInv' /\ Uncounting /\ UNCHANGED errors
<1>1. \/ UNCHANGED <<run, active, alerts>> /\ recycle' = TRUE /\ cancel = Nobody
      \/ UNCHANGED <<active, alerts>> /\ recycle' = TRUE /\ cancel \in Runs
         /\ Moves(cancel, run[cancel].pc, run[cancel].mode, run[cancel].claude, TRUE)
      \/ (UNCHANGED <<run, active, alerts>> \/ Opens) /\ recycle' = recycle
  <2>0. run \in [Runs -> RunType] /\ cancel \in Runs \cup {Nobody} /\ active \in BOOLEAN
    BY DEF LoopInv, LoopTypes
  <2>1. CASE active
    <3>1. CASE cancel = Nobody
      BY <2>1, <3>1 DEF handleTimer
    <3>2. CASE cancel # Nobody
      <4>1. run' = [run EXCEPT ![cancel].killed = TRUE] /\ UNCHANGED <<active,
                                                                       alerts>> /\ recycle' = TRUE
        BY <2>1, <3>2 DEF handleTimer
      <4>2. cancel \in Runs
        BY <2>0, <3>2
      <4> QED BY <2>0, <4>1, <4>2, MoveKilled
    <3> QED BY <3>1, <3>2
  <2>2. CASE ~ active
    <3>1. startSessionAsync /\ UNCHANGED recycle
      BY <2>2 DEF handleTimer
    <3>2. UNCHANGED <<run, active, alerts>> \/ Opens
      BY <3>1, AsyncOpens
    <3> QED BY <3>1, <3>2
  <2> QED BY <2>0, <2>1, <2>2
<1>2. /\ timer = "due" /\ timer' = "off"
         /\ UNCHANGED <<clear, force, cancel, pipe, drain, done, errors, window, daily, num,
                        lastReset, trail, day>>
  BY DEF handleTimer, countVars
<1>3. LoopTypes'
  BY <1>1, <1>2, ClaudeLoopAssumption, ZenonT(60) DEF LoopInv, LoopTypes, DrainType, OneSession, At, Alive,
      Moves, Opens
<1>4. CountTypes'
  BY <1>1, <1>2, ClaudeLoopAssumption DEF LoopInv, CountTypes
<1>5. OneSession'
  BY <1>1, <1>2 DEF LoopInv, LoopTypes, DrainType, OneSession, At, Alive, Moves, Opens
<1>6. CancelIsCurrent'
  BY <1>1, <1>2, ClaudeLoopAssumption DEF LoopInv, LoopTypes, DrainType, OneSession, At, Alive,
      Moves, Opens, CancelIsCurrent, Cancellable
<1>7. KillsAreKnown'
  BY <1>1, <1>2, ClaudeLoopAssumption DEF LoopInv, LoopTypes, DrainType, OneSession, At, Alive,
      Moves, Opens, CancelIsCurrent, Cancellable, KillsAreKnown
<1>8. ClearReaches'
  BY <1>1, <1>2, ClaudeLoopAssumption DEF LoopInv, LoopTypes, DrainType, OneSession, At, Alive,
      Moves, Opens, CancelIsCurrent, Cancellable, ClearReaches, Mode
<1>9. Uncounting /\ UNCHANGED errors
  BY <1>1, <1>2 DEF Uncounting, Uncounted, Moves, LoopInv, OneSession, Opens
<1> QED BY <1>3, <1>4, <1>5, <1>6, <1>7, <1>8, <1>9 DEF LoopInv

LEMMA AlertPollKeeps ==
  ASSUME LoopInv, "skip" \notin Windows, NEW polled \in SUBSET Alerts, NEW calm \in BOOLEAN, handleAlertPoll(polled, calm) PROVE LoopInv' /\ Uncounting /\ UNCHANGED errors
<1>1. \/ UNCHANGED <<run, active, timer>>
      \/ UNCHANGED active /\ timer' = "off" /\ Injects
      \/ timer' = "off" /\ Opens
  BY PollMoves
<1>2. /\ alerts' \subseteq Alerts
         /\ UNCHANGED <<recycle, clear, force, cancel, pipe, drain, done, errors, window, daily,
                        num, lastReset, trail, day>>
  BY DEF handleAlertPoll, flagVars, countVars, LoopInv, LoopTypes
<1>3. LoopTypes'
  <2>1. run' \in [Runs -> RunType] /\ active' \in BOOLEAN
    BY <1>1 DEF LoopInv, LoopTypes, Moves, Opens, Injects
  <2>2. timer' \in {"off", "set", "due"}
    BY <1>1 DEF LoopInv, LoopTypes
  <2> QED BY <1>2, <2>1, <2>2, ClaudeLoopAssumption DEF LoopInv, LoopTypes, DrainType
<1>4. CountTypes'
  BY <1>1, <1>2, ClaudeLoopAssumption DEF LoopInv, CountTypes
<1>5. OneSession'
  BY <1>1, <1>2 DEF LoopInv, LoopTypes, DrainType, OneSession, At, Alive, Moves, Opens, Injects
<1>6. CancelIsCurrent'
  BY <1>1, <1>2, ClaudeLoopAssumption DEF LoopInv, LoopTypes, DrainType, OneSession, At, Alive,
      Moves, Opens, Injects, CancelIsCurrent, Cancellable
<1>7. KillsAreKnown'
  BY <1>1, <1>2, ClaudeLoopAssumption DEF LoopInv, LoopTypes, DrainType, OneSession, At, Alive,
      Moves, Opens, Injects, CancelIsCurrent, Cancellable, KillsAreKnown
<1>8. ClearReaches'
  BY <1>1, <1>2, ClaudeLoopAssumption DEF LoopInv, LoopTypes, DrainType, OneSession, At, Alive,
      Moves, Opens, Injects, CancelIsCurrent, Cancellable, ClearReaches, Mode
<1>9. Uncounting /\ UNCHANGED errors
  BY <1>1, <1>2 DEF Uncounting, Uncounted, Moves, LoopInv, OneSession, Opens, Injects
<1> QED BY <1>3, <1>4, <1>5, <1>6, <1>7, <1>8, <1>9 DEF LoopInv

LEMMA WakeKeeps ==
  ASSUME LoopInv, "skip" \notin Windows, handleWake PROVE LoopInv' /\ Uncounting /\ UNCHANGED errors
<1>1. \/ UNCHANGED <<run, active, alerts>>
      \/ Opens
  BY AsyncOpens DEF handleWake, NoStart
<1>2. /\ timer' \in {"off", "set"}
         /\ UNCHANGED <<recycle, clear, force, cancel, pipe, drain, done, errors, window, daily,
                        num, lastReset, trail, day>>
  BY DEF handleWake, flagVars, countVars
<1>3. LoopTypes'
  BY <1>1, <1>2, ClaudeLoopAssumption, ZenonT(60) DEF LoopInv, LoopTypes, DrainType, OneSession, At, Alive,
      Moves, Opens
<1>4. CountTypes'
  BY <1>1, <1>2, ClaudeLoopAssumption DEF LoopInv, CountTypes
<1>5. OneSession'
  BY <1>1, <1>2 DEF LoopInv, LoopTypes, DrainType, OneSession, At, Alive, Moves, Opens
<1>6. CancelIsCurrent'
  BY <1>1, <1>2, ClaudeLoopAssumption DEF LoopInv, LoopTypes, DrainType, OneSession, At, Alive,
      Moves, Opens, CancelIsCurrent, Cancellable
<1>7. KillsAreKnown'
  BY <1>1, <1>2, ClaudeLoopAssumption DEF LoopInv, LoopTypes, DrainType, OneSession, At, Alive,
      Moves, Opens, CancelIsCurrent, Cancellable, KillsAreKnown
<1>8. ClearReaches'
  BY <1>1, <1>2, ClaudeLoopAssumption DEF LoopInv, LoopTypes, DrainType, OneSession, At, Alive,
      Moves, Opens, CancelIsCurrent, Cancellable, ClearReaches, Mode
<1>9. Uncounting /\ UNCHANGED errors
  BY <1>1, <1>2 DEF Uncounting, Uncounted, Moves, LoopInv, OneSession, Opens
<1> QED BY <1>3, <1>4, <1>5, <1>6, <1>7, <1>8, <1>9 DEF LoopInv

LEMMA CooldownKeeps ==
  ASSUME LoopInv, "skip" \notin Windows, CooldownOver PROVE LoopInv' /\ Uncounting /\ UNCHANGED errors
<1>1. UNCHANGED run
  BY DEF CooldownOver
<1>2. /\ UNCHANGED <<active, recycle, clear, force, cancel, pipe, drain, alerts, done, timer,
                     errors, window, daily, num, lastReset, trail, day>>
  BY DEF CooldownOver, flagVars, countVars
<1>3. LoopTypes'
  BY <1>1, <1>2, ClaudeLoopAssumption DEF LoopInv, LoopTypes, DrainType, OneSession, At, Alive,
      Moves
<1>4. CountTypes'
  BY <1>1, <1>2, ClaudeLoopAssumption DEF LoopInv, CountTypes
<1>5. OneSession'
  BY <1>1, <1>2 DEF LoopInv, LoopTypes, DrainType, OneSession, At, Alive, Moves
<1>6. CancelIsCurrent'
  BY <1>1, <1>2, ClaudeLoopAssumption DEF LoopInv, LoopTypes, DrainType, OneSession, At, Alive,
      Moves, CancelIsCurrent, Cancellable
<1>7. KillsAreKnown'
  BY <1>1, <1>2, ClaudeLoopAssumption DEF LoopInv, LoopTypes, DrainType, OneSession, At, Alive,
      Moves, CancelIsCurrent, Cancellable, KillsAreKnown
<1>8. ClearReaches'
  BY <1>1, <1>2, ClaudeLoopAssumption DEF LoopInv, LoopTypes, DrainType, OneSession, At, Alive,
      Moves, CancelIsCurrent, Cancellable, ClearReaches, Mode
<1>9. Uncounting /\ UNCHANGED errors
  BY <1>1, <1>2 DEF Uncounting, Uncounted, Moves, LoopInv, OneSession
<1> QED BY <1>3, <1>4, <1>5, <1>6, <1>7, <1>8, <1>9 DEF LoopInv

LEMMA ReceiveKeeps ==
  ASSUME LoopInv, "skip" \notin Windows, NEW m \in Messages, Receive(m) PROVE LoopInv' /\ Uncounting /\ UNCHANGED errors
<1>1. UNCHANGED run \/ Injects
  BY ReceiveMoves
<1>2. /\ drain.pc = "free" /\ drain'.pc \in {"free", "queue"} /\ drain' \in DrainType
         /\ UNCHANGED <<active, recycle, clear, force, cancel, pipe, alerts, done, timer, errors,
                        window, daily, num, lastReset, trail, day>>
  BY DEF Receive, countVars, LoopInv, LoopTypes, DrainType, Listening, Injected
<1>3. LoopTypes'
  BY <1>1, <1>2, ClaudeLoopAssumption DEF LoopInv, LoopTypes, DrainType, OneSession, At, Alive,
      Moves, Injects
<1>4. CountTypes'
  BY <1>1, <1>2, ClaudeLoopAssumption DEF LoopInv, CountTypes
<1>5. OneSession'
  BY <1>1, <1>2 DEF LoopInv, LoopTypes, DrainType, OneSession, At, Alive, Moves, Injects
<1>6. CancelIsCurrent'
  BY <1>1, <1>2, ClaudeLoopAssumption DEF LoopInv, LoopTypes, DrainType, OneSession, At, Alive,
      Moves, Injects, CancelIsCurrent, Cancellable
<1>7. KillsAreKnown'
  BY <1>1, <1>2, ClaudeLoopAssumption DEF LoopInv, LoopTypes, DrainType, OneSession, At, Alive,
      Moves, Injects, CancelIsCurrent, Cancellable, KillsAreKnown
<1>8. ClearReaches'
  BY <1>1, <1>2, ClaudeLoopAssumption DEF LoopInv, LoopTypes, DrainType, OneSession, At, Alive,
      Moves, Injects, CancelIsCurrent, Cancellable, ClearReaches, Mode
<1>9. Uncounting /\ UNCHANGED errors
  BY <1>1, <1>2 DEF Uncounting, Uncounted, Moves, LoopInv, OneSession, Injects
<1> QED BY <1>3, <1>4, <1>5, <1>6, <1>7, <1>8, <1>9 DEF LoopInv

LEMMA QueueKeeps ==
  ASSUME LoopInv, "skip" \notin Windows, Queue PROVE LoopInv' /\ Uncounting /\ UNCHANGED errors
<1>1. UNCHANGED run
  BY DEF Queue
<1>2. /\ drain.pc = "queue" /\ drain'.pc = "free" /\ drain' \in DrainType
         /\ UNCHANGED <<active, recycle, clear, force, cancel, pipe, alerts, done, timer, errors,
                        window, daily, num, lastReset, trail, day>>
  BY DEF Queue, countVars, LoopInv, LoopTypes, DrainType
<1>3. LoopTypes'
  BY <1>1, <1>2, ClaudeLoopAssumption DEF LoopInv, LoopTypes, DrainType, OneSession, At, Alive,
      Moves
<1>4. CountTypes'
  BY <1>1, <1>2, ClaudeLoopAssumption DEF LoopInv, CountTypes
<1>5. OneSession'
  BY <1>1, <1>2 DEF LoopInv, LoopTypes, DrainType, OneSession, At, Alive, Moves
<1>6. CancelIsCurrent'
  BY <1>1, <1>2, ClaudeLoopAssumption DEF LoopInv, LoopTypes, DrainType, OneSession, At, Alive,
      Moves, CancelIsCurrent, Cancellable
<1>7. KillsAreKnown'
  BY <1>1, <1>2, ClaudeLoopAssumption DEF LoopInv, LoopTypes, DrainType, OneSession, At, Alive,
      Moves, CancelIsCurrent, Cancellable, KillsAreKnown
<1>8. ClearReaches'
  BY <1>1, <1>2, ClaudeLoopAssumption DEF LoopInv, LoopTypes, DrainType, OneSession, At, Alive,
      Moves, CancelIsCurrent, Cancellable, ClearReaches, Mode
<1>9. Uncounting /\ UNCHANGED errors
  BY <1>1, <1>2 DEF Uncounting, Uncounted, Moves, LoopInv, OneSession
<1> QED BY <1>3, <1>4, <1>5, <1>6, <1>7, <1>8, <1>9 DEF LoopInv

LEMMA ClearFlagsKeeps ==
  ASSUME LoopInv, "skip" \notin Windows, ClearFlags PROVE LoopInv' /\ Uncounting /\ UNCHANGED errors
<1>1. UNCHANGED run
  BY DEF ClearFlags
<1>2. /\ drain'.pc = "cancel" /\ drain' \in DrainType /\ force' = TRUE
         /\ UNCHANGED <<active, recycle, clear, cancel, pipe, alerts, done, timer, errors, window,
                        daily, num, lastReset, trail, day>>
  BY DEF ClearFlags, loopVars, countVars, LoopInv, LoopTypes, DrainType
<1>3. LoopTypes'
  BY <1>1, <1>2, ClaudeLoopAssumption DEF LoopInv, LoopTypes, DrainType, OneSession, At, Alive,
      Moves
<1>4. CountTypes'
  BY <1>1, <1>2, ClaudeLoopAssumption DEF LoopInv, CountTypes
<1>5. OneSession'
  BY <1>1, <1>2 DEF LoopInv, LoopTypes, DrainType, OneSession, At, Alive, Moves
<1>6. CancelIsCurrent'
  BY <1>1, <1>2, ClaudeLoopAssumption DEF LoopInv, LoopTypes, DrainType, OneSession, At, Alive,
      Moves, CancelIsCurrent, Cancellable
<1>7. KillsAreKnown'
  BY <1>1, <1>2, ClaudeLoopAssumption DEF LoopInv, LoopTypes, DrainType, OneSession, At, Alive,
      Moves, CancelIsCurrent, Cancellable, KillsAreKnown
<1>8. ClearReaches'
  BY <1>1, <1>2, ClaudeLoopAssumption DEF LoopInv, LoopTypes, DrainType, OneSession, At, Alive,
      Moves, CancelIsCurrent, Cancellable, ClearReaches, Mode
<1>9. Uncounting /\ UNCHANGED errors
  BY <1>1, <1>2 DEF Uncounting, Uncounted, Moves, LoopInv, OneSession
<1> QED BY <1>3, <1>4, <1>5, <1>6, <1>7, <1>8, <1>9 DEF LoopInv

LEMMA ClearReadsCancelKeeps ==
  ASSUME LoopInv, "skip" \notin Windows, ClearReadsCancel PROVE LoopInv' /\ Uncounting /\ UNCHANGED errors
<1>1. UNCHANGED run
  BY DEF ClearReadsCancel
<1>2. /\ drain.pc = "cancel" /\ drain' \in DrainType
      /\ \/ cancel = Nobody /\ drain'.pc = "free"
         \/ cancel # Nobody /\ drain'.pc = "kill" /\ drain'.target = cancel
      /\ UNCHANGED <<active, recycle, clear, force, cancel, pipe, alerts, done, timer, errors,
                     window, daily, num, lastReset, trail, day>>
  <2>0. drain \in DrainType /\ cancel \in Runs \cup {Nobody}
    BY DEF LoopInv, LoopTypes, DrainType
  <2>1. CASE cancel = Nobody
    <3>1. drain.pc = "cancel" /\ drain' = [drain EXCEPT !.pc = "free"]
      BY <2>1 DEF ClearReadsCancel
    <3>2. drain' \in DrainType /\ drain'.pc = "free"
      BY <2>0, <3>1 DEF DrainType
    <3> QED BY <2>1, <3>1, <3>2 DEF ClearReadsCancel, flagVars, countVars
  <2>2. CASE cancel # Nobody
    <3>1. drain.pc = "cancel" /\ drain' = [drain EXCEPT !.pc = "kill", !.target = cancel]
      BY <2>2 DEF ClearReadsCancel
    <3>2. drain' \in DrainType /\ drain'.pc = "kill" /\ drain'.target = cancel
      BY <2>0, <2>2, <3>1 DEF DrainType
    <3> QED BY <2>2, <3>1, <3>2 DEF ClearReadsCancel, flagVars, countVars
  <2> QED BY <2>1, <2>2
<1>3. LoopTypes'
  BY <1>1, <1>2, ClaudeLoopAssumption DEF LoopInv, LoopTypes, DrainType, OneSession, At, Alive,
      Moves
<1>4. CountTypes'
  BY <1>1, <1>2, ClaudeLoopAssumption DEF LoopInv, CountTypes
<1>5. OneSession'
  BY <1>1, <1>2 DEF LoopInv, LoopTypes, DrainType, OneSession, At, Alive, Moves
<1>6. CancelIsCurrent'
  BY <1>1, <1>2, ClaudeLoopAssumption DEF LoopInv, LoopTypes, DrainType, OneSession, At, Alive,
      Moves, CancelIsCurrent, Cancellable
<1>7. KillsAreKnown'
  BY <1>1, <1>2, ClaudeLoopAssumption DEF LoopInv, LoopTypes, DrainType, OneSession, At, Alive,
      Moves, CancelIsCurrent, Cancellable, KillsAreKnown
<1>8. ClearReaches'
  BY <1>1, <1>2, ClaudeLoopAssumption DEF LoopInv, LoopTypes, DrainType, OneSession, At, Alive,
      Moves, CancelIsCurrent, Cancellable, ClearReaches, Mode
<1>9. Uncounting /\ UNCHANGED errors
  BY <1>1, <1>2 DEF Uncounting, Uncounted, Moves, LoopInv, OneSession
<1> QED BY <1>3, <1>4, <1>5, <1>6, <1>7, <1>8, <1>9 DEF LoopInv

LEMMA ClearKillsKeeps ==
  ASSUME LoopInv, "skip" \notin Windows, ClearKills PROVE LoopInv' /\ Uncounting /\ UNCHANGED errors
<1>1. \/ UNCHANGED run /\ cancel # drain.target
      \/ cancel = drain.target /\ cancel \in Runs /\ Moves(cancel, run[cancel].pc, run[cancel].mode, run[cancel].claude, TRUE)
      \/ UNCHANGED run /\ cancel = Nobody
  BY KillMoves
<1>2. /\ drain.pc = "kill" /\ drain'.pc = "free" /\ drain' \in DrainType /\ clear' = TRUE
         /\ UNCHANGED <<active, recycle, force, cancel, pipe, alerts, done, timer, errors, window,
                        daily, num, lastReset, trail, day>>
  BY DEF ClearKills, loopVars, countVars, LoopInv, LoopTypes, DrainType
<1>3. LoopTypes'
  BY <1>1, <1>2, ClaudeLoopAssumption DEF LoopInv, LoopTypes, DrainType, OneSession, At, Alive,
      Moves
<1>4. CountTypes'
  BY <1>1, <1>2, ClaudeLoopAssumption DEF LoopInv, CountTypes
<1>5. OneSession'
  BY <1>1, <1>2 DEF LoopInv, LoopTypes, DrainType, OneSession, At, Alive, Moves
<1>6. CancelIsCurrent'
  BY <1>1, <1>2, ClaudeLoopAssumption DEF LoopInv, LoopTypes, DrainType, OneSession, At, Alive,
      Moves, CancelIsCurrent, Cancellable
<1>7. KillsAreKnown'
  BY <1>1, <1>2, ClaudeLoopAssumption DEF LoopInv, LoopTypes, DrainType, OneSession, At, Alive,
      Moves, CancelIsCurrent, Cancellable, KillsAreKnown
<1>8. ClearReaches'
  BY <1>1, <1>2, ClaudeLoopAssumption DEF LoopInv, LoopTypes, DrainType, OneSession, At, Alive,
      Moves, CancelIsCurrent, Cancellable, ClearReaches, Mode
<1>9. Uncounting /\ UNCHANGED errors
  BY <1>1, <1>2 DEF Uncounting, Uncounted, Moves, LoopInv, OneSession
<1> QED BY <1>3, <1>4, <1>5, <1>6, <1>7, <1>8, <1>9 DEF LoopInv

LEMMA NewDayKeeps ==
  ASSUME LoopInv, "skip" \notin Windows, NewDay PROVE LoopInv' /\ UNCHANGED errors
<1>1. UNCHANGED run
  BY DEF NewDay
<1>2. /\ day' = day + 1 /\ day < MaxDay
         /\ UNCHANGED <<active, recycle, clear, force, cancel, pipe, drain, alerts, done, timer,
                        errors, window, daily, num, lastReset, trail>>
  BY DEF NewDay, loopVars, flagVars, countVars
<1>3. LoopTypes'
  BY <1>1, <1>2, ClaudeLoopAssumption DEF LoopInv, LoopTypes, DrainType, OneSession, At, Alive,
      Moves
<1>4. CountTypes'
  BY <1>1, <1>2, ClaudeLoopAssumption DEF LoopInv, CountTypes
<1>5. OneSession'
  BY <1>1, <1>2 DEF LoopInv, LoopTypes, DrainType, OneSession, At, Alive, Moves
<1>6. CancelIsCurrent'
  BY <1>1, <1>2, ClaudeLoopAssumption DEF LoopInv, LoopTypes, DrainType, OneSession, At, Alive,
      Moves, CancelIsCurrent, Cancellable
<1>7. KillsAreKnown'
  BY <1>1, <1>2, ClaudeLoopAssumption DEF LoopInv, LoopTypes, DrainType, OneSession, At, Alive,
      Moves, CancelIsCurrent, Cancellable, KillsAreKnown
<1>8. ClearReaches'
  BY <1>1, <1>2, ClaudeLoopAssumption DEF LoopInv, LoopTypes, DrainType, OneSession, At, Alive,
      Moves, CancelIsCurrent, Cancellable, ClearReaches, Mode
<1>9. UNCHANGED errors
  BY <1>2
<1> QED BY <1>3, <1>4, <1>5, <1>6, <1>7, <1>8, <1>9 DEF LoopInv

-----------------------------------------------------------------------------
(* The start. *)

LEMMA FreshRuns ==
  ASSUME NEW r, r = [g \in Runs |-> IF g = First THEN [NoRun EXCEPT !.pc = "begin"] ELSE NoRun]
  PROVE  /\ r \in [Runs -> RunType] /\ First \in Runs
         /\ \A g \in Runs : /\ g = First => r[g].pc = "begin"
                            /\ g # First => r[g].pc = "none"
                            /\ r[g].claude = "off" /\ r[g].killed = FALSE /\ r[g].mode = "none"
<1>1. First \in Runs
  BY ClaudeLoopAssumption DEF First
<1>2. NoRun \in RunType /\ [NoRun EXCEPT !.pc = "begin"] \in RunType
  BY DEF NoRun, RunType, Pcs
<1>3. /\ [NoRun EXCEPT !.pc = "begin"].pc = "begin" /\ [NoRun EXCEPT !.pc = "begin"].claude = "off"
      /\ [NoRun EXCEPT !.pc = "begin"].killed = FALSE /\ [NoRun EXCEPT !.pc = "begin"].mode = "none"
      /\ NoRun.pc = "none" /\ NoRun.claude = "off" /\ NoRun.killed = FALSE /\ NoRun.mode = "none"
  BY DEF NoRun
<1> DEFINE b == [NoRun EXCEPT !.pc = "begin"]
<1> QED BY <1>1, <1>2, <1>3

LEMMA RestartKeeps ==
  ASSUME LoopInv, Restart PROVE LoopInv' /\ errors' = 0
<1>1. /\ run' \in [Runs -> RunType] /\ First \in Runs
      /\ \A g \in Runs : /\ g = First => run'[g].pc = "begin"
                         /\ g # First => run'[g].pc = "none"
                         /\ run'[g].claude = "off" /\ run'[g].killed = FALSE /\ run'[g].mode = "none"
  BY FreshRuns DEF Restart, Started
<1>2. /\ timer' = "off" /\ done' = << >> /\ recycle' = FALSE /\ clear' = FALSE /\ force' = FALSE
      /\ cancel' = Nobody /\ alerts' = {} /\ errors' = 0 /\ pipe' = Nobody /\ active' = TRUE
      /\ drain' = [pc |-> "free", msg |-> Nobody, target |-> Nobody]
      /\ UNCHANGED <<trail, day, window>> /\ lastReset' = day /\ daily' = trail[day]
      /\ num' \in {num, 0}
  BY DEF Restart, Started, seedSessionCounters
<1>3. LoopTypes'
  <2>1. drain' \in DrainType
    BY <1>2 DEF DrainType
  <2>2. done' \in Seq(BOOLEAN)
    BY <1>2
  <2>3. window' \in Windows
    BY <1>2 DEF LoopInv, LoopTypes
  <2> QED BY <1>1, <1>2, <2>1, <2>2, <2>3 DEF LoopTypes, DrainType
<1>4. CountTypes'
  BY <1>2 DEF LoopInv, CountTypes
<1>5. OneSession'
  BY <1>1, <1>2 DEF OneSession, At, Alive
<1>6. CancelIsCurrent'
  BY <1>1, <1>2, ClaudeLoopAssumption DEF CancelIsCurrent, Cancellable
<1>7. KillsAreKnown'
  BY <1>1, <1>2 DEF KillsAreKnown
<1>8. ClearReaches'
  BY <1>1, <1>2 DEF ClearReaches, At
<1> QED BY <1>2, <1>3, <1>4, <1>5, <1>6, <1>7, <1>8 DEF LoopInv

LEMMA LoopInit == Init => LoopInv /\ CapInv
<1> SUFFICES ASSUME Init PROVE LoopInv /\ CapInv
  OBVIOUS
<1>1. /\ run \in [Runs -> RunType] /\ First \in Runs
      /\ \A g \in Runs : /\ g = First => run[g].pc = "begin"
                         /\ g # First => run[g].pc = "none"
                         /\ run[g].claude = "off" /\ run[g].killed = FALSE /\ run[g].mode = "none"
  BY FreshRuns DEF Init
<1>2. /\ timer = "off" /\ done = << >> /\ recycle = FALSE /\ clear = FALSE /\ force = FALSE
      /\ cancel = Nobody /\ alerts = {} /\ errors = 0 /\ pipe = Nobody /\ active = TRUE
      /\ drain = [pc |-> "free", msg |-> Nobody, target |-> Nobody]
      /\ lastReset = 1 /\ day = 1 /\ daily = 0 /\ num = 0 /\ trail = [d \in 1..MaxDay |-> 0] /\ window \in Windows
  BY DEF Init
<1>3. LoopTypes
  <2>1. drain \in DrainType
    BY <1>2 DEF DrainType
  <2>2. done \in Seq(BOOLEAN)
    BY <1>2
  <2> QED BY <1>1, <1>2, <2>1, <2>2 DEF LoopTypes, DrainType
<1>4. CountTypes
  BY <1>2, ClaudeLoopAssumption DEF CountTypes
<1>5. OneSession
  BY <1>1, <1>2 DEF OneSession, At, Alive
<1>6. CancelIsCurrent
  BY <1>1, <1>2, ClaudeLoopAssumption DEF CancelIsCurrent, Cancellable
<1>7. KillsAreKnown
  BY <1>1, <1>2 DEF KillsAreKnown
<1>8. ClearReaches
  BY <1>1, <1>2 DEF ClearReaches, At
<1>9. CapInv
  BY <1>1, <1>2, ClaudeLoopAssumption DEF CapInv, Uncounted, Extra
<1> QED BY <1>3, <1>4, <1>5, <1>6, <1>7, <1>8, <1>9 DEF LoopInv

-----------------------------------------------------------------------------
(* The cap. *)

LEMMA UncountingKeepsCap ==
  ASSUME CapInv, Uncounting PROVE CapInv'
BY DEF CapInv, Uncounting, Extra

\* A session passes the check only below the cap, and the counter it is compared with starts
\* from zero on a new day.
LEMMA BeginKeepsCap ==
  ASSUME LoopInv, CapInv, NEW g \in Runs, Begin(g) PROVE CapInv'
<1> SUFFICES ASSUME MaxSessionsPerDay > 0 PROVE CapInv'
  BY DEF CapInv
<1>1. PICK to \in {"send", "triage", "count"} :
        /\ Moves(g, to, run[g].mode, run[g].claude, run[g].killed)
        /\ to = "send" \/ daily' < MaxSessionsPerDay
  <2>1. MaxSessionsPerDay \in Nat /\ daily' \in Nat /\ run \in [Runs -> RunType]
    BY ClaudeLoopAssumption DEF Begin, resetDailyCounterIfNeeded, LoopInv, LoopTypes, CountTypes
  <2>2. CASE daily' >= MaxSessionsPerDay
    <3>1. run' = [run EXCEPT ![g].pc = "send"]
      BY <2>2 DEF Begin, Skip
    <3> QED BY <2>1, <3>1, MovePc DEF Pcs
  <2>3. CASE daily' < MaxSessionsPerDay
    <3>1. run' = [run EXCEPT ![g].pc = IF run[g].alerts \cap Triaged # {} THEN "triage" ELSE "count"]
      BY <2>1, <2>3 DEF Begin
    <3> QED BY <2>1, <2>3, <3>1, MovePc DEF Pcs
  <2> QED BY <2>1, <2>2, <2>3
<1>2. /\ UNCHANGED <<trail,
                     day>> /\ lastReset' = day /\ daily' = (IF day # lastReset THEN 0 ELSE daily)
      /\ run[g].pc = "begin"
  BY DEF Begin, resetDailyCounterIfNeeded, At
<1>3. /\ trail \in [1..MaxDay -> Nat] /\ day \in 1..MaxDay /\ lastReset \in 1..day /\ daily \in Nat
      /\ MaxDay \in Nat /\ MaxSessionsPerDay \in Nat
  BY ClaudeLoopAssumption DEF LoopInv, CountTypes
<1>4. trail[day] <= daily' + Extra(day)
  <2>1. CASE day = lastReset
    BY <1>2, <2>1 DEF CapInv
  <2>2. CASE day # lastReset
    BY <1>2, <1>3, <2>2 DEF CapInv, Extra
  <2> QED BY <2>1, <2>2
<1>5. \A h \in Runs : run'[h].pc \in Uncounted => daily' < MaxSessionsPerDay
  BY <1>1, <1>2 DEF Moves, Uncounted, LoopInv, OneSession
<1> QED BY <1>2, <1>3, <1>4, <1>5 DEF CapInv, Extra

LEMMA CountKeepsCap ==
  ASSUME LoopInv, CapInv, NEW g \in Runs, Count(g) PROVE CapInv'
<1> SUFFICES ASSUME MaxSessionsPerDay > 0 PROVE CapInv'
  BY DEF CapInv
<1>1. Moves(g, "mode", run[g].mode, run[g].claude, run[g].killed)
  BY MovePc DEF Count, Pcs, LoopInv, LoopTypes
<1>2. /\ UNCHANGED <<day, lastReset>> /\ run[g].pc = "count"
      /\ daily' = Saturated(daily, MaxSessionsPerDay)
      /\ trail' = [trail EXCEPT ![day] = Saturated(@, MaxSessionsPerDay + 2)]
  BY DEF Count, At
<1>3. /\ trail \in [1..MaxDay -> Nat] /\ day \in 1..MaxDay /\ lastReset \in 1..day /\ daily \in Nat
      /\ MaxDay \in Nat /\ MaxSessionsPerDay \in Nat
  BY ClaudeLoopAssumption DEF LoopInv, CountTypes
<1>4. \A h \in Runs : run'[h].pc \notin Uncounted
  BY <1>1, <1>2 DEF Moves, Uncounted, LoopInv, OneSession
<1>5. trail'[day] <= trail[day] + 1 /\ \A d \in 1..MaxDay : d # day => trail'[d] = trail[d]
  BY <1>2, <1>3 DEF Saturated
<1>6. CASE lastReset = day
  <2>1. daily < MaxSessionsPerDay /\ daily' = daily + 1
    BY <1>2, <1>3, <1>6 DEF CapInv, Uncounted, Saturated
  <2>2. trail'[day] <= daily' + Extra(day) /\ trail'[day] <= MaxSessionsPerDay + Extra(day)
    <3>1. trail[day] <= daily + Extra(day) /\ Extra(day) \in Nat /\ trail'[day] \in Int /\ trail[day] \in Nat
      BY <1>2, <1>3, <1>6 DEF CapInv, Extra, Saturated
    <3> QED BY <1>3, <1>5, <2>1, <3>1
  <2> QED BY <1>2, <1>3, <1>4, <1>5, <1>6, <2>2 DEF CapInv
<1>7. CASE lastReset # day
  <2>1. trail[day] = 0
    BY <1>2, <1>7 DEF CapInv, Uncounted
  <2>2. trail'[day] <= 1
    BY <1>5, <2>1
  <2>3. trail'[day] <= MaxSessionsPerDay + Extra(day)
    BY <1>2, <1>3, <2>2, <2>1 DEF Extra, Saturated
  <2> QED BY <1>2, <1>3, <1>4, <1>5, <1>7, <2>2, <2>3 DEF CapInv
<1> QED BY <1>6, <1>7

LEMMA NewDayKeepsCap ==
  ASSUME LoopInv, CapInv, NewDay PROVE CapInv'
<1>1. UNCHANGED <<trail, run, daily, lastReset>> /\ day' = day + 1 /\ day < MaxDay
  BY DEF NewDay, countVars
<1>2. /\ trail \in [1..MaxDay -> Nat] /\ day \in 1..MaxDay /\ lastReset \in 1..day /\ daily \in Nat
      /\ MaxDay \in Nat /\ MaxSessionsPerDay \in Nat
  BY ClaudeLoopAssumption DEF LoopInv, CountTypes
<1>3. MaxSessionsPerDay > 0 => trail[day + 1] = 0
  BY <1>1, <1>2 DEF CapInv
<1> QED BY <1>1, <1>2, <1>3 DEF CapInv, Extra

\* The counter is restored from the trail.
LEMMA RestartKeepsCap ==
  ASSUME LoopInv, CapInv, Restart PROVE CapInv'
<1>1. \A g \in Runs : run'[g].pc \in {"begin", "none"}
  BY FreshRuns DEF Restart, Started
<1>2. UNCHANGED <<trail, day>> /\ lastReset' = day /\ daily' = trail[day]
  BY DEF Restart, Started, seedSessionCounters
<1>3. trail \in [1..MaxDay -> Nat] /\ day \in 1..MaxDay /\ MaxDay \in Nat
  BY ClaudeLoopAssumption DEF LoopInv, CountTypes
<1> QED BY <1>1, <1>2, <1>3 DEF CapInv, Extra, Uncounted

-----------------------------------------------------------------------------
(* The loop. *)

LEMMA RunStepKeeps ==
  ASSUME LoopInv, CapInv, "skip" \notin Windows, NEW g \in Runs, RunStep(g) \/ TurnEnds(g) \/ Exits(g)
  PROVE  LoopInv' /\ CapInv' /\ (errors' = errors \/ Check(g))
<1>1. CASE Begin(g)
  BY <1>1, BeginKeeps, BeginKeepsCap
<1>2. CASE Count(g)
  BY <1>2, CountKeeps, CountKeepsCap
<1>3. CASE Check(g)
  BY <1>3, CheckKeeps, UncountingKeepsCap
<1>4. CASE runTriageSession(g) \/ ReadFlags(g) \/ StartClaude(g) \/ RunReturns(g)
  BY <1>4, TriageKeeps, ReadFlagsKeeps, StartClaudeKeeps, RunReturnsKeeps, UncountingKeepsCap
<1>5. CASE Send(g) \/ ClearActive(g) \/ TurnEnds(g) \/ Exits(g)
  BY <1>5, SendKeeps, ClearActiveKeeps, TurnEndsKeeps, ExitsKeeps, UncountingKeepsCap
<1> QED BY <1>1, <1>2, <1>3, <1>4, <1>5 DEF RunStep

LEMMA MainStepKeeps ==
  ASSUME LoopInv, CapInv, "skip" \notin Windows, MainStep \/ IntervalOver \/ CooldownOver
  PROVE  LoopInv' /\ CapInv' /\ errors' = errors
<1>1. CASE handleSessionDone \/ handleTurnDone \/ handleTimer
  BY <1>1, SessionDoneKeeps, TurnDoneKeeps, TimerKeeps, UncountingKeepsCap
<1>2. CASE handleWake \/ IntervalOver \/ CooldownOver
  BY <1>2, WakeKeeps, IntervalOverKeeps, CooldownKeeps, UncountingKeepsCap
<1>3. ASSUME NEW polled \in SUBSET Alerts, NEW calm \in BOOLEAN, handleAlertPoll(polled, calm)
      PROVE  LoopInv' /\ CapInv' /\ errors' = errors
  BY <1>3, AlertPollKeeps, UncountingKeepsCap
<1> QED BY <1>1, <1>2, <1>3 DEF MainStep

LEMMA DrainStepKeeps ==
  ASSUME LoopInv, CapInv, "skip" \notin Windows, DrainStep \/ ClearFlags \/ \E m \in Messages : Receive(m)
  PROVE  LoopInv' /\ CapInv' /\ errors' = errors
<1>1. CASE Queue \/ ClearReadsCancel \/ ClearKills \/ ClearFlags
  BY <1>1, QueueKeeps, ClearReadsCancelKeeps, ClearKillsKeeps, ClearFlagsKeeps, UncountingKeepsCap
<1>2. ASSUME NEW m \in Messages, Receive(m)
      PROVE  LoopInv' /\ CapInv' /\ errors' = errors
  BY <1>2, ReceiveKeeps, UncountingKeepsCap
<1> QED BY <1>1, <1>2 DEF DrainStep

LEMMA LoopStep ==
  ASSUME LoopInv, CapInv, "skip" \notin Windows, [Next]_vars
  PROVE  LoopInv' /\ CapInv' /\ (errors' \in {errors, 0} \/ \E g \in Runs : Check(g))
<1>1. CASE UNCHANGED vars
  <2>1. LoopInv'
    BY <1>1 DEF vars, LoopInv, LoopTypes, CountTypes, OneSession, CancelIsCurrent, KillsAreKnown,
        ClearReaches, At, Alive
  <2>2. CapInv'
    BY <1>1 DEF vars, CapInv
  <2> QED BY <1>1, <2>1, <2>2 DEF vars
<1>2. CASE MainStep \/ IntervalOver \/ CooldownOver
  BY <1>2, MainStepKeeps
<1>3. CASE DrainStep \/ ClearFlags \/ \E m \in Messages : Receive(m)
  BY <1>3, DrainStepKeeps
<1>4. ASSUME NEW g \in Runs, RunStep(g) \/ TurnEnds(g) \/ Exits(g)
      PROVE  LoopInv' /\ CapInv' /\ (errors' = errors \/ Check(g))
  BY <1>4, RunStepKeeps
<1>5. CASE NewDay
  BY <1>5, NewDayKeeps, NewDayKeepsCap
<1>6. CASE Restart
  BY <1>6, RestartKeeps, RestartKeepsCap
<1> QED BY <1>1, <1>2, <1>3, <1>4, <1>5, <1>6 DEF Next

\* One Claude process at a time, whatever starts sessions: the timer, an alert, a message or a
\* recycled session, and wherever the container restarts; a skipped session that clears
\* sessionActive twice is the exception.
THEOREM OneProcessAtATime == "skip" \notin Windows => (Spec => []OneProcess)
<1> SUFFICES ASSUME "skip" \notin Windows PROVE Spec => []OneProcess
  OBVIOUS
<1>1. LoopInv => OneProcess
  <2> SUFFICES ASSUME LoopInv PROVE OneProcess
    OBVIOUS
  <2> DEFINE live == {g \in Runs : run[g].claude \in {"working", "idle"}}
  <2>1. \A g, h \in live : g = h
    BY DEF LoopInv, OneSession, Alive, At
  <2>2. live = {} \/ \E g \in live : live = {g}
    BY <2>1
  <2>3. Cardinality(live) <= 1
    <3>1. CASE live = {}
      <4>1. Cardinality(live) = 0
        BY <3>1, FS_EmptySet
      <4> QED BY <4>1
    <3>2. ASSUME NEW g \in live, live = {g} PROVE Cardinality(live) <= 1
      <4>1. Cardinality(live) = 1
        BY <3>2, FS_Singleton
      <4> QED BY <4>1
    <3> QED BY <2>2, <3>1, <3>2
  <2> QED BY <2>3 DEF OneProcess
<1> QED BY <1>1, LoopInit, LoopStep, PTL DEF Spec

\* No day has more sessions than the cap, but for one that passed the check before midnight,
\* however often the container restarts.
THEOREM DailyCapHoldsAlways == "skip" \notin Windows => (Spec => []DailyCapHolds)
<1> SUFFICES ASSUME "skip" \notin Windows PROVE Spec => []DailyCapHolds
  OBVIOUS
<1>1. CapInv => DailyCapHolds
  BY ClaudeLoopAssumption DEF CapInv, DailyCapHolds, Extra
<1> QED BY <1>1, LoopInit, LoopStep, PTL DEF Spec

\* A session that /clear or the recycle timer killed is never counted as an error.
THEOREM KillsAreNotErrors == "skip" \notin Windows => (Spec => OnlyFailuresCount)
<1> SUFFICES ASSUME "skip" \notin Windows PROVE Spec => OnlyFailuresCount
  OBVIOUS
<1> DEFINE A == errors' > errors => \E g \in Runs : At(g, "check") /\ run[g].failed /\ ~ run[g].killed
<1>1. LoopInv /\ CapInv /\ [Next]_vars => [A]_vars
  <2> SUFFICES ASSUME LoopInv, CapInv, [Next]_vars, errors' > errors
               PROVE  \E g \in Runs : At(g, "check") /\ run[g].failed /\ ~ run[g].killed
    OBVIOUS
  <2>1. errors \in Nat
    BY DEF LoopInv, LoopTypes
  <2>2. PICK g \in Runs : Check(g)
    BY <2>1, LoopStep
  <2>3. At(g, "check") /\ run[g].failed /\ ~ clear /\ ~ recycle
    BY <2>1, <2>2 DEF Check
  <2>4. ~ run[g].killed
    BY <2>3 DEF LoopInv, KillsAreKnown, At, Cancellable
  <2> QED BY <2>3, <2>4
<1>2. LoopInv /\ CapInv /\ [Next]_vars => (LoopInv /\ CapInv)'
  BY LoopStep
<1> QED BY <1>1, <1>2, LoopInit, PTL DEF Spec, OnlyFailuresCount

\* /clear reaches a session at whatever point of its start it arrives: what starts with
\* --continue after it is killed.
THEOREM ClearIsNeverMissed == "skip" \notin Windows => (Spec => ClearStartsFresh)
<1> SUFFICES ASSUME "skip" \notin Windows PROVE Spec => ClearStartsFresh
  OBVIOUS
<1> DEFINE A == \A g \in Runs : /\ At(g, "start") /\ run'[g].pc = "run" /\ run[g].mode = "continue"
                                /\ force /\ drain.pc = "free"
                                => run[g].killed
<1>1. LoopInv => A
  BY DEF LoopInv, ClearReaches
<1>2. LoopInv /\ CapInv /\ [Next]_vars => (LoopInv /\ CapInv)'
  BY LoopStep
<1>3. LoopInv /\ CapInv /\ [Next]_vars => [A]_vars
  BY <1>1
<1> QED BY <1>2, <1>3, LoopInit, PTL DEF Spec, ClearStartsFresh
=============================================================================
