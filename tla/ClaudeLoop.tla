----------------------------- MODULE ClaudeLoop -----------------------------
(***************************************************************************)
(* The loop that keeps one Claude Code process alive: claude_runtime/      *)
(* loop.go with the executor and the process group below it.  Four         *)
(* goroutines: the main loop (a select over channels, whose handlers run   *)
(* one at a time), the goroutine of a session, the one that drains         *)
(* Telegram, and Telegram's own poller, which only fills a channel.        *)
(*                                                                         *)
(* A handler of the main loop reads shared state once and is one step; a   *)
(* session and the drainer take a step per access to shared state.         *)
(* Terminal output, notices, prompts' text and lifecycle events are left   *)
(* out; a session counts as started when its process is.                   *)
(***************************************************************************)
EXTENDS Integers, Sequences, FiniteSets

CONSTANTS
  Runs,               \* goroutines of sessions; a finished one is used again
  Alerts, Triaged,    \* alerts, and those with on_trigger = wake_triage
  Messages,           \* Telegram messages
  Nobody,
  MaxSessionsPerDay, MaxConsecutiveErrors,   \* 0: no limit
  Windows,            \* races of a few instructions, see MayRace
  MaxPolls, MaxClears, MaxFaults, MaxRestarts, MaxDay   \* bounds

ASSUME ClaudeLoopAssumption ==
  /\ Triaged \subseteq Alerts /\ Nobody \notin Runs \cup Messages /\ Runs # {}
  /\ Windows \subseteq {"none", "done", "skip", "answer"}
  /\ {MaxSessionsPerDay, MaxConsecutiveErrors, MaxPolls, MaxClears, MaxFaults,
      MaxRestarts, MaxDay} \subseteq Nat
  /\ MaxDay >= 1

VARIABLES
  timer,              \* intervalTimer: "off", "set", "due"
  active,             \* sessionActive
  turnDone, wake,     \* a signal in TurnDoneCh, in tgWake
  cooldown,           \* the 5 seconds after which tgWake is signalled
  done,               \* sessionDoneCh
  recycle, clear,     \* recycleRequested, clearRequested
  force, human,       \* forceNewSession, pendingHumanMsg
  cancel,             \* sessionCancel: the session it cancels
  alerts,             \* pendingAlerts
  errors, daily, num, lastReset,   \* the loop's counters
  run,                \* a session's goroutine and its Claude process
  pipe,               \* stdinPipe: the session whose process reads it
  drain,              \* the drainer: where it is, its message, its cancel
  trail,              \* entries of the trail file per day
  day, halted, window,
  left                \* bounds not used up yet; messages not sent yet

loopVars == <<timer, turnDone, wake, cooldown, done>>
flagVars == <<recycle, clear, force, human>>
countVars == <<errors, daily, num, lastReset, trail>>
vars == <<timer, active, turnDone, wake, cooldown, done, recycle, clear, force, human, cancel,
          alerts, errors, daily, num, lastReset, run, pipe, drain, trail, day, halted, window, left>>

\* Races that need a switch between two neighbouring instructions, or a main loop
\* that is busy while Claude answers.  A behaviour meets at most one of them:
\*   done    the main loop handles the outcome before sessionActive is cleared;
\*   skip    something runs between the two clearings of a skipped session;
\*   answer  Claude ends its turn while the main loop has older signals to handle.
MayRace(w) == window = w

NoRun == [pc |-> "none", alerts |-> {}, mode |-> "none", claude |-> "off", killed |-> FALSE,
          failed |-> FALSE, fatal |-> FALSE]
Saturated(n, max) == IF n < max THEN n + 1 ELSE n

-----------------------------------------------------------------------------
(* Starting a session. *)

Free == {g \in Runs : run[g].pc = "none"}
Spare == CHOOSE g \in Free : TRUE
\* Mutant: the check of sessionActive is missing.
startSessionUnchecked ==
  /\ active' = TRUE /\ alerts' = {} /\ Free # {}
  /\ run' = [run EXCEPT ![Spare] = [NoRun EXCEPT !.pc = "begin", !.alerts = alerts]]

\* Mutant: the alerts handed to a session stay pending.
startSessionKeepsAlerts ==
  IF active THEN UNCHANGED <<active, run, alerts>>
  ELSE /\ active' = TRUE
       /\ alerts' = alerts
       /\ Free # {} /\ run' = [run EXCEPT ![Spare] = [NoRun EXCEPT !.pc = "begin", !.alerts = alerts]]

startSessionAsync ==
  IF active THEN UNCHANGED <<active, run, alerts>>
  ELSE /\ active' = TRUE
       /\ alerts' = {}
       /\ Free # {} /\ run' = [run EXCEPT ![Spare] = [NoRun EXCEPT !.pc = "begin", !.alerts = alerts]]

NoStart == UNCHANGED <<active, run, alerts>>

-----------------------------------------------------------------------------
(* The session's goroutine: runSessionBlocking and the wrapper around it. *)

At(g, pc) == run[g].pc = pc
Capped == MaxSessionsPerDay > 0 /\ daily >= MaxSessionsPerDay

\* A skipped session clears sessionActive at once, and again after its outcome is sent.
Skip(g) ==
  /\ run' = [run EXCEPT ![g].pc = "send"]
  /\ active' = (active /\ ~ MayRace("skip"))

resetDailyCounterIfNeeded ==
  /\ lastReset' = day
  /\ daily' = IF day # lastReset THEN 0 ELSE daily

Begin(g) ==
  /\ At(g, "begin")
  /\ resetDailyCounterIfNeeded
  /\ IF MaxSessionsPerDay > 0 /\ daily' >= MaxSessionsPerDay
     THEN Skip(g) /\ human' = Nobody
     ELSE /\ run' = [run EXCEPT ![g].pc = IF run[g].alerts \cap Triaged # {} THEN "triage" ELSE "count"]
          /\ UNCHANGED <<active, human>>
  /\ UNCHANGED <<loopVars, recycle, clear, force, cancel, alerts, errors, num, pipe, drain, trail,
                 day, halted, window, left>>

\* The fast model says NO; anything else, an error included, goes on.
runTriageSession(g) ==
  /\ At(g, "triage")
  /\ \/ Skip(g)
     \/ run' = [run EXCEPT ![g].pc = "count"] /\ UNCHANGED active
  /\ UNCHANGED <<loopVars, flagVars, cancel, alerts, countVars, pipe, drain, day, halted, window, left>>

\* Mutant: sessionCancel is set after the flags have been read.
CountLateCancel(g) ==
  /\ At(g, "count")
  /\ num' = Saturated(num, 2)
  /\ daily' = Saturated(daily, MaxSessionsPerDay)
  /\ trail' = [trail EXCEPT ![day] = Saturated(@, MaxSessionsPerDay + 2)]
  /\ clear' = FALSE
  /\ cancel' = cancel
  /\ run' = [run EXCEPT ![g].pc = "mode"]
  /\ UNCHANGED <<loopVars, active, recycle, force, human, alerts, errors, lastReset, pipe, drain,
                 day, halted, window, left>>

\* The counters and the trail entry, then clearRequested and sessionCancel.
Count(g) ==
  /\ At(g, "count")
  /\ num' = Saturated(num, 2)
  /\ daily' = Saturated(daily, MaxSessionsPerDay)
  /\ trail' = [trail EXCEPT ![day] = Saturated(@, MaxSessionsPerDay + 2)]
  /\ clear' = FALSE
  /\ cancel' = g
  /\ run' = [run EXCEPT ![g].pc = "mode"]
  /\ UNCHANGED <<loopVars, active, recycle, force, human, alerts, errors, lastReset, pipe, drain,
                 day, halted, window, left>>

Mode(g) ==
  IF force THEN "after_clear"
  ELSE IF num > 1 /\ (human # Nobody \/ run[g].alerts # {}) THEN "continue"
  ELSE "fresh"

\* A message that a first session does not use is queued again.
ReadFlags(g) ==
  /\ At(g, "mode")
  /\ force' = FALSE
  /\ human' = IF Mode(g) = "fresh" THEN human ELSE Nobody
  /\ run' = [run EXCEPT ![g].pc = "start", ![g].mode = Mode(g)]
  /\ UNCHANGED <<loopVars, active, recycle, clear, cancel, alerts, countVars, pipe, drain,
                 day, halted, window, left>>

\* Executor.Run: the process and its pipe; or an error before there is one.
StartClaude(g) ==
  /\ At(g, "start")
  /\ \/ run' = [run EXCEPT ![g].pc = "run", ![g].claude = "working"] /\ pipe' = g /\ UNCHANGED left
     \/ /\ left.faults > 0
        /\ run' = [run EXCEPT ![g].pc = "check", ![g].claude = "exited", ![g].failed = TRUE]
        /\ pipe' = Nobody /\ left' = [left EXCEPT !.faults = @ - 1]
  /\ UNCHANGED <<loopVars, active, flagVars, cancel, alerts, countVars, drain, day, halted, window>>

Alive(g) == run[g].claude \in {"working", "idle"}

Backlog == wake \/ cooldown \/ done # << >> \/ drain.pc = "queue"

\* result/success on the process's output: parseStream.
TurnEnds(g) ==
  /\ run[g].claude = "working"
  /\ ~ Backlog \/ MayRace("answer")
  /\ run' = [run EXCEPT ![g].claude = "idle"]
  /\ turnDone' = TRUE
  /\ UNCHANGED <<timer, active, wake, cooldown, done, flagVars, cancel, alerts, countVars, pipe, drain,
                 day, halted, window, left>>

\* The process dies: killed through its context, by an error of its own (a rate limit and
\* the session timeout count as one; a login error is fatal), or without an error (the
\* idle timeout, which is not reported as one).
Exits(g) ==
  /\ Alive(g)
  /\ \/ /\ run[g].killed
        /\ run' = [run EXCEPT ![g].claude = "exited", ![g].failed = TRUE]
        /\ UNCHANGED left
     \/ /\ left.faults > 0 /\ left' = [left EXCEPT !.faults = @ - 1]
        /\ \E failed, fatal \in BOOLEAN :
             /\ fatal => failed
             /\ run' = [run EXCEPT ![g].claude = "exited", ![g].failed = failed, ![g].fatal = fatal]
  /\ UNCHANGED <<loopVars, active, flagVars, cancel, alerts, countVars, pipe, drain, day, halted, window>>

\* The deferred function of Executor.Run closes whatever pipe is there.
RunReturns(g) ==
  /\ At(g, "run") /\ run[g].claude = "exited"
  /\ pipe' = Nobody
  /\ run' = [run EXCEPT ![g].pc = "check"]
  /\ UNCHANGED <<loopVars, active, flagVars, cancel, alerts, countVars, drain, day, halted, window, left>>

\* Mutant: a kill by the recycle timer counts like a failure.
CheckCountsRecycle(g) ==
  /\ At(g, "check")
  /\ clear' = FALSE
  /\ LET counted == run[g].failed /\ ~ clear
         ok == ~ run[g].failed /\ ~ clear /\ ~ recycle
     IN /\ errors' = IF ok THEN 0 ELSE IF counted THEN errors + 1 ELSE errors
        /\ run' = [run EXCEPT ![g].pc = "send",
                    ![g].fatal = counted /\ (@ \/ (/\ MaxConsecutiveErrors > 0
                                                   /\ errors' >= MaxConsecutiveErrors))]
  /\ cancel' = Nobody
  /\ UNCHANGED <<loopVars, active, recycle, force, human, alerts, daily, num, lastReset, trail, pipe,
                 drain, day, halted, window, left>>

\* What the end of the process means; sessionCancel is cleared on the way out.
Check(g) ==
  /\ At(g, "check")
  /\ clear' = FALSE
  /\ LET counted == run[g].failed /\ ~ clear /\ ~ recycle
         ok == ~ run[g].failed /\ ~ clear /\ ~ recycle
     IN /\ errors' = IF ok THEN 0 ELSE IF counted THEN errors + 1 ELSE errors
        /\ run' = [run EXCEPT ![g].pc = "send",
                    ![g].fatal = counted /\ (@ \/ (/\ MaxConsecutiveErrors > 0
                                                   /\ errors' >= MaxConsecutiveErrors))]
  /\ cancel' = Nobody
  /\ UNCHANGED <<loopVars, active, recycle, force, human, alerts, daily, num, lastReset, trail, pipe,
                 drain, day, halted, window, left>>

\* The outcome goes into a channel with room for one; then sessionActive is cleared.
Send(g) ==
  /\ At(g, "send") /\ done = << >>
  /\ done' = <<run[g].fatal>>
  /\ IF MayRace("done")
     THEN run' = [run EXCEPT ![g].pc = "sent"] /\ UNCHANGED active
     ELSE run' = [run EXCEPT ![g] = NoRun] /\ active' = FALSE
  /\ UNCHANGED <<timer, turnDone, wake, cooldown, flagVars, cancel, alerts, countVars, pipe, drain,
                 day, halted, window, left>>

ClearActive(g) ==
  /\ At(g, "sent")
  /\ run' = [run EXCEPT ![g] = NoRun] /\ active' = FALSE
  /\ UNCHANGED <<loopVars, flagVars, cancel, alerts, countVars, pipe, drain, day, halted, window, left>>

RunStep(g) ==
  \/ Begin(g) \/ runTriageSession(g) \/ Count(g) \/ ReadFlags(g) \/ StartClaude(g)
  \/ RunReturns(g) \/ Check(g) \/ Send(g) \/ ClearActive(g)

-----------------------------------------------------------------------------
(* The main loop.  A fatal outcome ends it. *)

\* InjectMessage fails without a pipe, or when nobody reads it any more.
Listening == pipe # Nobody /\ (pipe # Nobody => Alive(pipe))
Injected == [run EXCEPT ![pipe].claude = "working"]

handleSessionDone ==
  /\ ~ halted /\ done # << >>
  /\ done' = << >>
  /\ IF done[1]
     THEN halted' = TRUE /\ NoStart /\ UNCHANGED <<timer, cooldown, recycle, human>>
     ELSE IF recycle
     THEN /\ recycle' = FALSE /\ human' = Nobody /\ startSessionAsync
          /\ UNCHANGED <<timer, cooldown, halted>>
     ELSE /\ timer' = IF human = Nobody THEN "set" ELSE "off"
          /\ cooldown' = (cooldown \/ human # Nobody)
          /\ NoStart /\ UNCHANGED <<recycle, human, halted>>
  /\ UNCHANGED <<turnDone, wake, clear, force, cancel, countVars, pipe, drain, day, window, left>>

handleTurnDone ==
  /\ ~ halted /\ turnDone
  /\ turnDone' = FALSE
  /\ timer' = IF active THEN "set" ELSE timer
  /\ UNCHANGED <<active, wake, cooldown, done, flagVars, cancel, alerts, countVars, run, pipe, drain,
                 day, halted, window, left>>

\* The interval is longer than whatever is ready for the main loop keeps it busy.
IntervalOver ==
  /\ timer = "set" /\ ~ halted
  /\ done = << >> /\ ~ turnDone /\ ~ wake
  /\ timer' = "due"
  /\ UNCHANGED <<active, turnDone, wake, cooldown, done, flagVars, cancel, alerts, countVars, run,
                 pipe, drain, day, halted, window, left>>

handleTimer ==
  /\ ~ halted /\ timer = "due"
  /\ timer' = "off"
  /\ IF active
     THEN /\ recycle' = TRUE
          /\ run' = IF cancel = Nobody THEN run ELSE [run EXCEPT ![cancel].killed = TRUE]
          /\ UNCHANGED <<active, alerts>>
     ELSE startSessionAsync /\ UNCHANGED recycle
  /\ UNCHANGED <<turnDone, wake, cooldown, done, clear, force, human, cancel, countVars, pipe, drain,
                 day, halted, window, left>>

\* Alerts that are pending already are dropped.  An injected alert stays pending.  The
\* wake-up of a dead session is subject to a pause and an hourly cap: calm.
handleAlertPoll(polled, calm) ==
  LET new == polled \ alerts IN
  /\ ~ halted /\ left.polls > 0 /\ new # {}
  /\ left' = [left EXCEPT !.polls = @ - 1]
  /\ IF active
     THEN /\ alerts' = alerts \cup new
          /\ run' = IF Listening THEN Injected ELSE run
          /\ timer' = IF Listening THEN "off" ELSE timer
          /\ UNCHANGED active
     ELSE IF calm
     THEN /\ timer' = "off" /\ active' = TRUE /\ alerts' = {}
          /\ Free # {}
          /\ run' = [run EXCEPT ![Spare] = [NoRun EXCEPT !.pc = "begin", !.alerts = alerts \cup new]]
     ELSE alerts' = alerts \cup new /\ UNCHANGED <<timer, active, run>>
  /\ UNCHANGED <<turnDone, wake, cooldown, done, flagVars, cancel, countVars, pipe, drain,
                 day, halted, window>>

\* Mutant: /clear stops the timer of a killed session and forgets to set it again.
handleWakeNoTimer ==
  /\ ~ halted /\ wake
  /\ wake' = FALSE
  /\ timer' = "off"
  /\ IF ~ active /\ human # Nobody THEN startSessionAsync ELSE NoStart
  /\ UNCHANGED <<turnDone, cooldown, done, flagVars, cancel, countVars, pipe, drain,
                 day, halted, window, left>>

handleWake ==
  /\ ~ halted /\ wake
  /\ wake' = FALSE
  /\ timer' = IF ~ active /\ human = Nobody THEN "set" ELSE "off"
  /\ IF ~ active /\ human # Nobody THEN startSessionAsync ELSE NoStart
  /\ UNCHANGED <<turnDone, cooldown, done, flagVars, cancel, countVars, pipe, drain,
                 day, halted, window, left>>

CooldownOver ==
  /\ cooldown
  /\ cooldown' = FALSE /\ wake' = TRUE
  /\ UNCHANGED <<timer, active, turnDone, done, flagVars, cancel, alerts, countVars, run, pipe, drain,
                 day, halted, window, left>>

-----------------------------------------------------------------------------
(* Telegram: drainTelegram and handleClear. *)

Receive(m) ==
  /\ drain.pc = "free" /\ m \in left.messages
  /\ left' = [left EXCEPT !.messages = @ \ {m}]
  /\ IF ~ active
     THEN drain' = [drain EXCEPT !.pc = "queue", !.msg = m] /\ UNCHANGED <<human, run, wake>>
     ELSE IF Listening
     THEN run' = Injected /\ wake' = TRUE /\ UNCHANGED <<drain, human>>
     ELSE human' = m /\ UNCHANGED <<drain, run, wake>>
  /\ UNCHANGED <<timer, active, turnDone, cooldown, done, recycle, clear, force, cancel, alerts,
                 countVars, pipe, day, halted, window>>

Queue ==
  /\ drain.pc = "queue"
  /\ human' = drain.msg /\ wake' = TRUE
  /\ drain' = [drain EXCEPT !.pc = "free", !.msg = Nobody]
  /\ UNCHANGED <<timer, active, turnDone, cooldown, done, recycle, clear, force, cancel, alerts,
                 countVars, run, pipe, day, halted, window, left>>

\* handleClear: the flags, then the cancel function, then the kill or the wake signal.
ClearFlags ==
  /\ drain.pc = "free" /\ left.clears > 0
  /\ left' = [left EXCEPT !.clears = @ - 1]
  /\ force' = TRUE /\ human' = Nobody
  /\ drain' = [drain EXCEPT !.pc = "cancel"]
  /\ UNCHANGED <<loopVars, active, recycle, clear, cancel, alerts, countVars, run, pipe,
                 day, halted, window>>

\* Without a session to cancel the main loop is woken.
ClearReadsCancel ==
  /\ drain.pc = "cancel"
  /\ IF cancel = Nobody
     THEN wake' = TRUE /\ drain' = [drain EXCEPT !.pc = "free"]
     ELSE UNCHANGED wake /\ drain' = [drain EXCEPT !.pc = "kill", !.target = cancel]
  /\ UNCHANGED <<timer, active, turnDone, cooldown, done, flagVars, cancel, alerts, countVars, run, pipe,
                 day, halted, window, left>>

ClearKills ==
  /\ drain.pc = "kill"
  /\ clear' = TRUE
  /\ run' = IF cancel = drain.target THEN [run EXCEPT ![cancel].killed = TRUE] ELSE run
  /\ drain' = [drain EXCEPT !.pc = "free", !.target = Nobody]
  /\ UNCHANGED <<loopVars, active, recycle, force, human, cancel, alerts,
                 countVars, pipe, day, halted, window, left>>

-----------------------------------------------------------------------------
(* Midnight; and the container that stops and starts anew: only the trail survives. *)

NewDay ==
  /\ day < MaxDay
  /\ day' = day + 1
  /\ UNCHANGED <<loopVars, active, flagVars, cancel, alerts, countVars, run, pipe, drain,
                 halted, window, left>>

First == CHOOSE g \in Runs : TRUE
Started ==
  /\ timer' = "off" /\ turnDone' = FALSE /\ wake' = FALSE /\ cooldown' = FALSE /\ done' = << >>
  /\ recycle' = FALSE /\ clear' = FALSE /\ force' = FALSE /\ human' = Nobody
  /\ cancel' = Nobody /\ alerts' = {} /\ errors' = 0 /\ pipe' = Nobody /\ halted' = FALSE
  /\ drain' = [pc |-> "free", msg |-> Nobody, target |-> Nobody]
  /\ active' = TRUE
  /\ run' = [g \in Runs |-> IF g = First THEN [NoRun EXCEPT !.pc = "begin"] ELSE NoRun]

\* Mutant: today's sessions are not counted at a restart.
seedSessionNumber ==
  /\ num' = IF \E d \in 1..day : trail[d] > 0 THEN num ELSE 0
  /\ daily' = 0 /\ lastReset' = day

\* seedSessionCounters: the highest session number, and today's started entries.
seedSessionCounters ==
  /\ num' = IF \E d \in 1..day : trail[d] > 0 THEN num ELSE 0
  /\ daily' = trail[day] /\ lastReset' = day

Restart ==
  /\ left.restarts > 0
  /\ left' = [left EXCEPT !.restarts = @ - 1]
  /\ Started /\ seedSessionCounters
  /\ UNCHANGED <<trail, day, window>>

Init ==
  /\ timer = "off" /\ turnDone = FALSE /\ wake = FALSE /\ cooldown = FALSE /\ done = << >>
  /\ recycle = FALSE /\ clear = FALSE /\ force = FALSE /\ human = Nobody
  /\ cancel = Nobody /\ alerts = {} /\ errors = 0 /\ pipe = Nobody /\ halted = FALSE
  /\ drain = [pc |-> "free", msg |-> Nobody, target |-> Nobody]
  /\ active = TRUE
  /\ run = [g \in Runs |-> IF g = First THEN [NoRun EXCEPT !.pc = "begin"] ELSE NoRun]
  /\ num = 0 /\ daily = 0 /\ lastReset = 1 /\ day = 1 /\ trail = [d \in 1..MaxDay |-> 0]
  /\ window \in Windows
  /\ left = [polls |-> MaxPolls, clears |-> MaxClears, faults |-> MaxFaults,
             restarts |-> MaxRestarts, messages |-> Messages]

MainStep ==
  \/ handleSessionDone \/ handleTurnDone \/ handleTimer \/ handleWake
  \/ \E polled \in SUBSET Alerts, calm \in BOOLEAN : handleAlertPoll(polled, calm)
DrainStep == Queue \/ ClearReadsCancel \/ ClearKills

Next ==
  \/ MainStep \/ IntervalOver \/ CooldownOver \/ DrainStep \/ ClearFlags
  \/ \E m \in Messages : Receive(m)
  \/ \E g \in Runs : RunStep(g) \/ TurnEnds(g) \/ Exits(g)
  \/ NewDay \/ Restart

Spec == Init /\ [][Next]_vars

\* Goroutines run; select takes one of its ready cases at random, so each is taken in the
\* end; a turn of Claude ends; a process that is killed dies.
FairSpec ==
  /\ Spec
  /\ SF_vars(handleSessionDone) /\ SF_vars(handleTurnDone) /\ SF_vars(handleTimer) /\ SF_vars(handleWake)
  /\ WF_vars(IntervalOver) /\ WF_vars(CooldownOver) /\ WF_vars(DrainStep)
  /\ \A g \in Runs : /\ WF_vars(RunStep(g)) /\ WF_vars(TurnEnds(g))
                     /\ WF_vars(run[g].killed /\ Exits(g))

-----------------------------------------------------------------------------
(* Properties. *)

\* One Claude process at a time, whatever starts sessions: timer, alert, message, recycle.
\* sessionActive guards it, and has two writers while a session is being skipped (see skip).
OneProcess == Cardinality({g \in Runs : run[g].claude \in {"working", "idle"}}) <= 1

\* After /clear, the next process that is not killed at once starts without --continue, at
\* whatever point of a session's start the command arrives.
ClearStartsFresh ==
  [][ \A g \in Runs : /\ At(g, "start") /\ run'[g].pc = "run" /\ run[g].mode = "continue"
                      /\ force /\ drain.pc = "free"
                      => run[g].killed ]_vars

\* A session killed by /clear or by the recycle timer is not counted as an error, and a
\* session that failed by itself is, unless a kill was under way.
OnlyFailuresCount ==
  [][ errors' > errors => \E g \in Runs : At(g, "check") /\ run[g].failed /\ ~ run[g].killed ]_vars

\* The cap of sessions a day holds across restarts of the container: the counter is
\* restored from the trail, which is written before the process starts.  A session that
\* passed the check just before midnight comes on top of the next day's.
DailyCapHolds ==
  MaxSessionsPerDay = 0
  \/ \A d \in 1..MaxDay : trail[d] <= MaxSessionsPerDay + (IF d = 1 THEN 0 ELSE 1)

\* The agent never stops trading by itself: a session with a process comes again and again,
\* unless the loop has halted or the day's sessions are used up.
Working == \E g \in Runs : run[g].claude = "working"
SessionsGoOn == window = "none" => []<>(Working \/ halted \/ Capped)

\* What waits is taken: an alert by a session, a message by a session or a later message.
NothingWaitsForever ==
  /\ \A x \in Alerts : (window = "none" /\ x \in alerts) ~> (x \notin alerts \/ halted)
  /\ \A m \in Messages : (window = "none" /\ human = m) ~> (human # m \/ halted)

\* consecutiveErrors counts failures in a row: a session that did not fail resets it.
ErrorsAreConsecutive ==
  [][ \A g \in Runs : /\ At(g, "check") /\ run'[g].pc = "send"
                      /\ ~ run[g].failed \/ run[g].killed
                      => errors' = 0 ]_vars
=============================================================================
