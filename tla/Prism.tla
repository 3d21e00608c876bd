------------------------------- MODULE Prism -------------------------------
(***************************************************************************)
(* The circuit breaker in front of the PRISM API, shared by all calls of   *)
(* the market data server (marketdata/prism/client.go, the PRISM tools of  *)
(* mcps/marketdata/service.go).  A call looks at the breaker, asks without *)
(* its mutex, and reports the outcome, perhaps after the breaker changed.  *)
(***************************************************************************)
EXTENDS Integers

CONSTANTS
  Asks,              \* concurrent tool calls
  FailureThreshold,
  Cooldown,          \* in ticks
  MaxClock,          \* bound on time
  MaxAsks            \* bound on calls

PrismAssumption ==
  /\ FailureThreshold \in Nat \ {0} /\ Cooldown \in Nat \ {0}
  /\ {MaxClock, MaxAsks} \subseteq Nat

VARIABLES
  clock,
  breaker,  \* [state, errors, openedAt] behind Client.mu
  asks,     \* each call: "off", "sent" or how it ended
  past      \* history, kept without looking at breaker: [streak, since, sent, wrong]

vars == <<clock, breaker, asks, past>>

Init ==
  /\ clock = 0
  /\ breaker = [state |-> "closed", errors |-> 0, openedAt |-> 0]
  /\ asks = [a \in Asks |-> "off"]
  /\ past = [streak |-> 0, since |-> 0, sent |-> 0, wrong |-> {}]

\* Failures since the last answer, and when they became as many as the threshold.
Broken == past.streak >= FailureThreshold
Cooled == clock - past.since >= Cooldown

Tick ==
  /\ clock < MaxClock /\ clock' = clock + 1
  /\ UNCHANGED <<breaker, asks, past>>

\* beforeCall lets a request out: the breaker is closed or probing, or opened long enough ago.
Admit(a) ==
  /\ asks[a] # "sent" /\ past.sent < MaxAsks
  /\ \/ breaker.state \in {"closed", "half_open"} /\ UNCHANGED breaker
     \/ /\ breaker.state = "open" /\ clock - breaker.openedAt >= Cooldown
        /\ breaker' = [breaker EXCEPT !.state = "half_open"]
  /\ asks' = [asks EXCEPT ![a] = "sent"]
  /\ past' = [past EXCEPT !.sent = @ + 1, !.wrong = IF Broken /\ ~Cooled THEN @ \cup {"early"} ELSE @]
  /\ UNCHANGED clock

\* UnavailableError; the tool answers that PRISM is temporarily unavailable.
Refuse(a) ==
  /\ asks[a] # "sent"
  /\ breaker.state = "open" /\ clock - breaker.openedAt < Cooldown
  /\ asks' = [asks EXCEPT ![a] = "refused"]
  /\ past' = [past EXCEPT !.wrong = IF Broken THEN @ ELSE @ \cup {"needless"}]
  /\ UNCHANGED <<clock, breaker>>

\* What afterCall would be if only a probe's success forgot the errors.
AnsweredProbe(a) ==
  /\ asks[a] = "sent"
  /\ breaker' = IF breaker.state = "half_open" THEN [breaker EXCEPT !.state = "closed", !.errors = 0] ELSE breaker
  /\ asks' = [asks EXCEPT ![a] = "answered"]
  /\ past' = [past EXCEPT !.streak = 0]
  /\ UNCHANGED clock

\* afterCall of an answer: whatever was believed, the API works.
Answered(a) ==
  /\ asks[a] = "sent"
  /\ breaker' = [breaker EXCEPT !.state = "closed", !.errors = 0]
  /\ asks' = [asks EXCEPT ![a] = "answered"]
  /\ past' = [past EXCEPT !.streak = 0]
  /\ UNCHANGED clock

\* afterCall of an error: transport, status, rate limit, body, or the caller's own cancellation.
Failed(a) ==
  /\ asks[a] = "sent"
  /\ LET errors == breaker.errors + 1
         opens == errors >= FailureThreshold /\ breaker.state # "open" IN
       breaker' = IF opens THEN [state |-> "open", errors |-> errors, openedAt |-> clock]
                           ELSE [breaker EXCEPT !.errors = errors]
  /\ asks' = [asks EXCEPT ![a] = "failed"]
  /\ past' = [past EXCEPT !.streak = @ + 1, !.since = IF past.streak + 1 = FailureThreshold THEN clock ELSE @]
  /\ UNCHANGED clock

Next ==
  \/ Tick
  \/ \E a \in Asks : Admit(a) \/ Refuse(a) \/ Answered(a) \/ Failed(a)

Spec == Init /\ [][Next]_vars

-----------------------------------------------------------------------------
(* Properties. *)

\* However calls overlap, a broken API is left alone for the cooldown, and no call is refused
\* unless the last FailureThreshold outcomes, in the order they came back, were all failures.
BreakerJudgesByOutcomes == past.wrong = {}

\* A probe decides alone: while the breaker is half open one request is out.  It is not so: every
\* call that arrives before the probe's outcome goes out as well.
OneProbe == breaker.state = "half_open" => \A a, b \in Asks : asks[a] = "sent" /\ asks[b] = "sent" => a = b
=============================================================================
