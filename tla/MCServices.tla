----------------------------- MODULE MCServices -----------------------------
(* Values of Services' constants for model checking. *)
EXTENDS Services, TLC

Faults == [p \in Parts |-> IF p \in {"sync", "prices", "analytic"} THEN 2 ELSE 1]

Event(file, block) == [file |-> file, block |-> block]

\* Blocks with one and with two kinds of events, more of them than an answer may have.
SomeEvents ==
  {Event("intents", 1), Event("intents", 2), Event("approvals", 2), Event("reputation", 2),
   Event("intents", 3), Event("attestations", 4)}

Intent(pair, action, amount, ts, outcome) ==
  [pair |-> pair, action |-> action, amount |-> amount, ts |-> ts, outcome |-> outcome]

\* Trades that open, close, cross zero and leave dust, at two prices, and intents that do not count.
SomeIntents ==
  {Intent("p", action, amount, ts, "APPROVED") :
     action \in {"BUY", "SELL"}, amount \in {2000, 2200, 4200}, ts \in {0, 1}}
  \cup {Intent("q", action, 2000, ts, "APPROVED") : action \in {"BUY", "SELL"}, ts \in {3, 15}}
  \cup {Intent("p", "HOLD", 2000, 5, "APPROVED"), Intent("p", "BUY", 2000, 5, "REJECTED")}

TwoPairs ==
  "p" :> <<[t |-> 0, price |-> 100], [t |-> 1, price |-> 200], [t |-> 20, price |-> 100]>>
    @@ "q" :> <<[t |-> 0, price |-> 200]>>

FourAlerts == "m1" :> "market" @@ "m2" :> "market" @@ "n1" :> "news" @@ "t1" :> "time"

\* The calls of Callers are one agent's, the others another one's.
TwoAgents == [c \in PoolCalls |-> IF c \in Callers THEN "a" ELSE "b"]

\* Two trades of one agent on two servers, and an attestation with the same key.
TwoServers == "t1" :> "s1" @@ "t2" :> "s2" @@ "p1" :> "s1"

Symmetry == Permutations(Callers) \cup Permutations(Servers)
=============================================================================
