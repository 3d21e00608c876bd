----------------------------- MODULE DataProofs -----------------------------
(***************************************************************************)
(* What the agent intelligence keeps: the downloaded events of the chain   *)
(* and the price history.  For all values of their constants: any chain,   *)
(* any market, any sizes of chunks, pages and answers, any numbers of      *)
(* crashes and failures.                                                   *)
(***************************************************************************)
EXTENDS AccountProofs

LEMMA StepOfSync == (part = "sync")' /\ [Next]_vars => part = "sync" /\ [Sync!Next]_(Sync!vars)
BY DEF Next, vars, Sync!vars, SyncVars

LEMMA StepOfPrices == (part = "prices")' /\ [Next]_vars => part = "prices" /\ [Prices!Next]_(Prices!vars)
BY DEF Next, vars, Prices!vars, PricesVars

LEMMA SelectTwice ==
  ASSUME NEW T, NEW s \in Seq(T), NEW kept, NEW also
  PROVE  Select(Select(s, kept), also) = Select(s, kept \cap also)
<1>1. PICK F \in [0..Len(s) -> Seq(T)] : Selects(F, s, kept)
  BY SelectionsExist
<1> DEFINE H == [i \in 0..Len(s) |-> Select(F[i], also)]
<1>2. \A i \in 0..Len(s) : H[i] = Select(F[i], also)
  OBVIOUS
<1>3. 0 \in 0..Len(s) /\ Len(s) \in 0..Len(s) /\ \A i \in 1..Len(s) : i \in 0..Len(s) /\ i - 1 \in 0..Len(s)
  OBVIOUS
<1> HIDE DEF H
<1>4. H[0] = << >>
  <2> DEFINE none == << >>
  <2>1. none \in Seq(T) /\ \A i \in 1..Len(none) : none[i] \notin also
    OBVIOUS
  <2>2. Select(none, also) = << >>
    <3> HIDE DEF none
    <3> QED BY <2>1, SelectNone
  <2> QED BY <1>1, <1>2, <1>3, <2>2 DEF Selects
<1>5. ASSUME NEW i \in 1..Len(s)
      PROVE  H[i] = IF s[i] \in kept \cap also THEN Append(H[i - 1], s[i]) ELSE H[i - 1]
  <2>1. F[i - 1] \in Seq(T) /\ s[i] \in T
    BY <1>1, <1>3
  <2>2. F[i] = IF s[i] \in kept THEN Append(F[i - 1], s[i]) ELSE F[i - 1]
    BY <1>1 DEF Selects
  <2>3. \A r \in Seq(T), x \in T : Select(Append(r, x), also) = IF x \in also THEN Append(Select(r, also), x) ELSE Select(r, also)
    <3>1. TAKE r \in Seq(T), x \in T
    <3> QED BY SelectAppend
  <2>4. Select(Append(F[i - 1], s[i]), also) = IF s[i] \in also THEN Append(Select(F[i - 1], also), s[i]) ELSE Select(F[i - 1], also)
    BY <2>1, <2>3
  <2>5. H[i] = Select(F[i], also) /\ H[i - 1] = Select(F[i - 1], also)
    BY <1>2, <1>3
  <2>6. CASE s[i] \in kept
    <3>1. F[i] = Append(F[i - 1], s[i])
      BY <2>2, <2>6
    <3> QED BY <2>4, <2>5, <2>6, <3>1
  <2>7. CASE s[i] \notin kept
    <3>1. F[i] = F[i - 1]
      BY <2>2, <2>7
    <3> QED BY <2>5, <2>7, <3>1
  <2> QED BY <2>6, <2>7
<1>6. Selects(H, s, kept \cap also)
  BY <1>4, <1>5 DEF Selects
<1>7. Select(s, kept) = F[Len(s)] /\ Select(s, kept \cap also) = H[Len(s)]
  BY <1>1, <1>6, SelectIs
<1> QED BY <1>2, <1>3, <1>7

\* No element occurs twice.
Distinct(s) == \A i, j \in 1..Len(s) : s[i] = s[j] => i = j

LEMMA SelectDistinct ==
  ASSUME NEW T, NEW s \in Seq(T), NEW kept, Distinct(s)
  PROVE  Distinct(Select(s, kept))
<1>1. PICK F \in [0..Len(s) -> Seq(T)] : Selects(F, s, kept)
  BY SelectionsExist
<1> DEFINE Good == {i \in 0..Len(s) : Distinct(F[i])}
<1>2. 0 \in Good
  BY <1>1 DEF Selects, Distinct
<1>3. ASSUME NEW i \in 1..Len(s), i - 1 \in Good PROVE i \in Good
  <2>1. i - 1 \in 0..Len(s) /\ F[i - 1] \in Seq(T) /\ s[i] \in T /\ Distinct(F[i - 1])
    BY <1>1, <1>3
  <2>2. Holds(F[i - 1], s, i - 1, kept)
    BY <1>1, <2>1, PrefixElements
  <2>3. \A j \in 1..(i - 1) : s[j] # s[i]
    BY DEF Distinct
  <2>4. CASE s[i] \in kept
    <3> DEFINE m == Len(F[i - 1])
    <3>1. F[i] = Append(F[i - 1], s[i])
      BY <1>1, <2>4 DEF Selects
    <3>2. /\ m \in Nat /\ Len(F[i]) = m + 1 /\ F[i][m + 1] = s[i]
          /\ \A k \in 1..m : F[i][k] = F[i - 1][k]
      BY <2>1, <3>1
    <3>3. \A k \in 1..m : F[i - 1][k] # s[i]
      BY <2>2, <2>3 DEF Holds
    <3>4. \A j, k \in 1..m : F[i - 1][j] = F[i - 1][k] => j = k
      BY <2>1 DEF Distinct
    <3> HIDE DEF m
    <3>5. \A k \in 1..(m + 1) : k \in 1..m \/ k = m + 1
      BY <3>2
    <3> QED BY <3>2, <3>3, <3>4, <3>5 DEF Distinct
  <2>5. CASE s[i] \notin kept
    BY <1>1, <2>1, <2>5 DEF Selects
  <2> QED BY <2>4, <2>5
<1>4. Len(s) \in 0..Len(s) /\ Len(s) \in Nat
  OBVIOUS
<1>5. 0..Len(s) \subseteq Good
  <2> HIDE DEF Good
  <2> QED BY <1>2, <1>3, <1>4, UpTo
<1> QED BY <1>1, <1>4, <1>5, SelectIs

-----------------------------------------------------------------------------
(* ChainSync: what is on the chain. *)

LEMMA SyncSelect ==
  ASSUME NEW s, NEW kept
  PROVE  Sync!Select(s, kept) = Select(s, kept)
BY DEF Sync!Select, Select

\* The blocks that have an event for f.
With(f, from, to) == {b \in from..to : [file |-> f, block |-> b] \in ChainEvents}
Numbers == [b \in 1..MaxBlock |-> b]

LEMMA NumbersFacts ==
  ASSUME MaxBlock \in Nat
  PROVE  Numbers \in Seq(Nat) /\ Len(Numbers) = MaxBlock /\ (\A b \in 1..MaxBlock : Numbers[b] = b) /\ Increasing(Numbers)
BY DEF Numbers, Increasing

LEMMA OnChainIs ==
  ASSUME NEW f, NEW from, NEW to
  PROVE  Sync!OnChain(f, from, to) = Select(Numbers, With(f, from, to))
<1>1. Sync!OnChain(f, from, to) = Sync!Select(Numbers, With(f, from, to))
  BY DEF Sync!OnChain, Sync!Blocks, Numbers, With
<1> QED BY <1>1, SyncSelect

\* Its elements: the blocks with events.
Lists(logs, f, from, to) ==
  /\ logs \in Seq(1..MaxBlock) /\ logs \in Seq(Nat)
  /\ \A i \in 1..Len(logs) : logs[i] \in With(f, from, to)
  /\ \A b \in With(f, from, to) : \E i \in 1..Len(logs) : logs[i] = b

LEMMA OnChainHolds ==
  ASSUME MaxBlock \in Nat, NEW f, NEW from \in Nat \ {0}, NEW to \in 0..MaxBlock
  PROVE  Lists(Sync!OnChain(f, from, to), f, from, to)
<1> DEFINE kept == With(f, from, to)
           logs == Select(Numbers, kept)
<1>1. Numbers \in Seq(1..MaxBlock)
  BY DEF Numbers
<1>2. logs \in Seq(1..MaxBlock) /\ logs \in Seq(Nat)
  BY <1>1, NumbersFacts, SelectTyped
<1>3. Holds(logs, Numbers, Len(Numbers), kept)
  BY <1>1, SelectElements
<1>4. \A b \in kept : b \in 1..MaxBlock /\ Numbers[b] = b /\ b \in 1..Len(Numbers)
  BY NumbersFacts DEF With
<1> HIDE DEF kept, logs
<1>5. /\ \A i \in 1..Len(logs) : logs[i] \in kept
      /\ \A b \in kept : \E i \in 1..Len(logs) : logs[i] = b
  BY <1>3, <1>4 DEF Holds
<1> QED BY <1>2, <1>5, OnChainIs DEF kept, logs, Lists

\* What is on the chain in two ranges of blocks, one behind the other.
LEMMA OnChainSplit ==
  ASSUME MaxBlock \in Nat, NEW f, NEW from \in Nat \ {0}, NEW to \in 0..MaxBlock, NEW mid \in 0..MaxBlock,
         from <= mid + 1, mid <= to
  PROVE  Sync!OnChain(f, from, to) = Sync!OnChain(f, from, mid) \o Sync!OnChain(f, mid + 1, to)
<1> DEFINE low == [i \in 1..mid |-> i]
           high == [i \in 1..(MaxBlock - mid) |-> mid + i]
           A == With(f, from, mid)
           B == With(f, mid + 1, to)
           C == With(f, from, to)
<1>1. low \in Seq(Nat) /\ high \in Seq(Nat) /\ Numbers = low \o high
  BY DEF Numbers
<1>2. (\A i \in 1..Len(low) : low[i] \in Nat /\ low[i] <= mid) /\ (\A i \in 1..Len(high) : high[i] \in Nat /\ high[i] > mid)
  OBVIOUS
<1>3. \A b \in Nat : /\ b <= mid => b \notin B /\ (b \in A <=> b \in C)
                     /\ b > mid => b \notin A /\ (b \in B <=> b \in C)
  BY DEF With
<1> HIDE DEF low, high, A, B, C
<1>4. \A x \in {A, B, C} : Select(Numbers, x) = Select(low, x) \o Select(high, x)
  <2>1. \A a, b \in Seq(Nat) : \A x : Select(a \o b, x) = Select(a, x) \o Select(b, x)
    BY SelectConcat
  <2> QED BY <1>1, <2>1
<1>5. Select(low, A) = Select(low, C)
  <2>1. \A i \in 1..Len(low) : low[i] \in A <=> low[i] \in C
    BY <1>2, <1>3
  <2> QED BY <1>1, <2>1, SelectSame
<1>6. Select(high, B) = Select(high, C)
  <2>1. \A i \in 1..Len(high) : high[i] \in B <=> high[i] \in C
    BY <1>2, <1>3
  <2> QED BY <1>1, <2>1, SelectSame
<1>7. Select(high, A) = << >>
  <2>1. \A i \in 1..Len(high) : high[i] \notin A
    BY <1>2, <1>3
  <2> QED BY <1>1, <2>1, SelectNone
<1>8. Select(low, B) = << >>
  <2>1. \A i \in 1..Len(low) : low[i] \notin B
    BY <1>2, <1>3
  <2> QED BY <1>1, <2>1, SelectNone
<1>9. Select(low, A) \in Seq(Nat) /\ Select(high, B) \in Seq(Nat)
  BY <1>1, SelectTyped
<1>10. Select(Numbers, A) = Select(low, A) /\ Select(Numbers, B) = Select(high, B)
  BY <1>4, <1>7, <1>8, <1>9
<1>11. Select(Numbers, C) = Select(Numbers, A) \o Select(Numbers, B)
  BY <1>4, <1>5, <1>6, <1>10
<1> QED BY <1>11, OnChainIs DEF A, B, C

\* Of what is on the chain up to a block, what is up to an earlier one; and of later blocks, nothing.
UpToBlock(n) == {b \in 1..MaxBlock : b <= n}

LEMMA OnChainUpTo ==
  ASSUME MaxBlock \in Nat, NEW f, NEW to \in 0..MaxBlock, NEW n \in 0..MaxBlock, n <= to
  PROVE  Select(Sync!OnChain(f, 1, to), UpToBlock(n)) = Sync!OnChain(f, 1, n)
<1>1. Select(Select(Numbers, With(f, 1, to)), UpToBlock(n)) = Select(Numbers, With(f, 1, to) \cap UpToBlock(n))
  BY NumbersFacts, SelectTwice
<1>2. With(f, 1, to) \cap UpToBlock(n) = With(f, 1, n)
  BY DEF With, UpToBlock
<1> QED BY <1>1, <1>2, OnChainIs

-----------------------------------------------------------------------------
(* ChainSync: a query that is halved answers what is on the chain, or fails. *)

Ranges == (1..MaxBlock) \X (0..MaxBlock)
Answers == [ok : BOOLEAN, logs : Seq(Nat)]

\* A query, when those of half the range answered v.
Halved(f, left, v, first, last) ==
  LET mid == first + (last - first) \div 2
      logs == Sync!OnChain(f, first, last)
  IN IF Len(logs) <= MaxResults THEN [ok |-> TRUE, logs |-> logs]
     ELSE IF left = 0 \/ first >= last THEN [ok |-> FALSE, logs |-> << >>]
     ELSE LET lower == v[<<first, mid>>]
              upper == v[<<mid + 1, last>>]
          IN [ok |-> lower.ok /\ upper.ok, logs |-> lower.logs \o upper.logs]

\* The logs of an answer are right, or two answers' put together.
Combined(f, left, v, first, last, logs) ==
  \/ logs = Sync!OnChain(f, first, last)
  \/ /\ left # 0
     /\ \E mid \in first..(last - 1) :
          /\ <<first, mid>> \in Ranges /\ <<mid + 1, last>> \in Ranges
          /\ v[<<first, mid>>].ok /\ v[<<mid + 1, last>>].ok
          /\ logs = v[<<first, mid>>].logs \o v[<<mid + 1, last>>].logs

LEMMA HalvedFacts ==
  ASSUME MaxBlock \in Nat, NEW f, NEW left \in Nat, NEW v \in [Ranges -> Answers],
         NEW first \in 1..MaxBlock, NEW last \in 0..MaxBlock
  PROVE  /\ Halved(f, left, v, first, last) \in Answers
         /\ Halved(f, left, v, first, last).ok => Combined(f, left, v, first, last, Halved(f, left, v, first, last).logs)
<1> DEFINE logs == Sync!OnChain(f, first, last)
           mid == first + (last - first) \div 2
           said == Halved(f, left, v, first, last)
<1>0. \A b \in BOOLEAN, r \in Seq(Nat) : [ok |-> b, logs |-> r] \in Answers
  BY DEF Answers
<1>1. logs \in Seq(Nat)
  <2>1. first \in Nat \ {0}
    OBVIOUS
  <2> QED BY <2>1, OnChainHolds DEF Lists
<1>2. CASE Len(logs) <= MaxResults
  <2>1. said = [ok |-> TRUE, logs |-> logs]
    BY <1>2 DEF Halved
  <2>2. said \in Answers
    BY <1>0, <1>1, <2>1
  <2> HIDE DEF said
  <2> QED BY <2>1, <2>2 DEF said, Combined
<1>3. CASE ~ (Len(logs) <= MaxResults) /\ (left = 0 \/ first >= last)
  <2>1. said = [ok |-> FALSE, logs |-> << >>]
    BY <1>3 DEF Halved
  <2>2. << >> \in Seq(Nat)
    OBVIOUS
  <2>3. said \in Answers
    BY <1>0, <2>1, <2>2
  <2> QED BY <2>1, <2>3
<1>4. CASE ~ (Len(logs) <= MaxResults) /\ ~ (left = 0 \/ first >= last)
  <2> DEFINE lower == v[<<first, mid>>]
             upper == v[<<mid + 1, last>>]
  <2>1. said = [ok |-> lower.ok /\ upper.ok, logs |-> lower.logs \o upper.logs]
    BY <1>4 DEF Halved
  <2>2. mid \in first..(last - 1) /\ mid \in 0..MaxBlock /\ mid + 1 \in 1..MaxBlock
    BY <1>4
  <2> HIDE DEF mid
  <2>3. <<first, mid>> \in Ranges /\ <<mid + 1, last>> \in Ranges
    BY <2>2 DEF Ranges
  <2>4. lower \in Answers /\ upper \in Answers
    BY <2>3
  <2>5. lower.logs \in Seq(Nat) /\ upper.logs \in Seq(Nat)
    BY <2>4 DEF Answers
  <2>6. lower.logs \o upper.logs \in Seq(Nat)
    BY <2>5
  <2>7. (lower.ok /\ upper.ok) \in BOOLEAN
    OBVIOUS
  <2>8. said \in Answers
    BY <1>0, <2>1, <2>6, <2>7
  <2>9. said.ok = (lower.ok /\ upper.ok) /\ said.logs = lower.logs \o upper.logs
    <3> HIDE DEF said, lower, upper
    <3>1. \A b, r : [ok |-> b, logs |-> r].ok = b /\ [ok |-> b, logs |-> r].logs = r
      OBVIOUS
    <3> QED BY <2>1, <3>1, Zenon
  <2> QED BY <1>4, <2>2, <2>3, <2>8, <2>9 DEF Combined
<1> QED BY <1>2, <1>3, <1>4

LEMMA FilterLogsFacts ==
  ASSUME MaxBlock \in Nat, MaxDepth \in Nat, NEW f, NEW from \in 1..MaxBlock, NEW to \in 0..MaxBlock,
         Sync!FilterLogs(f, from, to).ok
  PROVE  Sync!FilterLogs(f, from, to).logs = Sync!OnChain(f, from, to)
<1> DEFINE n == MaxDepth
           V == [Ranges -> Answers]
           Step(left, v) == [range \in Ranges |-> Halved(f, left, v, range[1], range[2])]
           any == [range \in Ranges |-> [ok |-> TRUE, logs |-> << >>]]
           base == Step(0, any)
           G == [left \in 1..n |-> [v \in V |-> Step(left, v)]]
           P(B) == B = [left \in 0..n |-> Step(left, B[left - 1])]
           Bisect == CHOOSE B : P(B)
<1>1. \A left \in Nat : \A v \in V : Step(left, v) \in V
  <2>1. SUFFICES ASSUME NEW left \in Nat, NEW v \in V, NEW range \in Ranges PROVE Halved(f, left, v, range[1], range[2]) \in Answers
    OBVIOUS
  <2>2. range[1] \in 1..MaxBlock /\ range[2] \in 0..MaxBlock
    BY DEF Ranges
  <2> QED BY <2>2, HalvedFacts
<1>2. any \in V
  BY DEF Answers
<1>3. \A b : Step(0, b) = base
  BY DEF Halved
<1>4. base \in V /\ G \in [1..n -> [V -> V]] /\ \A left \in 1..n : \A v \in V : G[left][v] = Step(left, v)
  <2> HIDE DEF V, Step, any
  <2> QED BY <1>1, <1>2
<1> HIDE DEF V, G, base, Step
<1>5. PICK E \in [0..n -> V] : Recurs(E, n, base, G)
  BY <1>4, RecursionExists
<1>6. P(E)
  <2>1. \A left \in 0..n : E[left] = Step(left, E[left - 1])
    <3>1. E[0] = Step(0, E[0 - 1])
      BY <1>3, <1>5 DEF Recurs
    <3>2. \A left \in 1..n : left - 1 \in 0..n
      OBVIOUS
    <3>3. \A left \in 1..n : E[left] = Step(left, E[left - 1])
      BY <1>4, <1>5, <3>2 DEF Recurs
    <3>4. \A left \in 0..n : left = 0 \/ left \in 1..n
      OBVIOUS
    <3> QED BY <3>1, <3>3, <3>4
  <2>2. E = [left \in 0..n |-> E[left]]
    BY <1>5
  <2> QED BY <2>1, <2>2
<1>7. P(Bisect)
  <2> HIDE DEF P
  <2> QED BY <1>6
<1>8. Sync!FilterLogs(f, from, to) = Bisect[n][<<from, to>>]
  BY DEF Sync!FilterLogs, Sync!Blocks, Step, Halved, Ranges
<1> HIDE DEF Bisect
<1>9. \A left \in 0..n : Bisect[left] = Step(left, Bisect[left - 1])
  BY <1>7
<1> HIDE DEF P
<1> DEFINE Right(left) == \A range \in Ranges : Bisect[left][range].ok => Bisect[left][range].logs = Sync!OnChain(f, range[1], range[2])
           Good == {left \in 0..n : Bisect[left] \in V /\ Right(left)}
<1>10. ASSUME NEW left \in 0..n, NEW v \in V, Bisect[left] = Step(left, v),
              left # 0 => \A range \in Ranges : v[range].ok => v[range].logs = Sync!OnChain(f, range[1], range[2])
       PROVE  left \in Good
  <2>1. Bisect[left] \in V
    BY <1>1, <1>10
  <2>2. SUFFICES ASSUME NEW range \in Ranges, Bisect[left][range].ok PROVE Bisect[left][range].logs = Sync!OnChain(f, range[1], range[2])
    BY <2>1
  <2> DEFINE first == range[1]
             last == range[2]
             said == Halved(f, left, v, first, last)
  <2>3. first \in 1..MaxBlock /\ last \in 0..MaxBlock /\ Bisect[left][range] = said
    BY <1>10 DEF Ranges, Step
  <2>4. said.ok
    BY <2>2, <2>3
  <2> HIDE DEF first, last, said
  <2>5. v \in [Ranges -> Answers]
    BY DEF V
  <2>6. Combined(f, left, v, first, last, said.logs)
    <3>1. left \in Nat
      OBVIOUS
    <3>2. Halved(f, left, v, first, last).ok => Combined(f, left, v, first, last, Halved(f, left, v, first, last).logs)
      BY <2>3, <2>5, <3>1, HalvedFacts
    <3> QED BY <2>4, <3>2 DEF said
  <2>7. ASSUME left # 0,
               NEW mid \in first..(last - 1),
               <<first, mid>> \in Ranges, <<mid + 1, last>> \in Ranges,
               v[<<first, mid>>].ok, v[<<mid + 1, last>>].ok,
               said.logs = v[<<first, mid>>].logs \o v[<<mid + 1, last>>].logs
        PROVE  said.logs = Sync!OnChain(f, first, last)
    <3>1. v[<<first, mid>>].logs = Sync!OnChain(f, first, mid) /\ v[<<mid + 1, last>>].logs = Sync!OnChain(f, mid + 1, last)
      <4>1. \A a, b : <<a, b>> \in Ranges /\ v[<<a, b>>].ok => v[<<a, b>>].logs = Sync!OnChain(f, a, b)
        BY <1>10, <2>7
      <4> QED BY <2>7, <4>1
    <3>2. mid \in 0..MaxBlock /\ first <= mid + 1 /\ mid <= last /\ first \in Nat \ {0}
      BY <2>3, <2>7
    <3>3. Sync!OnChain(f, first, last) = Sync!OnChain(f, first, mid) \o Sync!OnChain(f, mid + 1, last)
      BY <2>3, <3>2, OnChainSplit
    <3> QED BY <2>7, <3>1, <3>3
  <2>8. said.logs = Sync!OnChain(f, first, last)
    BY <2>6, <2>7 DEF Combined
  <2> QED BY <2>3, <2>8 DEF first, last
<1>11. 0 \in Good
  <2>1. Bisect[0] = Step(0, any) /\ 0 \in 0..n /\ any \in V
    BY <1>2, <1>3, <1>9
  <2> HIDE DEF any, Good
  <2> QED BY <1>10, <2>1
<1>12. ASSUME NEW left \in 1..n, left - 1 \in Good PROVE left \in Good
  <2>1. Bisect[left - 1] \in V /\ Right(left - 1) /\ left \in 0..n
    BY <1>12
  <2>2. Bisect[left] = Step(left, Bisect[left - 1])
    BY <1>9, <2>1
  <2> HIDE DEF Good
  <2> QED BY <1>10, <2>1, <2>2
<1>13. n \in Good
  <2> HIDE DEF Good
  <2>0. n \in Nat
    OBVIOUS
  <2> HIDE DEF n
  <2>1. 0..n \subseteq Good /\ n \in 0..n
    <3>1. \A left \in 1..n : left - 1 \in Good => left \in Good
      BY <1>12
    <3>2. \A S : 0 \in S /\ (\A i \in 1..n : i - 1 \in S => i \in S) => 0..n \subseteq S
      BY <2>0, UpTo
    <3> QED BY <1>11, <2>0, <3>1, <3>2
  <2> QED BY <2>1
<1>14. <<from, to>> \in Ranges
  BY DEF Ranges
<1> QED BY <1>8, <1>13, <1>14

-----------------------------------------------------------------------------
(* ChainSync: files and chunks. *)

FileNames == {"intents", "approvals", "rejections", "reputation", "attestations"}
FamilyOf(f) == IF f \in {"intents", "approvals", "rejections"} THEN 1 ELSE IF f = "reputation" THEN 2 ELSE 3
Elements(s) == {s[i] : i \in 1..Len(s)}

LEMMA ElementsConcat ==
  ASSUME NEW T, NEW s \in Seq(T), NEW t \in Seq(T)
  PROVE  s \o t \in Seq(T) /\ Elements(s \o t) = Elements(s) \cup Elements(t)
<1>1. /\ s \o t \in Seq(T) /\ Len(s \o t) = Len(s) + Len(t) /\ Len(s) \in Nat /\ Len(t) \in Nat
      /\ \A i \in 1..Len(s) : (s \o t)[i] = s[i]
      /\ \A i \in 1..Len(t) : (s \o t)[Len(s) + i] = t[i]
  OBVIOUS
<1>2. \A i \in 1..(Len(s) + Len(t)) : i \in 1..Len(s) \/ (i - Len(s) \in 1..Len(t) /\ i = Len(s) + (i - Len(s)))
  BY <1>1
<1>3. \A i \in 1..Len(t) : Len(s) + i \in 1..(Len(s) + Len(t))
  BY <1>1
<1>4. \A i \in 1..Len(s) : i \in 1..(Len(s) + Len(t))
  BY <1>1
<1>5. Elements(s \o t) \subseteq Elements(s) \cup Elements(t)
  BY <1>1, <1>2 DEF Elements
<1>6. Elements(s) \cup Elements(t) \subseteq Elements(s \o t)
  BY <1>1, <1>3, <1>4 DEF Elements
<1> QED BY <1>1, <1>5, <1>6

LEMMA FamiliesFacts ==
  /\ Sync!Files = FileNames
  /\ Sync!AllFiles \in Seq(FileNames) /\ Elements(Sync!AllFiles) = FileNames
  /\ Len(Sync!Families) = 3
  /\ \A j \in 1..3 : /\ Sync!Families[j] \in Seq(FileNames) /\ Distinct(Sync!Families[j])
                     /\ Elements(Sync!Families[j]) = {f \in FileNames : FamilyOf(f) = j}
                     /\ Sync!ToSet(Sync!Families[j]) = {f \in FileNames : FamilyOf(f) = j}
<1> DEFINE a == <<"intents", "approvals", "rejections">>
           b == <<"reputation">>
           c == <<"attestations">>
<1>1. Sync!Families = <<a, b, c>>
  BY DEF Sync!Families
<1>2. /\ a \in Seq(FileNames) /\ Distinct(a) /\ Elements(a) = {f \in FileNames : FamilyOf(f) = 1}
      /\ b \in Seq(FileNames) /\ Distinct(b) /\ Elements(b) = {f \in FileNames : FamilyOf(f) = 2}
      /\ c \in Seq(FileNames) /\ Distinct(c) /\ Elements(c) = {f \in FileNames : FamilyOf(f) = 3}
  BY DEF FileNames, Distinct, Elements, FamilyOf
<1>3. \A s \in Seq(FileNames) : Sync!ToSet(s) = Elements(s)
  <2>1. TAKE s \in Seq(FileNames)
  <2>2. DOMAIN s = 1..Len(s)
    OBVIOUS
  <2> QED BY <2>2 DEF Sync!ToSet, Elements
<1>4. Len(Sync!Families) = 3 /\ Sync!Families[1] = a /\ Sync!Families[2] = b /\ Sync!Families[3] = c
  BY <1>1
<1> HIDE DEF a, b, c
<1>5. \A s, t \in Seq(FileNames) : s \o t \in Seq(FileNames) /\ Elements(s \o t) = Elements(s) \cup Elements(t)
  BY ElementsConcat
<1>6. a \o b \in Seq(FileNames) /\ Elements(a \o b) = Elements(a) \cup Elements(b)
  BY <1>2, <1>5
<1>7. (a \o b) \o c \in Seq(FileNames) /\ Elements((a \o b) \o c) = Elements(a) \cup Elements(b) \cup Elements(c)
  BY <1>2, <1>5, <1>6
<1>8. Elements(a) \cup Elements(b) \cup Elements(c) = FileNames
  <2>1. \A f \in FileNames : FamilyOf(f) = 1 \/ FamilyOf(f) = 2 \/ FamilyOf(f) = 3
    BY DEF FamilyOf
  <2> QED BY <1>2, <2>1
<1>9. Sync!AllFiles \in Seq(FileNames) /\ Elements(Sync!AllFiles) = FileNames /\ Sync!Files = FileNames
  BY <1>3, <1>4, <1>7, <1>8 DEF Sync!AllFiles, Sync!Files
<1>10. \A j \in 1..3 : j = 1 \/ j = 2 \/ j = 3
  OBVIOUS
<1> QED BY <1>2, <1>3, <1>4, <1>9, <1>10

\* The last block of the chunk that begins at from.
End(from, latest) == Sync!Min({from + BlockChunk - 1, latest})

LEMMA EndFacts ==
  ASSUME BlockChunk \in Nat \ {0}, NEW from \in Nat, NEW latest \in Nat, from <= latest
  PROVE  End(from, latest) \in from..latest
<1>1. \E x \in {from + BlockChunk - 1, latest} : \A y \in {from + BlockChunk - 1, latest} : x <= y
  <2>1. CASE from + BlockChunk - 1 <= latest
    BY <2>1
  <2>2. CASE ~ (from + BlockChunk - 1 <= latest)
    BY <2>2
  <2> QED BY <2>1, <2>2
<1>2. End(from, latest) \in {from + BlockChunk - 1, latest} /\ End(from, latest) <= latest
  BY <1>1 DEF End, Sync!Min
<1> QED BY <1>2

Metas == [synced : 0..MaxBlock, pending : SUBSET (1..MaxBlock), attempts : [1..MaxBlock -> Nat],
          gaveUp : SUBSET (1..MaxBlock), known : SUBSET ChainAgents, fresh : BOOLEAN]

Disks == [files : [FileNames -> Seq(0..MaxBlock)], meta : Metas, stamps : SUBSET (1..MaxBlock), infos : SUBSET ChainAgents,
          stale : SUBSET ChainAgents, lock : BOOLEAN, faults : Int]

Runs == [pc : {"off", "rewind", "discover", "height", "fetch", "append", "resolve", "checkpoint", "state", "save"},
         meta : Metas, from : 1..(MaxBlock + 1), to : {0}, latest : 0..MaxBlock, family : 1..3,
         todo : Seq(FileNames), seen : SUBSET (1..MaxBlock)]

SyncTyped ==
  /\ chain \in [head : 0..MaxBlock, aged : BOOLEAN]
  /\ disk \in Disks /\ sync \in Runs

\* A chunk is under way.
InChunk(at) == at \in {"fetch", "append", "resolve", "checkpoint"}

\* The events of f in the chunk have been looked up.
LookedUp(f, r) ==
  \/ r.pc \in {"fetch", "append"} /\ FamilyOf(f) < r.family
  \/ r.pc = "append" /\ FamilyOf(f) = r.family
  \/ r.pc \in {"resolve", "checkpoint"}

\* They are in its file.
IsDone(f, r) == LookedUp(f, r) /\ (r.pc = "append" => f \notin Elements(r.todo))

\* What the file holds beyond meta.json may be anything that can be read.
Covers(lines, f, synced) ==
  /\ Select(lines, UpToBlock(synced)) = Sync!OnChain(f, 1, synced)
  /\ Sync!Readable(lines)

FilesInv ==
  \A f \in FileNames :
    IF sync.pc = "off" \/ (sync.pc = "rewind" /\ f \in Elements(sync.todo)) THEN Covers(disk.files[f], f, disk.meta.synced)
    ELSE disk.files[f] = Sync!OnChain(f, 1, IF IsDone(f, sync) THEN End(sync.from, sync.latest) ELSE disk.meta.synced)

RunInv ==
  /\ sync.pc # "off" => sync.meta.synced = disk.meta.synced
  /\ sync.pc = "rewind" => sync.todo # << >>
  /\ sync.pc \notin {"fetch", "append"} => sync.family = 1
  /\ InChunk(sync.pc) => sync.from = disk.meta.synced + 1 /\ sync.from <= sync.latest
  /\ sync.pc = "append" =>
       /\ Distinct(sync.todo)
       /\ \A f \in Elements(sync.todo) : FamilyOf(f) = sync.family
       /\ \A f \in FileNames : FamilyOf(f) = sync.family => Sync!FilterLogs(f, sync.from, End(sync.from, sync.latest)).ok

\* Blocks whose timestamps are known, asked for or given up.
Settled(m) == disk.stamps \cup m.pending \cup m.gaveUp

StampInv ==
  \A e \in ChainEvents :
    /\ e.block <= disk.meta.synced => e.block \in Settled(disk.meta) /\ (sync.pc # "off" => e.block \in Settled(sync.meta))
    /\ e.block \in sync.from..End(sync.from, sync.latest) =>
         /\ sync.pc \in {"fetch", "append", "resolve"} /\ LookedUp(e.file, sync) => e.block \in sync.seen
         /\ sync.pc = "checkpoint" => e.block \in Settled(sync.meta)

SyncInv == SyncTyped /\ RunInv /\ FilesInv /\ (StampFaults = {} => StampInv)

LEMMA SyncConstants ==
  ASSUME Sync!ChainSyncAssumption
  PROVE  /\ MaxBlock \in Nat /\ MaxDepth \in Nat /\ BlockChunk \in Nat \ {0} /\ StampAttempts \in Nat /\ MaxFaults["sync"] \in Nat
         /\ \A e \in ChainEvents : e.file \in FileNames /\ e.block \in 1..MaxBlock /\ e = [file |-> e.file, block |-> e.block]
<1>1. \A e \in [file : FileNames, block : 1..MaxBlock] : e.file \in FileNames /\ e.block \in 1..MaxBlock /\ e = [file |-> e.file, block |-> e.block]
  OBVIOUS
<1> QED BY <1>1, FamiliesFacts DEF Sync!ChainSyncAssumption, Sync!Blocks

LEMMA OnChainNothing ==
  ASSUME MaxBlock \in Nat, NEW f
  PROVE  Sync!OnChain(f, 1, 0) = << >>
<1>1. \A i \in 1..Len(Numbers) : Numbers[i] \notin With(f, 1, 0)
  BY DEF With
<1>2. Select(Numbers, With(f, 1, 0)) = << >>
  BY <1>1, NumbersFacts, SelectNone
<1> QED BY <1>2, OnChainIs

\* A file that holds exactly the events up to a block covers those up to an earlier one.
LEMMA ExactCovers ==
  ASSUME MaxBlock \in Nat, NEW f, NEW to \in 0..MaxBlock, NEW n \in 0..MaxBlock, n <= to
  PROVE  Covers(Sync!OnChain(f, 1, to), f, n)
<1>1. Sync!OnChain(f, 1, to) \in Seq(1..MaxBlock)
  <2> DEFINE one == 1
  <2>1. one \in Nat \ {0}
    OBVIOUS
  <2> HIDE DEF one
  <2>2. Sync!OnChain(f, one, to) \in Seq(1..MaxBlock)
    BY <2>1, OnChainHolds DEF Lists
  <2> QED BY <2>2 DEF one
<1>2. Sync!Readable(Sync!OnChain(f, 1, to))
  <2> DEFINE logs == Sync!OnChain(f, 1, to)
  <2>1. \A i \in 1..(Len(logs) - 1) : logs[i] \in 1..MaxBlock
    <3>1. logs \in Seq(1..MaxBlock)
      BY <1>1
    <3> HIDE DEF logs
    <3> QED BY <3>1
  <2> HIDE DEF logs
  <2>2. \A i \in 1..(Len(logs) - 1) : logs[i] # Sync!Torn
    BY <2>1 DEF Sync!Torn
  <2> QED BY <2>2 DEF Sync!Readable, logs
<1> QED BY <1>2, OnChainUpTo DEF Covers

LEMMA SyncInit == Sync!ChainSyncAssumption /\ Sync!Init => SyncInv
<1> SUFFICES ASSUME Sync!ChainSyncAssumption, Sync!Init PROVE SyncInv
  OBVIOUS
<1> USE SyncConstants
<1>1. Sync!NoMeta \in Metas /\ Sync!NoMeta.synced = 0
  BY DEF Sync!NoMeta, Metas, Sync!Blocks
<1>2. Sync!Off \in Runs /\ Sync!Off.pc = "off" /\ Sync!Off.family = 1
  <2>1. << >> \in Seq(FileNames)
    OBVIOUS
  <2> QED BY <1>1, <2>1 DEF Sync!Off, Runs
<1>3. /\ disk.files = [f \in FileNames |-> << >>] /\ disk.meta = Sync!NoMeta /\ disk.stamps = {} /\ disk.infos = {}
      /\ disk.stale = ChainAgents /\ disk.lock = FALSE /\ disk.faults = MaxFaults["sync"]
      /\ DOMAIN disk = {"files", "meta", "stamps", "infos", "stale", "lock", "faults"}
  BY FamiliesFacts DEF Sync!Init
<1>4. SyncTyped
  <2>1. [f \in FileNames |-> << >>] \in [FileNames -> Seq(0..MaxBlock)]
    <3>1. << >> \in Seq(0..MaxBlock)
      OBVIOUS
    <3> QED BY <3>1
  <2>2. disk \in Disks
    BY <1>1, <2>1, FamiliesFacts DEF Sync!Init, Disks
  <2>3. chain \in [head : 0..MaxBlock, aged : BOOLEAN] /\ sync \in Runs
    BY <1>2 DEF Sync!Init
  <2> QED BY <2>2, <2>3 DEF SyncTyped
<1>5. sync.pc = "off" /\ sync.family = 1 /\ disk.meta.synced = 0
  BY <1>1, <1>2, <1>3 DEF Sync!Init
<1>6. RunInv
  BY <1>5 DEF RunInv, InChunk
<1>7. FilesInv
  <2>1. SUFFICES ASSUME NEW f \in FileNames PROVE Covers(disk.files[f], f, 0)
    BY <1>5 DEF FilesInv
  <2>2. Covers(Sync!OnChain(f, 1, 0), f, 0)
    <3>1. 0 \in 0..MaxBlock /\ 0 <= 0
      OBVIOUS
    <3> QED BY <3>1, ExactCovers
  <2>3. disk.files[f] = Sync!OnChain(f, 1, 0)
    BY <1>3, OnChainNothing
  <2> QED BY <2>2, <2>3
<1>8. StampInv
  BY <1>5 DEF StampInv, LookedUp
<1> QED BY <1>4, <1>6, <1>7, <1>8 DEF SyncInv

-----------------------------------------------------------------------------
(* ChainSync: every step keeps the invariant. *)

LEMMA SyncFields ==
  ASSUME SyncTyped
  PROVE  /\ disk.files \in [FileNames -> Seq(0..MaxBlock)] /\ disk.meta \in Metas /\ disk.stamps \in SUBSET (1..MaxBlock)
         /\ disk.meta.synced \in 0..MaxBlock /\ chain.head \in 0..MaxBlock
         /\ sync.meta \in Metas /\ sync.meta.synced \in 0..MaxBlock /\ sync.from \in 1..(MaxBlock + 1) /\ sync.latest \in 0..MaxBlock
         /\ sync.family \in 1..3 /\ sync.todo \in Seq(FileNames) /\ sync.seen \in SUBSET (1..MaxBlock)
BY DEF SyncTyped, Disks, Runs, Metas

LEMMA FetchedIs ==
  ASSUME NEW f
  PROVE  Sync!Fetched(f) = Sync!FilterLogs(f, sync.from, End(sync.from, sync.latest)) /\ Sync!ChunkEnd = End(sync.from, sync.latest)
BY DEF Sync!Fetched, Sync!ChunkEnd, End

\* Where the chunk is, and what its queries answer.
LEMMA ChunkFacts ==
  ASSUME Sync!ChainSyncAssumption, SyncTyped, RunInv, InChunk(sync.pc)
  PROVE  /\ End(sync.from, sync.latest) \in sync.from..sync.latest /\ End(sync.from, sync.latest) \in 1..MaxBlock
         /\ sync.from = disk.meta.synced + 1 /\ sync.from \in 1..MaxBlock
         /\ \A f \in FileNames :
              /\ Sync!OnChain(f, 1, End(sync.from, sync.latest))
                   = Sync!OnChain(f, 1, disk.meta.synced) \o Sync!OnChain(f, sync.from, End(sync.from, sync.latest))
              /\ Sync!Fetched(f).ok => Sync!Fetched(f).logs = Sync!OnChain(f, sync.from, End(sync.from, sync.latest))
<1> USE SyncConstants
<1>1. sync.from = disk.meta.synced + 1 /\ sync.from <= sync.latest
  BY DEF RunInv
<1>2. sync.from \in Nat /\ sync.latest \in 0..MaxBlock /\ disk.meta.synced \in 0..MaxBlock /\ sync.from >= 1
  BY SyncFields
<1>3. End(sync.from, sync.latest) \in sync.from..sync.latest
  BY <1>1, <1>2, EndFacts
<1> DEFINE to == End(sync.from, sync.latest)
           from == sync.from
           synced == disk.meta.synced
<1>4. to \in from..sync.latest /\ to \in 1..MaxBlock /\ to \in 0..MaxBlock /\ from \in 1..MaxBlock /\ from = synced + 1 /\ synced \in 0..MaxBlock
  BY <1>1, <1>2, <1>3
<1>5. \A f : Sync!Fetched(f) = Sync!FilterLogs(f, from, to)
  BY FetchedIs
<1> HIDE DEF to, from, synced
<1>6. ASSUME NEW f \in FileNames
      PROVE  /\ Sync!OnChain(f, 1, to) = Sync!OnChain(f, 1, synced) \o Sync!OnChain(f, from, to)
             /\ Sync!Fetched(f).ok => Sync!Fetched(f).logs = Sync!OnChain(f, from, to)
  <2> DEFINE one == 1
  <2>1. one \in Nat \ {0} /\ one <= synced + 1 /\ synced <= to
    BY <1>4
  <2> HIDE DEF one
  <2>2. Sync!OnChain(f, one, to) = Sync!OnChain(f, one, synced) \o Sync!OnChain(f, synced + 1, to)
    BY <1>4, <2>1, OnChainSplit
  <2>3. Sync!Fetched(f).ok => Sync!Fetched(f).logs = Sync!OnChain(f, from, to)
    BY <1>4, <1>5, FilterLogsFacts
  <2> QED BY <1>4, <2>2, <2>3 DEF one
<1> QED BY <1>4, <1>6 DEF to, from, synced

\* Nothing happens to the files or to a chunk.
LEMMA Unmoved ==
  ASSUME SyncInv, SyncTyped', sync' = sync, disk'.files = disk.files, disk'.meta = disk.meta, disk'.stamps = disk.stamps
  PROVE  SyncInv'
<1>1. RunInv'
  BY DEF SyncInv, RunInv
<1>2. FilesInv'
  BY DEF SyncInv, FilesInv
<1>3. StampFaults = {} => StampInv'
  BY DEF SyncInv, StampInv, Settled
<1> QED BY <1>1, <1>2, <1>3 DEF SyncInv

\* Between the phases.
LEMMA Between ==
  ASSUME SyncInv, SyncTyped', disk'.files = disk.files, disk'.stamps = disk.stamps, disk'.meta = disk.meta,
         sync'.meta.synced = sync.meta.synced, sync'.meta.pending = sync.meta.pending, sync'.meta.gaveUp = sync.meta.gaveUp,
         sync'.family = sync.family, sync.pc \in {"discover", "height", "state"}, sync'.pc \in {"height", "state", "save"}
  PROVE  SyncInv'
<1>1. RunInv'
  BY DEF SyncInv, RunInv, InChunk
<1>2. FilesInv'
  <2>1. \A f \in FileNames : ~ IsDone(f, sync) /\ ~ IsDone(f, sync)'
    BY DEF IsDone, LookedUp
  <2> QED BY <2>1 DEF SyncInv, FilesInv
<1>3. StampFaults = {} => StampInv'
  BY DEF SyncInv, StampInv, Settled, LookedUp
<1> QED BY <1>1, <1>2, <1>3 DEF SyncInv

LEMMA SyncStepAround ==
  ASSUME SyncInv, Sync!ChainSyncAssumption, Sync!DeleteStaleLock \/ Sync!NewBlock \/ Sync!Age \/ UNCHANGED Sync!vars
  PROVE  SyncInv'
<1> USE SyncConstants
<1>1. SyncTyped
  BY DEF SyncInv
<1>2. sync' = sync /\ disk'.files = disk.files /\ disk'.meta = disk.meta /\ disk'.stamps = disk.stamps
  BY <1>1 DEF Sync!DeleteStaleLock, Sync!NewBlock, Sync!Age, Sync!vars, SyncTyped, Disks
<1>3. chain' \in [head : 0..MaxBlock, aged : BOOLEAN]
  <2>1. chain \in [head : 0..MaxBlock, aged : BOOLEAN] /\ chain.head \in 0..MaxBlock
    BY <1>1 DEF SyncTyped
  <2>2. CASE Sync!NewBlock
    <3>1. chain.head + 1 \in 0..MaxBlock /\ chain' = [chain EXCEPT !.head = chain.head + 1]
      BY <2>1, <2>2 DEF Sync!NewBlock
    <3> QED BY <2>1, <3>1
  <2>3. CASE Sync!Age
    BY <2>1, <2>3 DEF Sync!Age
  <2>4. CASE Sync!DeleteStaleLock \/ UNCHANGED Sync!vars
    BY <2>1, <2>4 DEF Sync!DeleteStaleLock, Sync!vars
  <2> QED BY <2>2, <2>3, <2>4
<1>4. disk' \in Disks
  BY <1>1 DEF Sync!DeleteStaleLock, Sync!NewBlock, Sync!Age, Sync!vars, SyncTyped, Disks
<1>5. SyncTyped'
  BY <1>1, <1>2, <1>3, <1>4 DEF SyncTyped
<1> QED BY <1>2, <1>5, Unmoved

LEMMA SyncStepDiscover ==
  ASSUME SyncInv, Sync!ChainSyncAssumption, Sync!discoverAgents
  PROVE  SyncInv'
<1> USE SyncConstants
<1>1. SyncTyped
  BY DEF SyncInv
<1>2. PICK found \in SUBSET (ChainAgents \ disk.infos), fault \in {0, 1} :
        /\ disk' = [disk EXCEPT !.infos = disk.infos \cup found, !.faults = @ - fault]
        /\ sync' = [sync EXCEPT !.pc = "height", !.meta.known = @ \cup (disk.infos \cup found)]
        /\ sync.pc = "discover" /\ chain' = chain
  BY DEF Sync!discoverAgents, Sync!At
<1>3. disk'.files = disk.files /\ disk'.stamps = disk.stamps /\ disk'.meta = disk.meta
  BY <1>1, <1>2 DEF SyncTyped, Disks
<1>4. disk' \in Disks
  <2> DEFINE infos == disk.infos \cup found
             faults == disk.faults - fault
  <2>1. disk' = [disk EXCEPT !.infos = infos, !.faults = faults]
    BY <1>2
  <2>2. disk \in Disks
    BY <1>1 DEF SyncTyped
  <2>3. infos \in SUBSET ChainAgents /\ faults \in Int
    BY <2>2 DEF Disks
  <2> HIDE DEF infos, faults
  <2> QED BY <2>1, <2>2, <2>3 DEF Disks
<1>5. [sync.meta EXCEPT !.known = @ \cup (disk.infos \cup found)] \in Metas
  BY <1>1, <1>2 DEF SyncTyped, Runs, Metas, Disks
<1>6. sync' \in Runs /\ sync'.meta = [sync.meta EXCEPT !.known = @ \cup (disk.infos \cup found)] /\ sync'.pc = "height" /\ sync'.family = sync.family
  BY <1>1, <1>2, <1>5 DEF SyncTyped, Runs
<1>7. /\ sync'.meta.synced = sync.meta.synced /\ sync'.meta.pending = sync.meta.pending
      /\ sync'.meta.gaveUp = sync.meta.gaveUp
  <2>1. sync.meta \in Metas
    BY <1>1, SyncFields
  <2> QED BY <1>6, <2>1 DEF Metas
<1>8. SyncTyped'
  BY <1>1, <1>2, <1>4, <1>6 DEF SyncTyped
<1> QED BY <1>2, <1>3, <1>6, <1>7, <1>8, Between

LEMMA SyncStepState ==
  ASSUME SyncInv, Sync!ChainSyncAssumption, Sync!syncState
  PROVE  SyncInv'
<1> USE SyncConstants
<1>1. SyncTyped
  BY DEF SyncInv
<1>2. PICK failed \in SUBSET sync.meta.known :
       LET skip == sync.meta.fresh /\ ~ chain.aged
           fault == IF failed = {} THEN 0 ELSE 1
       IN /\ disk' = [disk EXCEPT !.stale = IF skip THEN @ ELSE @ \ (sync.meta.known \ failed),
                                 !.faults = @ - fault]
          /\ sync' = [sync EXCEPT !.pc = "save", !.meta.fresh = IF skip THEN @ ELSE failed = {}]
          /\ chain' = [chain EXCEPT !.aged = @ /\ failed # {}]
          /\ sync.pc = "state"
  BY DEF Sync!syncState, Sync!At
<1> DEFINE fault == IF failed = {} THEN 0 ELSE 1
           skip == sync.meta.fresh /\ ~ chain.aged
           stale == IF skip THEN disk.stale ELSE disk.stale \ (sync.meta.known \ failed)
           fresh == IF skip THEN sync.meta.fresh ELSE failed = {}
           meta == [sync.meta EXCEPT !.fresh = fresh]
<1>3. fault \in {0, 1} /\ stale \in SUBSET ChainAgents /\ sync.meta.fresh \in BOOLEAN /\ sync.meta \in Metas
  BY <1>1 DEF SyncTyped, Disks, Runs, Metas
<1>4. fresh \in BOOLEAN
  BY <1>3
<1>5. disk' = [disk EXCEPT !.stale = stale, !.faults = @ - fault]
  BY <1>1, <1>2
<1>6. sync' = [sync EXCEPT !.pc = "save", !.meta = meta]
  BY <1>1, <1>2 DEF SyncTyped, Runs, Metas
<1>7. chain' \in [head : 0..MaxBlock, aged : BOOLEAN]
  BY <1>1, <1>2 DEF SyncTyped
<1> HIDE DEF fault, skip, stale, fresh
<1>8. disk'.files = disk.files /\ disk'.stamps = disk.stamps /\ disk'.meta = disk.meta
  BY <1>1, <1>5 DEF SyncTyped, Disks
<1>9. disk' \in Disks
  <2> DEFINE faults == disk.faults - fault
  <2>1. disk' = [disk EXCEPT !.stale = stale, !.faults = faults]
    BY <1>5
  <2>2. disk \in Disks
    BY <1>1 DEF SyncTyped
  <2>3. faults \in Int
    BY <1>3, <2>2 DEF Disks
  <2> HIDE DEF faults
  <2> QED BY <1>3, <2>1, <2>2, <2>3 DEF Disks
<1>10. meta \in Metas /\ meta.synced = sync.meta.synced /\ meta.pending = sync.meta.pending /\ meta.gaveUp = sync.meta.gaveUp
  BY <1>3, <1>4 DEF Metas
<1> HIDE DEF meta
<1>11. sync' \in Runs /\ sync'.meta = meta /\ sync'.pc = "save" /\ sync'.family = sync.family
  BY <1>1, <1>6, <1>10 DEF SyncTyped, Runs
<1>12. SyncTyped'
  BY <1>7, <1>9, <1>11 DEF SyncTyped
<1> QED BY <1>2, <1>8, <1>10, <1>11, <1>12, Between

LEMMA SyncStepHeight ==
  ASSUME SyncInv, Sync!ChainSyncAssumption, Sync!ReadHeight
  PROVE  SyncInv'
<1> USE SyncConstants
<1>1. SyncTyped
  BY DEF SyncInv
<1> DEFINE next == IF sync.meta.synced < chain.head THEN "fetch" ELSE "state"
<1>2. /\ sync' = [sync EXCEPT !.from = sync.meta.synced + 1, !.latest = chain.head, !.pc = next]
      /\ sync.pc = "height" /\ disk' = disk /\ chain' = chain
  BY DEF Sync!ReadHeight, Sync!At
<1>3. /\ sync'.from = sync.meta.synced + 1 /\ sync'.latest = chain.head /\ sync'.pc = next
      /\ sync'.meta = sync.meta /\ sync'.family = sync.family
  BY <1>1, <1>2 DEF SyncTyped, Runs
<1>4. SyncTyped'
  <2>1. sync.meta.synced + 1 \in 1..(MaxBlock + 1) /\ chain.head \in 0..MaxBlock
    BY <1>1, SyncFields
  <2>2. sync' \in Runs
    BY <1>1, <1>2, <2>1 DEF SyncTyped, Runs
  <2> QED BY <1>1, <1>2, <2>2 DEF SyncTyped
<1>5. sync.meta.synced = disk.meta.synced /\ sync.family = 1
  BY <1>2 DEF SyncInv, RunInv
<1>6. CASE next = "state"
  BY <1>2, <1>3, <1>4, <1>6, Between
<1>7. CASE next = "fetch"
  <2>1. sync.meta.synced < chain.head
    BY <1>7
  <2>2. sync'.from <= sync'.latest
    BY <1>1, <1>3, <2>1, SyncFields
  <2>3. RunInv'
    BY <1>2, <1>3, <1>5, <1>7, <2>2 DEF RunInv, InChunk
  <2>4. FamilyOf("intents") = 1 /\ \A f : ~ (FamilyOf(f) < 1)
    BY DEF FamilyOf
  <2>5. FilesInv'
    <3>1. \A f \in FileNames : ~ IsDone(f, sync) /\ ~ IsDone(f, sync')
      BY <1>2, <1>3, <1>5, <1>7, <2>4 DEF IsDone, LookedUp
    <3> QED BY <1>2, <1>3, <1>7, <3>1 DEF SyncInv, FilesInv
  <2>6. StampFaults = {} => StampInv'
    <3>1. \A e \in ChainEvents : ~ LookedUp(e.file, sync')
      BY <1>3, <1>5, <1>7, <2>4 DEF LookedUp
    <3> QED BY <1>2, <1>3, <1>7, <3>1 DEF SyncInv, StampInv, Settled
  <2> QED BY <1>4, <2>3, <2>5, <2>6 DEF SyncInv
<1> QED BY <1>6, <1>7

LEMMA SequenceParts ==
  ASSUME NEW T, NEW s \in Seq(T), s # << >>
  PROVE  /\ Head(s) \in T /\ Head(s) \in Elements(s) /\ Tail(s) \in Seq(T)
         /\ Elements(s) = {Head(s)} \cup Elements(Tail(s))
         /\ (Len(s) = 1 => Elements(Tail(s)) = {}) /\ (Len(s) # 1 => Tail(s) # << >>)
         /\ Distinct(s) => Distinct(Tail(s)) /\ Head(s) \notin Elements(Tail(s))
<1>1. /\ Len(s) \in Nat /\ Len(s) >= 1 /\ Head(s) = s[1] /\ s[1] \in T
      /\ Tail(s) \in Seq(T) /\ Len(Tail(s)) = Len(s) - 1 /\ \A i \in 1..(Len(s) - 1) : Tail(s)[i] = s[i + 1]
  OBVIOUS
<1>2. /\ 1 \in 1..Len(s) /\ \A i \in 1..(Len(s) - 1) : i + 1 \in 1..Len(s) /\ i + 1 # 1
      /\ \A i \in 1..Len(s) : i = 1 \/ (i - 1 \in 1..(Len(s) - 1) /\ i = (i - 1) + 1)
  BY <1>1
<1>3. Head(s) \in Elements(s) /\ Elements(Tail(s)) \subseteq Elements(s)
  BY <1>1, <1>2 DEF Elements
<1>4. Elements(s) \subseteq {Head(s)} \cup Elements(Tail(s))
  <2>1. \A i \in 1..Len(s) : s[i] \in {Head(s)} \cup Elements(Tail(s))
    <3>1. TAKE i \in 1..Len(s)
    <3>2. CASE i = 1
      BY <1>1, <3>2
    <3>3. CASE i # 1
      <4>1. i - 1 \in 1..Len(Tail(s)) /\ Tail(s)[i - 1] = s[i]
        BY <1>1, <1>2, <3>3
      <4> QED BY <4>1 DEF Elements
    <3> QED BY <3>2, <3>3
  <2> QED BY <2>1 DEF Elements
<1>5. /\ Len(s) = 1 => Elements(Tail(s)) = {}
      /\ Len(s) # 1 => Tail(s) # << >>
  <2>1. Len(s) = 1 => Elements(Tail(s)) = {}
    <3>1. Len(s) = 1 => 1..Len(Tail(s)) = {}
      BY <1>1
    <3> QED BY <3>1 DEF Elements
  <2>2. \A t : t = << >> => Len(t) = 0
    OBVIOUS
  <2> QED BY <1>1, <2>1, <2>2
<1>6. ASSUME Distinct(s) PROVE Distinct(Tail(s)) /\ Head(s) \notin Elements(Tail(s))
  <2>1. Head(s) \notin Elements(Tail(s))
    BY <1>1, <1>2, <1>6 DEF Distinct, Elements
  <2>2. \A i, j \in 1..(Len(s) - 1) : s[i + 1] = s[j + 1] => i = j
    BY <1>1, <1>2, <1>6 DEF Distinct
  <2>3. Distinct(Tail(s))
    BY <1>1, <2>2 DEF Distinct
  <2> QED BY <2>1, <2>3
<1> QED BY <1>1, <1>3, <1>4, <1>5, <1>6

LEMMA SyncStepAcquire ==
  ASSUME SyncInv, Sync!ChainSyncAssumption, Sync!AcquireSyncLock
  PROVE  SyncInv'
<1> USE SyncConstants
<1>1. SyncTyped
  BY DEF SyncInv
<1>2. /\ sync.pc = "off" /\ chain' = chain /\ disk' = [disk EXCEPT !.lock = TRUE]
      /\ sync' = [Sync!Off EXCEPT !.pc = "rewind", !.meta = disk.meta, !.todo = Sync!AllFiles]
  BY DEF Sync!AcquireSyncLock, Sync!At
<1>3. disk' \in Disks /\ disk'.files = disk.files /\ disk'.meta = disk.meta /\ disk'.stamps = disk.stamps
  BY <1>1, <1>2 DEF SyncTyped, Disks
<1>4. /\ sync' \in Runs /\ sync'.pc = "rewind" /\ sync'.meta = disk.meta /\ sync'.todo = Sync!AllFiles /\ sync'.family = 1
  <2>1. disk.meta \in Metas
    BY <1>1, SyncFields
  <2>2. sync' = [pc |-> "rewind", meta |-> disk.meta, from |-> 1, to |-> 0, latest |-> 0, family |-> 1,
                 todo |-> Sync!AllFiles, seen |-> {}]
    BY <1>2 DEF Sync!Off
  <2>3. Sync!AllFiles \in Seq(FileNames)
    BY FamiliesFacts
  <2>4. 1 \in 1..(MaxBlock + 1) /\ 0 \in 0..MaxBlock
    OBVIOUS
  <2> QED BY <2>1, <2>2, <2>3, <2>4 DEF Runs
<1>5. SyncTyped'
  BY <1>1, <1>2, <1>3, <1>4 DEF SyncTyped
<1>6. Sync!AllFiles # << >> /\ Elements(Sync!AllFiles) = FileNames
  <2>1. "intents" \in FileNames
    BY DEF FileNames
  <2>2. Elements(<< >>) = {}
    BY DEF Elements
  <2> QED BY <2>1, <2>2, FamiliesFacts
<1>7. RunInv'
  BY <1>3, <1>4, <1>6 DEF RunInv, InChunk
<1>8. FilesInv'
  BY <1>2, <1>3, <1>4, <1>6 DEF SyncInv, FilesInv
<1>9. StampFaults = {} => StampInv'
  <2>1. \A e \in ChainEvents : ~ LookedUp(e.file, sync')
    BY <1>4 DEF LookedUp
  <2> QED BY <1>3, <1>4, <2>1 DEF SyncInv, StampInv, Settled
<1> QED BY <1>5, <1>7, <1>8, <1>9 DEF SyncInv

LEMMA SyncStepRewind ==
  ASSUME SyncInv, Sync!ChainSyncAssumption, Sync!rewindUncommittedEvents
  PROVE  SyncInv'
<1> USE SyncConstants
<1>1. SyncTyped
  BY DEF SyncInv
<1> DEFINE first == Head(sync.todo)
           next == IF Len(sync.todo) = 1 THEN "discover" ELSE "rewind"
           lines == Sync!TrimJSONLAfterBlock(disk.files[first], sync.meta.synced)
<1>2. /\ sync.pc = "rewind" /\ chain' = chain /\ disk' = [disk EXCEPT !.files[first] = lines]
      /\ sync' = [sync EXCEPT !.todo = Tail(@), !.pc = next]
  BY DEF Sync!rewindUncommittedEvents, Sync!At
<1>3. sync.meta.synced = disk.meta.synced /\ sync.todo # << >> /\ sync.family = 1
  BY <1>2 DEF SyncInv, RunInv
<1>4. /\ first \in FileNames /\ first \in Elements(sync.todo) /\ Tail(sync.todo) \in Seq(FileNames)
      /\ Elements(sync.todo) = {first} \cup Elements(Tail(sync.todo))
      /\ (Len(sync.todo) = 1 => Elements(Tail(sync.todo)) = {}) /\ (Len(sync.todo) # 1 => Tail(sync.todo) # << >>)
  BY <1>1, <1>3, SyncFields, SequenceParts
<1>5. Covers(disk.files[first], first, disk.meta.synced)
  BY <1>2, <1>4 DEF SyncInv, FilesInv
<1>6. lines = Sync!OnChain(first, 1, disk.meta.synced)
  <2>1. lines = Sync!Select(disk.files[first], UpToBlock(disk.meta.synced))
    BY <1>3 DEF Sync!TrimJSONLAfterBlock, Sync!Blocks, UpToBlock
  <2> QED BY <1>5, <2>1, SyncSelect DEF Covers
<1>7. lines \in Seq(0..MaxBlock)
  <2>1. disk.meta.synced \in 0..MaxBlock
    BY <1>1, SyncFields
  <2> DEFINE one == 1
  <2>2. one \in Nat \ {0}
    OBVIOUS
  <2> HIDE DEF one, lines
  <2>3. Sync!OnChain(first, one, disk.meta.synced) \in Seq(1..MaxBlock)
    BY <2>1, <2>2, OnChainHolds DEF Lists
  <2> QED BY <1>6, <2>3 DEF one
<1> HIDE DEF lines, first
<1>8. /\ disk' \in Disks /\ disk'.meta = disk.meta /\ disk'.stamps = disk.stamps
      /\ disk'.files = [disk.files EXCEPT ![first] = lines]
  <2> DEFINE files == [disk.files EXCEPT ![first] = lines]
  <2>1. disk \in Disks /\ disk.files \in [FileNames -> Seq(0..MaxBlock)]
    BY <1>1, SyncFields DEF SyncTyped
  <2>2. disk' = [disk EXCEPT !.files = files]
    BY <1>2, <2>1 DEF Disks
  <2>3. files \in [FileNames -> Seq(0..MaxBlock)]
    BY <1>7, <2>1
  <2> HIDE DEF files
  <2>4. disk' \in Disks /\ disk'.meta = disk.meta /\ disk'.stamps = disk.stamps /\ disk'.files = files
    BY <2>1, <2>2, <2>3 DEF Disks
  <2> QED BY <2>4 DEF files
<1>9. \A f \in FileNames : disk'.files[f] = IF f = first THEN lines ELSE disk.files[f]
  <2>1. disk.files \in [FileNames -> Seq(0..MaxBlock)]
    BY <1>1, SyncFields
  <2> QED BY <1>8, <2>1
<1>10. /\ sync' \in Runs /\ sync'.pc = next /\ sync'.todo = Tail(sync.todo) /\ sync'.meta = sync.meta
       /\ sync'.family = sync.family /\ sync'.from = sync.from /\ sync'.latest = sync.latest
  BY <1>1, <1>2, <1>4 DEF SyncTyped, Runs
<1>11. SyncTyped'
  BY <1>1, <1>2, <1>8, <1>10 DEF SyncTyped
<1>12. RunInv'
  BY <1>3, <1>4, <1>8, <1>10 DEF RunInv, InChunk
<1>13. FilesInv'
  <2>1. SUFFICES ASSUME NEW f \in FileNames
                 PROVE  IF sync'.pc = "off" \/ (sync'.pc = "rewind" /\ f \in Elements(sync'.todo)) THEN Covers(disk'.files[f], f, disk'.meta.synced)
                        ELSE disk'.files[f] = Sync!OnChain(f, 1, IF IsDone(f, sync') THEN End(sync'.from, sync'.latest) ELSE disk'.meta.synced)
    BY DEF FilesInv
  <2>2. ~ IsDone(f, sync) /\ ~ IsDone(f, sync')
    BY <1>2, <1>10 DEF IsDone, LookedUp
  <2>3. CASE f = first /\ ~ (f \in Elements(sync'.todo) /\ sync'.pc = "rewind")
    BY <1>6, <1>8, <1>9, <1>10, <2>2, <2>3
  <2>4. CASE f = first /\ f \in Elements(sync'.todo) /\ sync'.pc = "rewind"
    <3>1. disk.meta.synced \in 0..MaxBlock /\ disk.meta.synced <= disk.meta.synced
      BY <1>1, SyncFields
    <3>2. Covers(lines, f, disk.meta.synced)
      BY <1>6, <2>4, <3>1, ExactCovers
    <3> QED BY <1>8, <1>9, <2>4, <3>2
  <2>5. CASE f # first
    <3>1. disk'.files[f] = disk.files[f] /\ (f \in Elements(sync.todo) <=> f \in Elements(sync'.todo))
      BY <1>4, <1>9, <1>10, <2>5
    <3>2. sync'.pc # "rewind" => f \notin Elements(sync'.todo)
      BY <1>4, <1>10
    <3> QED BY <1>2, <1>8, <1>10, <2>2, <3>1, <3>2 DEF SyncInv, FilesInv
  <2> QED BY <2>3, <2>4, <2>5
<1>14. StampFaults = {} => StampInv'
  <2>1. \A e \in ChainEvents : ~ LookedUp(e.file, sync')
    BY <1>10 DEF LookedUp
  <2> QED BY <1>2, <1>8, <1>10, <2>1 DEF SyncInv, StampInv, Settled
<1> QED BY <1>11, <1>12, <1>13, <1>14 DEF SyncInv

LEMMA SyncStepFetch ==
  ASSUME SyncInv, Sync!ChainSyncAssumption, Sync!FetchLogs
  PROVE  SyncInv'
<1> USE SyncConstants
<1>1. SyncTyped /\ RunInv
  BY DEF SyncInv
<1> DEFINE j == sync.family
           files == Select(Sync!Families[j], {f \in FileNames : Sync!Fetched(f).logs # << >>})
           found == UNION {Sync!ToSet(Sync!Fetched(f).logs) : f \in Sync!ToSet(files)}
           to == End(sync.from, sync.latest)
<1>2. /\ sync.pc = "fetch" /\ chain' = chain /\ disk' = disk
      /\ \A f \in Sync!ToSet(Sync!Families[j]) : Sync!Fetched(f).ok
      /\ sync' = [sync EXCEPT !.pc = "append", !.todo = files, !.seen = @ \cup found]
  BY SyncSelect, FamiliesFacts DEF Sync!FetchLogs, Sync!At
<1>3. j \in 1..3
  BY <1>1, SyncFields
<1>4. /\ Sync!Families[j] \in Seq(FileNames) /\ Distinct(Sync!Families[j])
      /\ Elements(Sync!Families[j]) = {f \in FileNames : FamilyOf(f) = j}
      /\ Sync!ToSet(Sync!Families[j]) = {f \in FileNames : FamilyOf(f) = j}
  BY <1>3, FamiliesFacts
<1>5. InChunk(sync.pc)
  BY <1>2 DEF InChunk
<1>6. \A f \in FileNames : FamilyOf(f) = j =>
        Sync!Fetched(f).ok /\ Sync!Fetched(f).logs = Sync!OnChain(f, sync.from, to)
  BY <1>1, <1>2, <1>4, <1>5, ChunkFacts
<1>7. /\ files \in Seq(FileNames) /\ Distinct(files)
      /\ \A f : f \in Elements(files) <=> f \in FileNames /\ FamilyOf(f) = j /\ Sync!OnChain(f, sync.from, to) # << >>
  <2> DEFINE family == Sync!Families[j]
             kept == {f \in FileNames : Sync!Fetched(f).logs # << >>}
  <2>1. files = Select(family, kept) /\ family \in Seq(FileNames)
    BY <1>4
  <2>2. Distinct(family) /\ \A f : f \in Elements(family) <=> f \in FileNames /\ FamilyOf(f) = j
    BY <1>4
  <2> HIDE DEF family, kept, files
  <2>3. Holds(files, family, Len(family), kept) /\ files \in Seq(FileNames) /\ Distinct(files)
    BY <2>1, <2>2, SelectElements, SelectTyped, SelectDistinct
  <2>4. \A f : f \in Elements(files) <=> f \in Elements(family) /\ f \in kept
    <3>1. \A f : f \in Elements(files) => f \in Elements(family) /\ f \in kept
      BY <2>3 DEF Holds, Elements
    <3>2. \A i \in 1..Len(family) : family[i] \in kept => family[i] \in Elements(files)
      BY <2>3 DEF Holds, Elements
    <3>3. \A f : f \in Elements(family) /\ f \in kept => f \in Elements(files)
      BY <3>2 DEF Elements
    <3> QED BY <3>1, <3>3
  <2>5. \A f \in FileNames : f \in kept <=> Sync!Fetched(f).logs # << >>
    BY DEF kept
  <2> QED BY <1>6, <2>2, <2>3, <2>4, <2>5
<1>8. /\ sync.from \in 1..MaxBlock /\ to \in 1..MaxBlock
  BY <1>1, <1>5, ChunkFacts
<1>9. \A f \in Elements(files) : /\ Sync!Fetched(f).logs \in Seq(1..MaxBlock)
                                /\ \A b \in With(f, sync.from, to) : b \in Sync!ToSet(Sync!Fetched(f).logs)
  <2>1. TAKE f \in Elements(files)
  <2> DEFINE logs == Sync!Fetched(f).logs
  <2>2. logs = Sync!OnChain(f, sync.from, to)
    BY <1>6, <1>7
  <2>3. sync.from \in Nat \ {0} /\ to \in 0..MaxBlock
    BY <1>8
  <2> HIDE DEF logs, to, files
  <2>4. logs \in Seq(1..MaxBlock) /\ \A b \in With(f, sync.from, to) : \E i \in 1..Len(logs) : logs[i] = b
    <3>1. MaxBlock \in Nat
      OBVIOUS
    <3>2. Lists(Sync!OnChain(f, sync.from, to), f, sync.from, to)
      BY <2>3, <3>1, OnChainHolds
    <3> QED BY <2>2, <3>2 DEF Lists
  <2>5. DOMAIN logs = 1..Len(logs)
    BY <2>4
  <2>6. \A b \in With(f, sync.from, to) : b \in Sync!ToSet(logs)
    BY <2>4, <2>5 DEF Sync!ToSet
  <2> QED BY <2>4, <2>6 DEF logs
<1>10. Sync!ToSet(files) = Elements(files)
  <2> HIDE DEF files
  <2>1. DOMAIN files = 1..Len(files)
    BY <1>7
  <2> QED BY <2>1 DEF Sync!ToSet, Elements
<1>11. found \in SUBSET (1..MaxBlock)
  <2> HIDE DEF files
  <2>1. \A s \in Seq(1..MaxBlock) : Sync!ToSet(s) \subseteq 1..MaxBlock
    BY DEF Sync!ToSet
  <2> QED BY <1>9, <1>10, <2>1
<1> HIDE DEF files
<1>12. \A f \in FileNames : FamilyOf(f) = j => With(f, sync.from, to) \subseteq found
  <2>1. SUFFICES ASSUME NEW f \in FileNames, FamilyOf(f) = j, NEW b \in With(f, sync.from, to) PROVE b \in found
    OBVIOUS
  <2>2. sync.from \in Nat \ {0} /\ to \in 0..MaxBlock
    BY <1>8
  <2>3. Sync!OnChain(f, sync.from, to) # << >>
    <3> HIDE DEF to
    <3>1. MaxBlock \in Nat
      OBVIOUS
    <3>2. Lists(Sync!OnChain(f, sync.from, to), f, sync.from, to)
      BY <2>2, <3>1, OnChainHolds
    <3>3. \E i \in 1..Len(Sync!OnChain(f, sync.from, to)) : Sync!OnChain(f, sync.from, to)[i] = b
      BY <3>2 DEF Lists
    <3> QED BY <3>3
  <2>4. f \in Elements(files)
    BY <1>7, <2>1, <2>3
  <2> QED BY <1>9, <1>10, <2>4
<1> HIDE DEF found
<1>13. /\ sync' \in Runs /\ sync'.pc = "append" /\ sync'.todo = files /\ sync'.seen = sync.seen \cup found /\ sync'.meta = sync.meta
       /\ sync'.family = sync.family /\ sync'.from = sync.from /\ sync'.latest = sync.latest
  <2> DEFINE all == sync.seen \cup found
  <2>1. sync' = [sync EXCEPT !.pc = "append", !.todo = files, !.seen = all]
    BY <1>2
  <2>2. all \in SUBSET (1..MaxBlock) /\ sync \in Runs
    BY <1>1, <1>11, SyncFields DEF SyncTyped
  <2> HIDE DEF all
  <2>3. /\ sync' \in Runs /\ sync'.pc = "append" /\ sync'.todo = files /\ sync'.seen = all /\ sync'.meta = sync.meta
        /\ sync'.family = sync.family /\ sync'.from = sync.from /\ sync'.latest = sync.latest
    BY <1>7, <2>1, <2>2 DEF Runs
  <2> QED BY <2>3 DEF all
<1>14. SyncTyped'
  BY <1>1, <1>2, <1>13 DEF SyncTyped
<1>15. RunInv'
  <2>1. \A f \in FileNames : FamilyOf(f) = j => Sync!FilterLogs(f, sync.from, to).ok
    BY <1>6, FetchedIs
  <2>2. \A f \in Elements(files) : FamilyOf(f) = j
    BY <1>7
  <2>3. sync.from = disk.meta.synced + 1 /\ sync.from <= sync.latest /\ sync.meta.synced = disk.meta.synced
    BY <1>1, <1>2, <1>5 DEF RunInv
  <2> QED BY <1>2, <1>7, <1>13, <2>1, <2>2, <2>3 DEF RunInv, InChunk
<1>16. FilesInv'
  <2>1. SUFFICES ASSUME NEW f \in FileNames
                 PROVE  disk.files[f] = Sync!OnChain(f, 1, IF IsDone(f, sync') THEN to ELSE disk.meta.synced)
    BY <1>2, <1>13 DEF FilesInv
  <2>2. disk.files[f] = Sync!OnChain(f, 1, IF IsDone(f, sync) THEN to ELSE disk.meta.synced)
    BY <1>2 DEF SyncInv, FilesInv
  <2>3. Sync!OnChain(f, 1, to) = Sync!OnChain(f, 1, disk.meta.synced) \o Sync!OnChain(f, sync.from, to)
    BY <1>1, <1>5, ChunkFacts
  <2>4. CASE FamilyOf(f) # j
    <3>1. IsDone(f, sync) <=> IsDone(f, sync')
      BY <1>2, <1>7, <1>13, <2>4 DEF IsDone, LookedUp
    <3> QED BY <2>2, <3>1
  <2>5. CASE FamilyOf(f) = j
    <3>1. ~ IsDone(f, sync)
      BY <1>2, <1>3, <2>5 DEF IsDone, LookedUp
    <3>2. IsDone(f, sync') => Sync!OnChain(f, sync.from, to) = << >>
      BY <1>7, <1>13, <2>5 DEF IsDone
    <3>3. Sync!OnChain(f, 1, disk.meta.synced) \in Seq(0..MaxBlock)
      BY <1>1, <2>2, <3>1, SyncFields
    <3>4. Sync!OnChain(f, 1, disk.meta.synced) \o << >> = Sync!OnChain(f, 1, disk.meta.synced)
      BY <3>3
    <3> QED BY <2>2, <2>3, <3>1, <3>2, <3>4
  <2> QED BY <2>4, <2>5
<1>17. StampFaults = {} => StampInv'
  <2>1. SUFFICES ASSUME StampFaults = {}, NEW e \in ChainEvents
        PROVE  /\ e.block <= disk.meta.synced => e.block \in Settled(disk.meta) /\ e.block \in Settled(sync.meta)
               /\ e.block \in sync.from..to /\ LookedUp(e.file, sync') => e.block \in sync'.seen
    BY <1>2, <1>13 DEF StampInv, Settled
  <2>2. /\ e.block <= disk.meta.synced => e.block \in Settled(disk.meta) /\ e.block \in Settled(sync.meta)
        /\ e.block \in sync.from..to /\ LookedUp(e.file, sync) => e.block \in sync.seen
    BY <1>2, <2>1 DEF SyncInv, StampInv
  <2>3. LookedUp(e.file, sync') => LookedUp(e.file, sync) \/ FamilyOf(e.file) = j
    BY <1>2, <1>13 DEF LookedUp
  <2>4. e.file \in FileNames /\ e = [file |-> e.file, block |-> e.block]
    BY SyncConstants
  <2>5. e.block \in sync.from..to => e.block \in With(e.file, sync.from, to)
    BY <2>4 DEF With
  <2> QED BY <1>12, <1>13, <2>2, <2>3, <2>4, <2>5
<1> QED BY <1>14, <1>15, <1>16, <1>17 DEF SyncInv

\* A file without a torn line is appended to as it is.
LEMMA AppendedIs ==
  ASSUME MaxBlock \in Nat, NEW lines \in Seq(1..MaxBlock), NEW new
  PROVE  Sync!Appended(lines, new) = lines \o new
<1>1. lines # << >> => Sync!Last(lines) # Sync!Torn
  <2>1. SUFFICES ASSUME lines # << >> PROVE Sync!Last(lines) # Sync!Torn
    OBVIOUS
  <2>2. Len(lines) \in 1..Len(lines)
    BY <2>1
  <2>3. lines[Len(lines)] \in 1..MaxBlock
    BY <2>2
  <2> QED BY <2>3 DEF Sync!Last, Sync!Torn
<1> QED BY <1>1 DEF Sync!Appended

\* What the next append of a chunk finds and writes.
LEMMA AppendFacts ==
  ASSUME SyncInv, Sync!ChainSyncAssumption, sync.pc = "append", sync.todo # << >>
  PROVE  LET f == Head(sync.todo)
             to == End(sync.from, sync.latest)
         IN  /\ f \in FileNames /\ FamilyOf(f) = sync.family
             /\ disk.files[f] = Sync!OnChain(f, 1, disk.meta.synced) /\ disk.files[f] \in Seq(1..MaxBlock)
             /\ Sync!Fetched(f).logs = Sync!OnChain(f, sync.from, to) /\ Sync!Fetched(f).logs \in Seq(1..MaxBlock)
             /\ \A i \in 1..Len(Sync!Fetched(f).logs) : Sync!Fetched(f).logs[i] > disk.meta.synced
             /\ Sync!OnChain(f, 1, to) = disk.files[f] \o Sync!Fetched(f).logs
<1> DEFINE f == Head(sync.todo)
           to == End(sync.from, sync.latest)
           logs == Sync!Fetched(f).logs
           synced == disk.meta.synced
<1>0. MaxBlock \in Nat /\ SyncTyped /\ RunInv /\ InChunk(sync.pc)
  BY SyncConstants DEF SyncInv, InChunk
<1>1. f \in FileNames /\ f \in Elements(sync.todo)
  BY <1>0, SyncFields, SequenceParts
<1>2. FamilyOf(f) = sync.family
  BY <1>0, <1>1 DEF RunInv
<1>3. Sync!Fetched(f).ok
  BY <1>0, <1>1, <1>2, FetchedIs DEF RunInv
<1>4. /\ to \in 1..MaxBlock /\ to \in 0..MaxBlock /\ sync.from = synced + 1 /\ sync.from \in 1..MaxBlock /\ sync.from \in Nat \ {0}
      /\ Sync!OnChain(f, 1, to) = Sync!OnChain(f, 1, synced) \o Sync!OnChain(f, sync.from, to)
      /\ logs = Sync!OnChain(f, sync.from, to)
  BY <1>0, <1>1, <1>3, ChunkFacts
<1>5. disk.files[f] = Sync!OnChain(f, 1, synced)
  BY <1>1 DEF SyncInv, FilesInv, IsDone
<1>6. synced \in 0..MaxBlock
  BY <1>0, SyncFields
<1> DEFINE one == 1
<1>7. one \in Nat \ {0}
  OBVIOUS
<1>8. disk.files[f] = Sync!OnChain(f, one, synced)
  BY <1>5
<1> HIDE DEF f, to, logs, synced, one
<1>9. Lists(disk.files[f], f, one, synced)
  BY <1>0, <1>6, <1>7, <1>8, OnChainHolds
<1>10. Lists(logs, f, sync.from, to)
  <2>1. Lists(Sync!OnChain(f, sync.from, to), f, sync.from, to)
    BY <1>0, <1>4, OnChainHolds
  <2> QED BY <1>4, <2>1
<1>11. \A i \in 1..Len(logs) : logs[i] > synced
  <2>1. \A i \in 1..Len(logs) : logs[i] \in With(f, sync.from, to)
    BY <1>10 DEF Lists
  <2>2. \A b \in With(f, sync.from, to) : b > synced
    BY <1>4, <1>6 DEF With
  <2> QED BY <2>1, <2>2
<1>12. disk.files[f] \in Seq(1..MaxBlock) /\ logs \in Seq(1..MaxBlock)
  BY <1>9, <1>10 DEF Lists
<1> QED BY <1>1, <1>2, <1>4, <1>5, <1>11, <1>12 DEF f, to, logs, synced

LEMMA SyncStepAppend ==
  ASSUME SyncInv, Sync!ChainSyncAssumption, Sync!AppendJSONL
  PROVE  SyncInv'
<1>0. MaxBlock \in Nat /\ SyncTyped
  BY SyncConstants DEF SyncInv
<1> DEFINE first == Head(sync.todo)
           logs == Sync!Fetched(first).logs
           to == End(sync.from, sync.latest)
           lines == disk.files[first] \o logs
<1>1. /\ sync.pc = "append" /\ sync.todo # << >> /\ chain' = chain
      /\ disk' = [disk EXCEPT !.files[first] = Sync!Appended(@, logs)] /\ sync' = [sync EXCEPT !.todo = Tail(@)]
  BY DEF Sync!AppendJSONL, Sync!At
<1>2. /\ first \in FileNames /\ FamilyOf(first) = sync.family
      /\ disk.files[first] \in Seq(1..MaxBlock) /\ logs \in Seq(1..MaxBlock)
      /\ lines = Sync!OnChain(first, 1, to)
  BY <1>1, AppendFacts
<1>3. /\ Tail(sync.todo) \in Seq(FileNames) /\ Elements(sync.todo) = {first} \cup Elements(Tail(sync.todo))
      /\ Distinct(Tail(sync.todo)) /\ first \notin Elements(Tail(sync.todo))
  <2>1. Distinct(sync.todo)
    BY <1>1 DEF SyncInv, RunInv
  <2> QED BY <1>0, <1>1, <2>1, SyncFields, SequenceParts
<1>4. disk' = [disk EXCEPT !.files[first] = lines]
  BY <1>0, <1>1, <1>2, AppendedIs
<1>5. lines \in Seq(0..MaxBlock)
  BY <1>0, <1>2
<1> HIDE DEF lines, first, logs
<1>6. /\ disk' \in Disks /\ disk'.meta = disk.meta /\ disk'.stamps = disk.stamps
      /\ \A f \in FileNames : disk'.files[f] = IF f = first THEN lines ELSE disk.files[f]
  <2> DEFINE files == [disk.files EXCEPT ![first] = lines]
  <2>1. disk \in Disks /\ disk.files \in [FileNames -> Seq(0..MaxBlock)]
    BY <1>0, SyncFields DEF SyncTyped
  <2>2. disk' = [disk EXCEPT !.files = files]
    BY <1>4, <2>1 DEF Disks
  <2>3. files \in [FileNames -> Seq(0..MaxBlock)]
    BY <1>5, <2>1
  <2>4. \A f \in FileNames : files[f] = IF f = first THEN lines ELSE disk.files[f]
    BY <2>1
  <2> HIDE DEF files
  <2>5. disk' \in Disks /\ disk'.meta = disk.meta /\ disk'.stamps = disk.stamps /\ disk'.files = files
    BY <2>1, <2>2, <2>3 DEF Disks
  <2> QED BY <2>4, <2>5
<1>7. /\ sync' \in Runs /\ sync'.pc = sync.pc /\ sync'.todo = Tail(sync.todo) /\ sync'.meta = sync.meta /\ sync'.seen = sync.seen
      /\ sync'.family = sync.family /\ sync'.from = sync.from /\ sync'.latest = sync.latest
  BY <1>0, <1>1, <1>3 DEF SyncTyped, Runs
<1>8. SyncTyped'
  BY <1>0, <1>1, <1>6, <1>7 DEF SyncTyped
<1>9. RunInv'
  BY <1>1, <1>3, <1>6, <1>7 DEF SyncInv, RunInv, InChunk
<1>10. FilesInv'
  <2>1. SUFFICES ASSUME NEW f \in FileNames
                 PROVE  disk'.files[f] = Sync!OnChain(f, 1, IF IsDone(f, sync') THEN to ELSE disk.meta.synced)
    BY <1>1, <1>6, <1>7 DEF FilesInv
  <2>2. disk.files[f] = Sync!OnChain(f, 1, IF IsDone(f, sync) THEN to ELSE disk.meta.synced)
    BY <1>1 DEF SyncInv, FilesInv
  <2>3. CASE f = first
    <3>1. IsDone(f, sync')
      BY <1>1, <1>2, <1>3, <1>7, <2>3 DEF IsDone, LookedUp
    <3> QED BY <1>2, <1>6, <2>3, <3>1
  <2>4. CASE f # first
    <3>1. IsDone(f, sync') <=> IsDone(f, sync)
      BY <1>1, <1>3, <1>7, <2>4 DEF IsDone, LookedUp
    <3> QED BY <1>6, <2>2, <2>4, <3>1
  <2> QED BY <2>3, <2>4
<1>11. StampFaults = {} => StampInv'
  <2>1. \A e \in ChainEvents : LookedUp(e.file, sync') <=> LookedUp(e.file, sync)
    BY <1>7 DEF LookedUp
  <2> QED BY <1>1, <1>6, <1>7, <2>1 DEF SyncInv, StampInv, Settled
<1> QED BY <1>8, <1>9, <1>10, <1>11 DEF SyncInv

LEMMA SyncStepFamily ==
  ASSUME SyncInv, Sync!ChainSyncAssumption, Sync!FamilyDone
  PROVE  SyncInv'
<1>0. MaxBlock \in Nat /\ SyncTyped /\ sync.family \in 1..3
  BY SyncConstants, SyncFields DEF SyncInv
<1>1. sync.pc = "append" /\ sync.todo = << >> /\ chain' = chain /\ disk' = disk
  BY DEF Sync!FamilyDone, Sync!At
<1>2. sync' = IF sync.family < 3 THEN [sync EXCEPT !.pc = "fetch", !.family = @ + 1] ELSE [sync EXCEPT !.pc = "resolve", !.family = 1]
  BY FamiliesFacts DEF Sync!FamilyDone
<1>3. /\ sync' \in Runs /\ sync'.meta = sync.meta /\ sync'.seen = sync.seen
      /\ sync'.from = sync.from /\ sync'.latest = sync.latest
      /\ \/ sync.family < 3 /\ sync'.pc = "fetch" /\ sync'.family = sync.family + 1
         \/ sync.family = 3 /\ sync'.pc = "resolve" /\ sync'.family = 1
  <2>1. CASE sync.family < 3
    <3>1. sync' = [sync EXCEPT !.pc = "fetch", !.family = sync.family + 1] /\ sync.family + 1 \in 1..3
      BY <1>0, <1>2, <2>1
    <3> QED BY <1>0, <2>1, <3>1 DEF SyncTyped, Runs
  <2>2. CASE ~ (sync.family < 3)
    <3>1. sync' = [sync EXCEPT !.pc = "resolve", !.family = 1] /\ sync.family = 3 /\ 1 \in 1..3
      BY <1>0, <1>2, <2>2
    <3>2. /\ sync' \in Runs /\ sync'.meta = sync.meta /\ sync'.seen = sync.seen
          /\ sync'.from = sync.from /\ sync'.latest = sync.latest /\ sync'.pc = "resolve" /\ sync'.family = 1
      BY <1>0, <3>1 DEF SyncTyped, Runs
    <3> QED BY <3>1, <3>2
  <2> QED BY <2>1, <2>2
<1>4. \A f \in FileNames : LookedUp(f, sync') <=> LookedUp(f, sync)
  <2>1. \A f \in FileNames : FamilyOf(f) \in 1..3
    BY DEF FamilyOf
  <2> QED BY <1>0, <1>1, <1>3, <2>1 DEF LookedUp
<1>5. \A f \in FileNames : IsDone(f, sync') <=> IsDone(f, sync)
  <2>1. Elements(sync.todo) = {}
    BY <1>1 DEF Elements
  <2> QED BY <1>1, <1>3, <1>4, <2>1 DEF IsDone
<1>6. SyncTyped'
  BY <1>0, <1>1, <1>3 DEF SyncTyped
<1>7. RunInv'
  BY <1>1, <1>3 DEF SyncInv, RunInv, InChunk
<1>8. FilesInv'
  BY <1>1, <1>3, <1>5 DEF SyncInv, FilesInv
<1>9. StampFaults = {} => StampInv'
  <2>1. \A e \in ChainEvents : LookedUp(e.file, sync') <=> LookedUp(e.file, sync)
    BY <1>4, SyncConstants
  <2> QED BY <1>1, <1>3, <2>1 DEF SyncInv, StampInv, Settled
<1> QED BY <1>6, <1>7, <1>8, <1>9 DEF SyncInv

LEMMA SyncStepResolve ==
  ASSUME SyncInv, Sync!ChainSyncAssumption, Sync!resolveNewBlocks
  PROVE  SyncInv'
<1>0. MaxBlock \in Nat /\ SyncTyped
  BY SyncConstants DEF SyncInv
<1> DEFINE missing == (sync.seen \cup sync.meta.pending) \ disk.stamps
<1>1. PICK failed \in SUBSET missing, fault \in {"none"} \cup StampFaults :
       LET tried == [b \in 1..MaxBlock |-> IF b \in failed THEN sync.meta.attempts[b] + 1
                                     ELSE IF b \in missing THEN 0 ELSE sync.meta.attempts[b]]
           gaveUp == {b \in failed : tried[b] >= StampAttempts}
           meta == [sync.meta EXCEPT
                      !.pending = failed \ gaveUp, !.gaveUp = @ \cup gaveUp,
                      !.attempts = [b \in 1..MaxBlock |-> IF b \in gaveUp \/ missing = {} THEN 0 ELSE tried[b]]]
           faults == (IF failed = {} THEN 0 ELSE 1) + (IF fault = "none" THEN 0 ELSE 1)
       IN /\ sync.pc = "resolve" /\ chain' = chain
          /\ sync' = [sync EXCEPT !.pc = "checkpoint", !.seen = {}, !.meta = IF fault = "load" THEN @ ELSE meta]
          /\ disk' = [disk EXCEPT !.faults = @ - faults,
                                 !.stamps = IF fault = "none" THEN @ \cup (missing \ failed) ELSE @]
  BY DEF Sync!resolveNewBlocks, Sync!Blocks, Sync!At
<1> DEFINE tried == [b \in 1..MaxBlock |-> IF b \in failed THEN sync.meta.attempts[b] + 1
                                     ELSE IF b \in missing THEN 0 ELSE sync.meta.attempts[b]]
           gaveUp == {b \in failed : tried[b] >= StampAttempts}
           pending == failed \ gaveUp
           given == sync.meta.gaveUp \cup gaveUp
           attempts == [b \in 1..MaxBlock |-> IF b \in gaveUp \/ missing = {} THEN 0 ELSE tried[b]]
           full == [sync.meta EXCEPT !.pending = pending, !.gaveUp = given, !.attempts = attempts]
           meta == IF fault = "load" THEN sync.meta ELSE full
           stamps == IF fault = "none" THEN disk.stamps \cup (missing \ failed) ELSE disk.stamps
           faults == disk.faults - ((IF failed = {} THEN 0 ELSE 1) + (IF fault = "none" THEN 0 ELSE 1))
<1>2. /\ sync.pc = "resolve" /\ chain' = chain
      /\ sync' = [sync EXCEPT !.pc = "checkpoint", !.seen = {}, !.meta = meta]
      /\ disk' = [disk EXCEPT !.faults = faults, !.stamps = stamps]
  BY <1>1
<1>3. sync.meta \in Metas /\ sync.seen \subseteq 1..MaxBlock /\ disk.stamps \subseteq 1..MaxBlock
  BY <1>0, SyncFields
<1>4. missing \subseteq 1..MaxBlock
  BY <1>3 DEF Metas
<1>5. attempts \in [1..MaxBlock -> Nat]
  <2>1. sync.meta.attempts \in [1..MaxBlock -> Nat]
    BY <1>3 DEF Metas
  <2>2. tried \in [1..MaxBlock -> Nat]
    <3>1. \A b \in 1..MaxBlock : sync.meta.attempts[b] \in Nat
      BY <2>1
    <3>2. \A b \in 1..MaxBlock : (IF b \in failed THEN sync.meta.attempts[b] + 1
                                    ELSE IF b \in missing THEN 0 ELSE sync.meta.attempts[b]) \in Nat
      <4> HIDE DEF missing
      <4> QED BY <3>1
    <3> HIDE DEF missing
    <3> QED BY <3>2
  <2> HIDE DEF tried, missing, gaveUp
  <2> QED BY <2>2
<1>6. gaveUp \subseteq failed /\ pending \subseteq 1..MaxBlock /\ given \subseteq 1..MaxBlock /\ stamps \subseteq 1..MaxBlock
  BY <1>3, <1>4 DEF Metas
<1>7. faults \in Int
  BY <1>0 DEF SyncTyped, Disks
<1>8. pending \cup gaveUp = failed
  BY <1>6
<1> HIDE DEF gaveUp, tried, attempts, faults
<1>9. /\ sync.meta.gaveUp \subseteq given /\ disk.stamps \subseteq stamps
      /\ fault = "none" => sync.seen \cup sync.meta.pending \subseteq stamps \cup pending \cup given
  BY <1>8
<1> HIDE DEF pending, given, stamps, missing
<1>10. /\ meta \in Metas /\ meta.synced = sync.meta.synced
       /\ fault = "none" => meta.pending = pending /\ meta.gaveUp = given
  <2>1. full \in Metas /\ full.synced = sync.meta.synced /\ full.pending = pending /\ full.gaveUp = given
    BY <1>3, <1>5, <1>6 DEF Metas
  <2> HIDE DEF full
  <2> QED BY <1>3, <2>1
<1> HIDE DEF meta, full
<1>11. /\ sync' \in Runs /\ sync'.pc = "checkpoint" /\ sync'.meta = meta /\ sync'.family = sync.family
       /\ sync'.from = sync.from /\ sync'.latest = sync.latest
  BY <1>0, <1>2, <1>10 DEF SyncTyped, Runs
<1>12. disk' \in Disks /\ disk'.files = disk.files /\ disk'.meta = disk.meta /\ disk'.stamps = stamps
  BY <1>0, <1>2, <1>6, <1>7 DEF SyncTyped, Disks
<1>13. SyncTyped'
  BY <1>0, <1>2, <1>11, <1>12 DEF SyncTyped
<1>14. RunInv'
  BY <1>2, <1>10, <1>11, <1>12 DEF SyncInv, RunInv, InChunk
<1>15. FilesInv'
  <2>1. \A f \in FileNames : IsDone(f, sync') /\ IsDone(f, sync)
    BY <1>2, <1>11 DEF IsDone, LookedUp
  <2> QED BY <1>2, <1>11, <1>12, <2>1 DEF SyncInv, FilesInv
<1>16. ASSUME StampFaults = {} PROVE StampInv'
  <2>0. fault = "none"
    BY <1>16
  <2>1. SUFFICES ASSUME NEW e \in ChainEvents
        PROVE  /\ e.block <= disk.meta.synced => e.block \in stamps \cup disk.meta.pending \cup disk.meta.gaveUp /\ e.block \in stamps \cup pending \cup given
               /\ e.block \in sync.from..End(sync.from, sync.latest) => e.block \in stamps \cup pending \cup given
    BY <1>10, <1>11, <1>12, <2>0 DEF StampInv, Settled
  <2>2. /\ e.block <= disk.meta.synced => e.block \in disk.stamps \cup disk.meta.pending \cup disk.meta.gaveUp
                                          /\ e.block \in disk.stamps \cup sync.meta.pending \cup sync.meta.gaveUp
        /\ e.block \in sync.from..End(sync.from, sync.latest) => e.block \in sync.seen
    BY <1>2, <1>16 DEF SyncInv, StampInv, Settled, LookedUp
  <2> QED BY <1>9, <2>0, <2>2
<1> QED BY <1>13, <1>14, <1>15, <1>16 DEF SyncInv

LEMMA SyncStepCheckpoint ==
  ASSUME SyncInv, Sync!ChainSyncAssumption, Sync!Checkpoint
  PROVE  SyncInv'
<1>0. MaxBlock \in Nat /\ SyncTyped /\ RunInv
  BY SyncConstants DEF SyncInv
<1> DEFINE to == End(sync.from, sync.latest)
           meta == [sync.meta EXCEPT !.synced = to]
           next == IF to < sync.latest THEN "fetch" ELSE "state"
<1>1. /\ sync.pc = "checkpoint" /\ chain' = chain /\ disk' = [disk EXCEPT !.meta = meta]
      /\ sync' = [sync EXCEPT !.meta = meta, !.from = to + 1, !.pc = next]
  BY FetchedIs DEF Sync!Checkpoint, Sync!At
<1>2. InChunk(sync.pc)
  BY <1>1 DEF InChunk
<1>3. to \in 1..MaxBlock /\ to \in sync.from..sync.latest /\ sync.from = disk.meta.synced + 1 /\ sync.meta.synced = disk.meta.synced
  BY <1>0, <1>1, <1>2, ChunkFacts DEF RunInv
<1>4. sync.meta \in Metas /\ sync.latest \in 0..MaxBlock /\ disk.meta.synced \in 0..MaxBlock
  BY <1>0, SyncFields
<1> HIDE DEF to
<1>5. meta \in Metas /\ meta.synced = to /\ meta.pending = sync.meta.pending /\ meta.gaveUp = sync.meta.gaveUp
  BY <1>3, <1>4 DEF Metas
<1> HIDE DEF meta
<1>6. disk' \in Disks /\ disk'.meta = meta /\ disk'.files = disk.files /\ disk'.stamps = disk.stamps
  BY <1>0, <1>1, <1>5 DEF SyncTyped, Disks
<1>7. /\ sync' \in Runs /\ sync'.meta = meta /\ sync'.pc = next /\ sync'.from = to + 1
      /\ sync'.family = sync.family /\ sync'.latest = sync.latest
  <2>1. to + 1 \in 1..(MaxBlock + 1)
    BY <1>0, <1>3
  <2> QED BY <1>0, <1>1, <1>5, <2>1 DEF SyncTyped, Runs
<1>8. SyncTyped'
  BY <1>0, <1>1, <1>6, <1>7 DEF SyncTyped
<1>9. sync.family = 1
  BY <1>0, <1>1 DEF RunInv
<1>10. RunInv'
  <2>1. next = "fetch" => to + 1 <= sync.latest
    BY <1>3, <1>4
  <2> QED BY <1>5, <1>6, <1>7, <1>9, <2>1 DEF RunInv, InChunk
<1>11. \A f \in FileNames : IsDone(f, sync) /\ ~ LookedUp(f, sync')
  BY <1>1, <1>7, <1>9 DEF IsDone, LookedUp, FamilyOf
<1>12. FilesInv'
  <2>1. \A f \in FileNames : disk.files[f] = Sync!OnChain(f, 1, to)
    BY <1>1, <1>11 DEF SyncInv, FilesInv, to
  <2> QED BY <1>5, <1>6, <1>7, <1>11, <2>1 DEF FilesInv, IsDone
<1>13. StampFaults = {} => StampInv'
  <2>1. SUFFICES ASSUME StampFaults = {}, NEW e \in ChainEvents, e.block <= to
                 PROVE  e.block \in disk.stamps \cup sync.meta.pending \cup sync.meta.gaveUp
    <3>1. \A e \in ChainEvents : ~ LookedUp(e.file, sync')
      BY <1>11, SyncConstants
    <3> QED BY <1>5, <1>6, <1>7, <3>1 DEF StampInv, Settled
  <2>2. /\ e.block <= disk.meta.synced => e.block \in disk.stamps \cup sync.meta.pending \cup sync.meta.gaveUp
        /\ e.block \in sync.from..to => e.block \in disk.stamps \cup sync.meta.pending \cup sync.meta.gaveUp
    BY <1>1, <2>1 DEF SyncInv, StampInv, Settled, to
  <2>3. e.block \in 1..MaxBlock
    BY SyncConstants
  <2> QED BY <1>3, <1>4, <2>1, <2>2, <2>3
<1> QED BY <1>8, <1>10, <1>12, <1>13 DEF SyncInv

LEMMA OffFacts ==
  ASSUME Sync!ChainSyncAssumption
  PROVE  Sync!Off \in Runs /\ Sync!Off.pc = "off" /\ Sync!Off.family = 1
<1> USE SyncConstants
<1>1. Sync!NoMeta \in Metas
  BY DEF Sync!NoMeta, Metas, Sync!Blocks
<1>2. << >> \in Seq(FileNames)
  OBVIOUS
<1> QED BY <1>1, <1>2 DEF Sync!Off, Runs

LEMMA SyncStepSave ==
  ASSUME SyncInv, Sync!ChainSyncAssumption, Sync!SaveMeta
  PROVE  SyncInv'
<1>0. MaxBlock \in Nat /\ SyncTyped /\ RunInv
  BY SyncConstants DEF SyncInv
<1>1. /\ sync.pc = "save" /\ chain' = chain /\ sync' = Sync!Off
      /\ disk' = [disk EXCEPT !.meta = sync.meta, !.lock = FALSE]
  BY DEF Sync!SaveMeta, Sync!At
<1>2. sync.meta \in Metas /\ disk.meta.synced \in 0..MaxBlock /\ sync.meta.synced = disk.meta.synced
  BY <1>0, <1>1, SyncFields DEF RunInv
<1>3. disk' \in Disks /\ disk'.meta = sync.meta /\ disk'.files = disk.files /\ disk'.stamps = disk.stamps
  BY <1>0, <1>1, <1>2 DEF SyncTyped, Disks
<1>4. sync' \in Runs /\ sync'.pc = "off" /\ sync'.family = 1
  BY <1>1, OffFacts
<1>5. SyncTyped'
  BY <1>0, <1>1, <1>3, <1>4 DEF SyncTyped
<1>6. RunInv'
  BY <1>4 DEF RunInv, InChunk
<1>7. FilesInv'
  <2>1. SUFFICES ASSUME NEW f \in FileNames PROVE Covers(disk.files[f], f, disk.meta.synced)
    BY <1>2, <1>3, <1>4 DEF FilesInv
  <2>2. disk.files[f] = Sync!OnChain(f, 1, disk.meta.synced)
    BY <1>1 DEF SyncInv, FilesInv, IsDone, LookedUp
  <2>3. disk.meta.synced <= disk.meta.synced
    BY <1>2
  <2> QED BY <1>0, <1>2, <2>2, <2>3, ExactCovers
<1>8. StampFaults = {} => StampInv'
  BY <1>1, <1>2, <1>3, <1>4 DEF SyncInv, StampInv, Settled, LookedUp
<1> QED BY <1>5, <1>6, <1>7, <1>8 DEF SyncInv

\* Whatever a process leaves behind is what meta.json covers, and what can be read.
LEMMA FilesAreCovered ==
  ASSUME SyncInv, Sync!ChainSyncAssumption, NEW f \in FileNames
  PROVE  Covers(disk.files[f], f, disk.meta.synced)
<1> DEFINE to == IF IsDone(f, sync) THEN End(sync.from, sync.latest) ELSE disk.meta.synced
<1>1. MaxBlock \in Nat /\ SyncTyped /\ RunInv
  BY SyncConstants DEF SyncInv
<1>2. disk.meta.synced \in 0..MaxBlock
  BY <1>1, SyncFields
<1>3. to \in 0..MaxBlock /\ disk.meta.synced <= to
  <2>1. CASE IsDone(f, sync)
    <3>1. InChunk(sync.pc)
      BY <2>1 DEF IsDone, LookedUp, InChunk
    <3>2. End(sync.from, sync.latest) \in sync.from..sync.latest /\ End(sync.from, sync.latest) \in 1..MaxBlock /\ sync.from = disk.meta.synced + 1
      BY <1>1, <3>1, ChunkFacts
    <3> QED BY <1>2, <2>1, <3>2
  <2>2. CASE ~ IsDone(f, sync)
    BY <1>2, <2>2
  <2> QED BY <2>1, <2>2
<1>4. CASE sync.pc = "off" \/ (sync.pc = "rewind" /\ f \in Elements(sync.todo))
  BY <1>4 DEF SyncInv, FilesInv
<1>5. CASE ~ (sync.pc = "off" \/ (sync.pc = "rewind" /\ f \in Elements(sync.todo)))
  <2>1. disk.files[f] = Sync!OnChain(f, 1, to)
    BY <1>5 DEF SyncInv, FilesInv
  <2> HIDE DEF to
  <2> QED BY <1>1, <1>2, <1>3, <2>1, ExactCovers
<1> QED BY <1>4, <1>5

LEMMA TornFacts ==
  ASSUME NEW n \in Nat, NEW torn \in {<< >>, << 0 >>}
  PROVE  torn \in Seq(0..n) /\ Len(torn) \in Nat /\ Len(torn) <= 1 /\ \A i \in 1..Len(torn) : torn[i] = 0
<1>1. CASE torn = << >>
  BY <1>1
<1>2. CASE torn = << 0 >>
  BY <1>2
<1> QED BY <1>1, <1>2

\* So is an append that was cut off.
LEMMA CutOffIsCovered ==
  ASSUME MaxBlock \in Nat, NEW f, NEW synced \in 0..MaxBlock, NEW lines \in Seq(1..MaxBlock), Covers(lines, f, synced),
         NEW logs \in Seq(1..MaxBlock), \A i \in 1..Len(logs) : logs[i] > synced,
         NEW n \in 0..Len(logs), NEW torn \in {<< >>, << 0 >>}
  PROVE  LET left == (lines \o SubSeq(logs, 1, n)) \o torn
         IN  left \in Seq(0..MaxBlock) /\ Covers(left, f, synced)
<1> DEFINE piece == SubSeq(logs, 1, n)
           both == lines \o piece
           left == both \o torn
           kept == UpToBlock(synced)
<1>1. piece \in Seq(1..MaxBlock) /\ Len(piece) = n /\ \A i \in 1..Len(piece) : piece[i] = logs[i]
  OBVIOUS
<1>2. \A i \in 1..Len(piece) : piece[i] \notin kept
  <2> HIDE DEF piece
  <2>1. \A i \in 1..Len(piece) : piece[i] > synced /\ piece[i] \in Nat
    <3>1. \A i \in 1..Len(logs) : logs[i] \in Nat
      OBVIOUS
    <3>2. \A i \in 1..Len(piece) : i \in 1..Len(logs)
      BY <1>1
    <3> QED BY <1>1, <3>1, <3>2
  <2> QED BY <2>1 DEF UpToBlock
<1>3. torn \in Seq(0..MaxBlock) /\ Len(torn) \in Nat /\ Len(torn) <= 1 /\ \A i \in 1..Len(torn) : torn[i] = 0
  BY TornFacts
<1>4. \A i \in 1..Len(torn) : torn[i] \notin kept
  <2> HIDE DEF kept
  <2>1. 0 \notin kept
    BY DEF kept, UpToBlock
  <2> QED BY <1>3, <2>1
<1> HIDE DEF piece, kept
<1>5. lines \in Seq(0..MaxBlock) /\ piece \in Seq(0..MaxBlock) /\ both \in Seq(0..MaxBlock) /\ both \in Seq(1..MaxBlock)
  <2>1. \A s \in Seq(1..MaxBlock) : s \in Seq(0..MaxBlock)
    OBVIOUS
  <2>2. lines \o piece \in Seq(1..MaxBlock)
    BY <1>1
  <2> QED BY <1>1, <2>1, <2>2
<1>6. Select(piece, kept) = << >> /\ Select(torn, kept) = << >>
  BY <1>2, <1>3, <1>4, <1>5, SelectNone
<1>7. Select(both, kept) = Select(lines, kept)
  <2>1. Select(both, kept) = Select(lines, kept) \o Select(piece, kept)
    BY <1>5, SelectConcat
  <2>2. Select(lines, kept) \in Seq(0..MaxBlock)
    BY <1>5, SelectTyped
  <2>3. Select(lines, kept) \o << >> = Select(lines, kept)
    BY <2>2
  <2> QED BY <1>6, <2>1, <2>3
<1> HIDE DEF both
<1>8. Select(left, kept) = Select(both, kept)
  <2>1. Select(left, kept) = Select(both, kept) \o Select(torn, kept)
    <3>1. both \in Seq(0..MaxBlock) /\ torn \in Seq(0..MaxBlock)
      BY <1>3, <1>5
    <3> QED BY <3>1, SelectConcat
  <2>2. Select(both, kept) \in Seq(0..MaxBlock)
    BY <1>5, SelectTyped
  <2>3. Select(both, kept) \o << >> = Select(both, kept)
    BY <2>2
  <2> QED BY <1>6, <2>1, <2>3
<1>9. left \in Seq(0..MaxBlock)
  BY <1>3, <1>5
<1>10. Sync!Readable(left)
  <2>1. Len(torn) <= 1 /\ Len(torn) \in Nat
    BY <1>3
  <2>2. \A i \in 1..(Len(left) - 1) : left[i] = both[i] /\ i \in 1..Len(both)
    BY <1>3, <1>5, <2>1
  <2>3. \A i \in 1..Len(both) : both[i] # 0
    BY <1>5
  <2> QED BY <2>2, <2>3 DEF Sync!Readable, Sync!Torn
<1> HIDE DEF left
<1>11. Select(left, kept) = Sync!OnChain(f, 1, synced)
  BY <1>7, <1>8 DEF Covers, kept
<1> QED BY <1>9, <1>10, <1>11 DEF Covers, kept, left, both, piece

LEMMA SyncStepEnds ==
  ASSUME SyncInv, Sync!ChainSyncAssumption, Sync!Ends
  PROVE  SyncInv'
<1>0. MaxBlock \in Nat /\ SyncTyped
  BY SyncConstants DEF SyncInv
<1> DEFINE appending == sync.pc = "append" /\ sync.todo # << >>
           f == Head(sync.todo)
           logs == Sync!Fetched(f).logs
<1>1. PICK gone \in BOOLEAN, n \in 0..(IF appending THEN Len(logs) ELSE 0), torn \in {<< >>, << 0 >>} :
        /\ disk' = [disk EXCEPT !.lock = gone, !.faults = @ - 1,
                      !.files = IF ~ appending THEN disk.files
                                ELSE [disk.files EXCEPT ![f] = Sync!Appended(disk.files[f], SubSeq(logs, 1, n)) \o torn]]
        /\ sync' = Sync!Off /\ chain' = chain
  BY DEF Sync!Ends, Sync!At, Sync!Torn
<1>2. disk \in Disks /\ disk.files \in [FileNames -> Seq(0..MaxBlock)] /\ disk.faults \in Int /\ disk.meta.synced \in 0..MaxBlock
  BY <1>0, SyncFields DEF SyncTyped, Disks
<1>3. \E files \in [FileNames -> Seq(0..MaxBlock)] :
        /\ disk' = [disk EXCEPT !.lock = gone, !.faults = @ - 1, !.files = files]
        /\ \A g \in FileNames : Covers(files[g], g, disk.meta.synced)
  <2>1. CASE ~ appending
    <3>1. disk' = [disk EXCEPT !.lock = gone, !.faults = @ - 1, !.files = disk.files]
      BY <1>1, <2>1
    <3> QED BY <1>2, <3>1, FilesAreCovered
  <2>2. CASE appending
    <3> DEFINE left == (disk.files[f] \o SubSeq(logs, 1, n)) \o torn
               files == [disk.files EXCEPT ![f] = left]
    <3>1. /\ f \in FileNames /\ disk.files[f] \in Seq(1..MaxBlock) /\ logs \in Seq(1..MaxBlock)
          /\ \A i \in 1..Len(logs) : logs[i] > disk.meta.synced
      BY <2>2, AppendFacts
    <3>2. Covers(disk.files[f], f, disk.meta.synced)
      BY <3>1, FilesAreCovered
    <3>3. n \in 0..Len(logs)
      BY <1>1, <2>2
    <3>4. Sync!Appended(disk.files[f], SubSeq(logs, 1, n)) = disk.files[f] \o SubSeq(logs, 1, n)
      BY <1>0, <3>1, AppendedIs
    <3>5. disk' = [disk EXCEPT !.lock = gone, !.faults = @ - 1, !.files = files]
      <4> DEFINE piece == SubSeq(logs, 1, n)
      <4>1. disk' = [disk EXCEPT !.lock = gone, !.faults = @ - 1,
                       !.files = [disk.files EXCEPT ![f] = Sync!Appended(disk.files[f], piece) \o torn]]
        <5> HIDE DEF f, files, left, appending
        <5> QED BY <1>1, <2>2
      <4>2. files = [disk.files EXCEPT ![f] = Sync!Appended(disk.files[f], piece) \o torn]
        BY <3>4
      <4> HIDE DEF f, piece, files
      <4> QED BY <4>1, <4>2
    <3>6. left \in Seq(0..MaxBlock) /\ Covers(left, f, disk.meta.synced)
      <4> HIDE DEF f, logs
      <4> QED BY <1>0, <1>2, <3>1, <3>2, <3>3, CutOffIsCovered
    <3> HIDE DEF left, f
    <3>7. files \in [FileNames -> Seq(0..MaxBlock)] /\ \A g \in FileNames : files[g] = IF g = f THEN left ELSE disk.files[g]
      BY <1>2, <3>1, <3>6
    <3> HIDE DEF files
    <3>8. \A g \in FileNames : Covers(files[g], g, disk.meta.synced)
      BY <3>6, <3>7, FilesAreCovered
    <3> QED BY <3>5, <3>7, <3>8
  <2> QED BY <2>1, <2>2
<1>4. PICK files \in [FileNames -> Seq(0..MaxBlock)] :
        /\ disk' = [disk EXCEPT !.lock = gone, !.faults = @ - 1, !.files = files]
        /\ \A g \in FileNames : Covers(files[g], g, disk.meta.synced)
  BY <1>3
<1>5. disk' \in Disks /\ disk'.files = files /\ disk'.meta = disk.meta /\ disk'.stamps = disk.stamps
  <2> DEFINE faults == disk.faults - 1
  <2>1. disk' = [disk EXCEPT !.lock = gone, !.faults = faults, !.files = files] /\ faults \in Int
    BY <1>2, <1>4
  <2> HIDE DEF faults
  <2> QED BY <1>2, <2>1 DEF Disks
<1>6. sync' \in Runs /\ sync'.pc = "off" /\ sync'.family = 1
  BY <1>1, OffFacts
<1>7. SyncTyped'
  BY <1>0, <1>1, <1>5, <1>6 DEF SyncTyped
<1>8. RunInv'
  BY <1>6 DEF RunInv, InChunk
<1>9. FilesInv'
  BY <1>4, <1>5, <1>6 DEF FilesInv
<1>10. StampFaults = {} => StampInv'
  BY <1>5, <1>6 DEF SyncInv, StampInv, Settled, LookedUp
<1> QED BY <1>7, <1>8, <1>9, <1>10 DEF SyncInv

LEMMA SyncStep == SyncInv /\ Sync!ChainSyncAssumption /\ [Sync!Next]_(Sync!vars) => SyncInv'
BY SyncStepAround, SyncStepDiscover, SyncStepState, SyncStepHeight, SyncStepAcquire, SyncStepRewind, SyncStepFetch,
   SyncStepAppend, SyncStepFamily, SyncStepResolve, SyncStepCheckpoint, SyncStepSave, SyncStepEnds DEF Sync!Next

LEMMA CompleteFromInv ==
  SyncInv /\ Sync!ChainSyncAssumption => Sync!FilesMatchChain /\ (StampFaults = {} => Sync!EventBlocksAreStamped)
<1> SUFFICES ASSUME SyncInv, Sync!ChainSyncAssumption PROVE Sync!FilesMatchChain /\ (StampFaults = {} => Sync!EventBlocksAreStamped)
  OBVIOUS
<1>1. Sync!FilesMatchChain
  <2>1. \A f \in FileNames : Covers(disk.files[f], f, disk.meta.synced)
    BY FilesAreCovered
  <2>2. \A f : Sync!Select(disk.files[f], {b \in Sync!Blocks : b <= disk.meta.synced}) = Select(disk.files[f], UpToBlock(disk.meta.synced))
    BY SyncSelect DEF UpToBlock, Sync!Blocks
  <2> QED BY <2>1, <2>2, FamiliesFacts DEF Covers, Sync!FilesMatchChain
<1>2. StampFaults = {} => Sync!EventBlocksAreStamped
  BY DEF SyncInv, StampInv, Settled, Sync!EventBlocksAreStamped
<1> QED BY <1>1, <1>2

-----------------------------------------------------------------------------
(* PriceSync: every minute that the cursor has passed has a candle. *)

Line == [t : Nat, trades : SUBSET Nat]
Times == Nat \cup {-1}
Markets == [minutes : Seq(Nat), now : Nat, source : {"kraken", "kraken-futures"}]
Stores == [lines : Seq(Line), cursor : Nat, lastT : Times, faults : Int]
Jobs == [pc : {"off", "kraken", "kraken-futures", "append", "save"}, at : Nat, got : SUBSET Nat, cursor : Nat, lastT : Times]
PricesTyped == market \in Markets /\ store \in Stores /\ job \in Jobs

\* The minutes of the trades are in order, and none is in the future.
TradesInOrder ==
  /\ \A i \in 1..Len(market.minutes) : market.minutes[i] <= market.now
  /\ \A i, j \in 1..Len(market.minutes) : i <= j => market.minutes[i] <= market.minutes[j]

Futures == market.source = "kraken-futures"
HasLine(lines, minute) == \E k \in 1..Len(lines) : lines[k].t = minute

\* What the cursor, or with futures the last minute, has passed, has a line.
Priced(lines, cursor, lastT) ==
  \A i \in 1..Len(market.minutes) :
    i <= cursor \/ (Futures /\ market.minutes[i] <= lastT) => HasLine(lines, market.minutes[i])

\* A cursor and a last minute that can be saved.
Saveable(lines, cursor, lastT) ==
  /\ Priced(lines, cursor, lastT) /\ cursor <= Len(market.minutes)
  /\ lastT <= market.now /\ (lastT # -1 => HasLine(lines, lastT))

Fetching(at) == at \in {"kraken", "kraken-futures", "append"}

\* What a sync has fetched goes on where the store ends, with no trade left out.
Gapless ==
  /\ job.lastT = store.lastT /\ job.cursor <= Len(market.minutes) /\ job.got \subseteq 1..Len(market.minutes)
  /\ \A i \in 1..Len(market.minutes) : i <= job.cursor => i <= store.cursor \/ i \in job.got
  /\ job.pc = "kraken" => ~ Futures
  /\ job.pc = "kraken-futures" => job.cursor = store.cursor
  /\ job.pc = "append" /\ Futures =>
       \A i \in 1..Len(market.minutes) : market.minutes[i] > store.lastT /\ i \notin job.got
         => \A j \in job.got : market.minutes[j] <= market.minutes[i]

PricesInv ==
  /\ PricesTyped /\ TradesInOrder
  /\ Saveable(store.lines, store.cursor, store.lastT)
  /\ Fetching(job.pc) => Gapless
  /\ job.pc = "save" => Saveable(store.lines, job.cursor, job.lastT)

LEMMA PricesFields ==
  ASSUME PricesTyped
  PROVE  /\ market.minutes \in Seq(Nat) /\ Len(market.minutes) \in Nat /\ market.now \in Nat
         /\ store.lines \in Seq(Line) /\ store.cursor \in Nat /\ store.lastT \in Times /\ store.faults \in Int
         /\ job.pc \in {"off", "kraken", "kraken-futures", "append", "save"} /\ job.at \in Nat
         /\ job.got \in SUBSET Nat /\ job.cursor \in Nat /\ job.lastT \in Times
         /\ \A i \in 1..Len(market.minutes) : market.minutes[i] \in Nat
BY DEF PricesTyped, Markets, Stores, Jobs

LEMMA PricesInit == Prices!PriceSyncAssumption /\ Prices!Init => PricesInv
<1> SUFFICES ASSUME Prices!PriceSyncAssumption, Prices!Init PROVE PricesInv
  OBVIOUS
<1>1. PICK s \in Sources : market = [minutes |-> << >>, now |-> 0, source |-> s]
  BY DEF Prices!Init
<1>2. s \in {"kraken", "kraken-futures"} /\ MaxFaults["prices"] \in Nat
  BY DEF Prices!PriceSyncAssumption
<1>3. store = [lines |-> << >>, cursor |-> 0, lastT |-> -1, faults |-> MaxFaults["prices"]]
  BY DEF Prices!Init, Prices!NoTime
<1>4. job = [pc |-> "off", at |-> 0, got |-> {}, cursor |-> 0, lastT |-> -1]
  BY DEF Prices!Init, Prices!Off, Prices!NoTime
<1>5. PricesTyped
  <2>1. market \in Markets
    BY <1>1, <1>2 DEF Markets
  <2>2. store \in Stores
    BY <1>2, <1>3 DEF Stores, Times
  <2>3. job \in Jobs
    BY <1>4 DEF Jobs, Times
  <2> QED BY <2>1, <2>2, <2>3 DEF PricesTyped
<1>6. Len(market.minutes) = 0 /\ market.now = 0
  BY <1>1
<1>7. TradesInOrder
  BY <1>6 DEF TradesInOrder
<1>8. Saveable(store.lines, store.cursor, store.lastT)
  BY <1>3, <1>6 DEF Saveable, Priced
<1> QED BY <1>4, <1>5, <1>7, <1>8 DEF PricesInv, Fetching

LEMMA PricesSelect ==
  ASSUME NEW s, NEW kept
  PROVE  Prices!Select(s, kept) = Select(s, kept)
BY DEF Prices!Select, Select

\* The candles of trades: one for the minute of every trade and no other, the last one the latest.
CandlesOf(candles, got) ==
  /\ candles \in Seq(Line)
  /\ \A i \in got : HasLine(candles, market.minutes[i])
  /\ \A k \in 1..Len(candles) : \E i \in got : candles[k].t = market.minutes[i]
  /\ \A k \in 1..Len(candles) : candles[k].t <= candles[Len(candles)].t

LEMMA CandlesFacts ==
  ASSUME PricesTyped, TradesInOrder, NEW got \in SUBSET (1..Len(market.minutes))
  PROVE  CandlesOf(Prices!aggregateToCandles(got), got)
<1> DEFINE length == market.now + 1
           all == [k \in 1..length |-> k - 1]
           kept == {market.minutes[i] : i \in got}
           minutes == Select(all, kept)
           candles == [k \in 1..Len(minutes) |-> [t |-> minutes[k], trades |-> {i \in got : market.minutes[i] = minutes[k]}]]
<1>1. Prices!aggregateToCandles(got) = candles
  BY PricesSelect DEF Prices!aggregateToCandles
<1>2. market.now \in Nat /\ market.minutes \in Seq(Nat) /\ \A i \in got : market.minutes[i] \in Nat /\ market.minutes[i] <= market.now
  BY PricesFields DEF TradesInOrder
<1>3. all \in Seq(Nat) /\ Len(all) = market.now + 1 /\ \A k \in 1..(market.now + 1) : all[k] = k - 1
  <2>1. length \in Nat
    BY <1>2
  <2>2. all \in Seq(Nat) /\ Len(all) = length /\ \A k \in 1..length : all[k] = k - 1
    <3> HIDE DEF length
    <3> QED BY <2>1
  <2> QED BY <2>2
<1>4. Increasing(all)
  BY <1>2, <1>3 DEF Increasing
<1>5. \A m \in kept : m + 1 \in 1..Len(all) /\ all[m + 1] = m
  BY <1>2, <1>3
<1>6. \A m \in kept : \E i \in got : m = market.minutes[i]
  OBVIOUS
<1>7. \A i \in got : market.minutes[i] \in kept
  OBVIOUS
<1> HIDE DEF all, kept
<1>8. minutes \in Seq(Nat) /\ Increasing(minutes) /\ Holds(minutes, all, Len(all), kept)
  BY <1>3, <1>4, SelectTyped, SelectIncreasing, SelectElements
<1> HIDE DEF minutes
<1>9. candles \in Seq(Line) /\ Len(candles) = Len(minutes) /\ \A k \in 1..Len(minutes) : candles[k].t = minutes[k]
  <2>1. \A k \in 1..Len(minutes) : [t |-> minutes[k], trades |-> {i \in got : market.minutes[i] = minutes[k]}] \in Line
    <3>1. SUFFICES ASSUME NEW k \in 1..Len(minutes), NEW those, those = {i \in got : market.minutes[i] = minutes[k]}
                   PROVE  [t |-> minutes[k], trades |-> those] \in Line
      OBVIOUS
    <3>2. those \in SUBSET Nat
      <4>1. those \subseteq got
        BY <3>1
      <4>2. got \subseteq Nat
        <5>1. \A i \in 1..Len(market.minutes) : i \in Nat
          OBVIOUS
        <5> QED BY <5>1
      <4> QED BY <4>1, <4>2
    <3>3. minutes[k] \in Nat
      BY <1>8
    <3> QED BY <3>2, <3>3 DEF Line
  <2> DEFINE Candle(k) == [t |-> minutes[k], trades |-> {i \in got : market.minutes[i] = minutes[k]}]
             n == Len(minutes)
  <2>2. n \in Nat /\ \A k \in 1..n : Candle(k) \in Line /\ Candle(k).t = minutes[k]
    BY <1>8, <2>1
  <2>3. candles = [k \in 1..n |-> Candle(k)]
    OBVIOUS
  <2> HIDE DEF candles, Candle, n
  <2>4. candles \in Seq(Line) /\ Len(candles) = n /\ \A k \in 1..n : candles[k] = Candle(k)
    BY <2>2, <2>3
  <2> QED BY <2>2, <2>4 DEF n
<1> HIDE DEF candles
<1>10. \A i \in got : HasLine(candles, market.minutes[i])
  <2>1. SUFFICES ASSUME NEW i \in got PROVE \E k \in 1..Len(minutes) : minutes[k] = market.minutes[i]
    BY <1>9 DEF HasLine
  <2>2. market.minutes[i] \in kept /\ market.minutes[i] + 1 \in 1..Len(all) /\ all[market.minutes[i] + 1] = market.minutes[i]
    BY <1>5, <1>7
  <2> QED BY <1>8, <2>2 DEF Holds
<1>11. \A k \in 1..Len(candles) : \E i \in got : candles[k].t = market.minutes[i]
  <2>1. \A k \in 1..Len(minutes) : minutes[k] \in kept
    BY <1>8 DEF Holds
  <2> QED BY <1>6, <1>9, <2>1
<1>12. \A k \in 1..Len(candles) : candles[k].t <= candles[Len(candles)].t
  <2>1. \A k \in 1..Len(minutes) : Len(minutes) \in 1..Len(minutes) /\ minutes[k] \in Nat /\ (k = Len(minutes) \/ k < Len(minutes))
    BY <1>8
  <2>2. \A k \in 1..Len(minutes) : minutes[k] <= minutes[Len(minutes)]
    BY <2>1, <1>8 DEF Increasing
  <2> QED BY <1>9, <2>1, <2>2
<1> QED BY <1>1, <1>9, <1>10, <1>11, <1>12 DEF CandlesOf

\* Lines are only added: none is torn.
LEMMA LinesGrow ==
  ASSUME NEW lines \in Seq(Line), NEW more \in Seq(Line)
  PROVE  /\ Prices!Appended(lines, more) = lines \o more /\ lines \o more \in Seq(Line)
         /\ \A m : HasLine(lines, m) \/ HasLine(more, m) => HasLine(lines \o more, m)
<1>1. \A k \in 1..Len(lines) : lines[k] # Prices!Torn
  <2>1. \A k \in 1..Len(lines) : lines[k].t # -1
    <3>1. \A k \in 1..Len(lines) : lines[k] \in Line
      OBVIOUS
    <3>2. \A l \in Line : l.t \in Nat
      BY DEF Line
    <3> QED BY <3>1, <3>2
  <2>2. Prices!Torn.t = -1
    BY DEF Prices!Torn, Prices!NoTime
  <2> QED BY <2>1, <2>2
<1>2. Prices!Appended(lines, more) = lines \o more
  <2>1. lines # << >> => Len(lines) \in 1..Len(lines)
    OBVIOUS
  <2> QED BY <1>1, <2>1 DEF Prices!Appended, Prices!Last
<1> DEFINE both == lines \o more
<1>3. /\ both \in Seq(Line) /\ Len(both) = Len(lines) + Len(more) /\ Len(lines) \in Nat /\ Len(more) \in Nat
      /\ (\A k \in 1..Len(lines) : both[k] = lines[k]) /\ (\A k \in 1..Len(more) : both[Len(lines) + k] = more[k])
  OBVIOUS
<1> HIDE DEF both
<1>4. \A m : HasLine(lines, m) => HasLine(both, m)
  BY <1>3 DEF HasLine
<1>5. \A m : HasLine(more, m) => HasLine(both, m)
  <2>1. \A k \in 1..Len(more) : Len(lines) + k \in 1..Len(both) /\ both[Len(lines) + k] = more[k]
    BY <1>3
  <2> QED BY <2>1 DEF HasLine
<1> QED BY <1>2, <1>3, <1>4, <1>5 DEF both

\* A step of the sync that leaves market and store alone.
LEMMA JobMoves ==
  ASSUME PricesInv, market' = market, store' = store, job' \in Jobs,
         Fetching(job'.pc) => Gapless', job'.pc # "save"
  PROVE  PricesInv'
<1>1. PricesTyped' /\ TradesInOrder'
  BY DEF PricesInv, PricesTyped, TradesInOrder
<1>2. Saveable(store.lines, store.cursor, store.lastT)'
  BY DEF PricesInv, Saveable, Priced, Futures
<1> QED BY <1>1, <1>2 DEF PricesInv

\* A step that ends the sync and adds lines.
LEMMA StoppedWithLines ==
  ASSUME PricesInv, market' = market, job' = Prices!Off, NEW more \in Seq(Line), store' \in Stores,
         store'.lines = store.lines \o more, store'.cursor = store.cursor, store'.lastT = store.lastT
  PROVE  PricesInv'
<1>1. job' \in Jobs /\ job'.pc = "off"
  BY DEF Prices!Off, Prices!NoTime, Jobs, Times
<1>2. PricesTyped' /\ TradesInOrder'
  BY <1>1 DEF PricesInv, PricesTyped, TradesInOrder
<1>3. store.lines \in Seq(Line)
  BY PricesFields DEF PricesInv
<1>4. \A m : HasLine(store.lines, m) => HasLine(store'.lines, m)
  BY <1>3, LinesGrow
<1>5. Priced(store.lines, store.cursor, store.lastT)'
  BY <1>4 DEF PricesInv, Saveable, Priced, Futures
<1>6. Saveable(store.lines, store.cursor, store.lastT)'
  BY <1>4, <1>5 DEF PricesInv, Saveable
<1> QED BY <1>1, <1>2, <1>6 DEF PricesInv, Fetching

LEMMA PricesStepStart == ASSUME PricesInv, Prices!StartSync PROVE PricesInv'
<1>0. PricesTyped
  BY DEF PricesInv
<1>1. /\ market' = market /\ store' = store
      /\ job' = [pc |-> market.source, at |-> market.now, got |-> {}, cursor |-> store.cursor, lastT |-> store.lastT]
  BY DEF Prices!StartSync, Prices!Off
<1>2. job' \in Jobs
  <2>1. market.source \in {"kraken", "kraken-futures"}
    BY <1>0 DEF PricesTyped, Markets
  <2> QED BY <1>0, <1>1, <2>1, PricesFields DEF Jobs
<1>3. job'.pc = market.source /\ job'.got = {} /\ job'.cursor = store.cursor /\ job'.lastT = store.lastT
  BY <1>1
<1>4. market.source \in {"kraken", "kraken-futures"}
  BY <1>0 DEF PricesTyped, Markets
<1>5. Gapless'
  BY <1>0, <1>1, <1>3, <1>4 DEF Gapless, Futures, PricesInv, Saveable
<1>6. job'.pc # "save"
  BY <1>3, <1>4
<1> QED BY <1>1, <1>2, <1>5, <1>6, JobMoves

LEMMA PricesStepTrades ==
  ASSUME PricesInv, Prices!PriceSyncAssumption, Prices!fetchKrakenTrades
  PROVE  PricesInv'
<1>0. PricesTyped /\ Gapless /\ job.pc = "kraken" /\ market' = market /\ store' = store
  BY DEF PricesInv, Prices!fetchKrakenTrades, Prices!At, Fetching
<1> DEFINE size == Len(market.minutes)
           page == {i \in 1..size : i > job.cursor /\ i <= job.cursor + PageSize}
<1>1. size \in Nat /\ job.cursor \in Nat /\ PageSize \in Nat \ {0} /\ store.cursor \in Nat
  BY <1>0, PricesFields DEF Prices!PriceSyncAssumption
<1>2. CASE page = {}
  <2>1. job' = [job EXCEPT !.pc = "append"]
    BY <1>2 DEF Prices!fetchKrakenTrades, Prices!Trades
  <2>2. job' \in Jobs /\ job'.pc = "append" /\ job'.got = job.got /\ job'.cursor = job.cursor /\ job'.lastT = job.lastT
    BY <1>0, <2>1 DEF PricesTyped, Jobs
  <2>3. Gapless'
    BY <1>0, <2>2 DEF Gapless, Futures
  <2> QED BY <1>0, <2>2, <2>3, JobMoves
<1>3. CASE page # {}
  <2> DEFINE last == Prices!Max(page)
             got == job.got \cup page
             to == IF job.at - market.minutes[last] < 2 THEN "append" ELSE job.pc
  <2>1. last \in page /\ \A i \in page : i <= last
    <3> DEFINE m == IF size <= job.cursor + PageSize THEN size ELSE job.cursor + PageSize
    <3>1. m \in page /\ \A i \in page : m >= i
      BY <1>1, <1>3
    <3>2. last = CHOOSE x \in page : \A y \in page : x >= y
      BY DEF Prices!Max
    <3> HIDE DEF page, m, last
    <3>3. last \in page /\ \A y \in page : last >= y
      BY <3>1, <3>2
    <3>4. \A y \in page : y \in Nat
      BY <1>1 DEF page
    <3> QED BY <3>3, <3>4
  <2>2. job' = [job EXCEPT !.got = got, !.cursor = last, !.pc = to]
    BY <1>3 DEF Prices!fetchKrakenTrades, Prices!Trades
  <2>3. to \in {"append", "kraken"}
    BY <1>0
  <2>4. last \in 1..size /\ last > job.cursor /\ last <= job.cursor + PageSize
    BY <2>1
  <2>5. \A i \in 1..size : i <= last => i <= job.cursor \/ i \in page
    BY <1>1, <2>4
  <2>6. got \subseteq 1..size
    BY <1>0 DEF Gapless
  <2> HIDE DEF page, last, got, to
  <2>7. got \in SUBSET Nat /\ last \in Nat
    <3>1. \A i \in 1..size : i \in Nat
      BY <1>1
    <3> QED BY <2>4, <2>6, <3>1
  <2>8. job' \in Jobs /\ job'.pc = to /\ job'.got = got /\ job'.cursor = last /\ job'.lastT = job.lastT
    BY <1>0, <2>2, <2>3, <2>7 DEF PricesTyped, Jobs
  <2>9. \A i \in 1..size : i <= last => i <= store.cursor \/ i \in got
    BY <1>0, <2>5 DEF Gapless, got
  <2>10. Gapless'
    BY <1>0, <1>1, <2>3, <2>4, <2>6, <2>8, <2>9 DEF Gapless, Futures
  <2> QED BY <1>0, <2>3, <2>8, <2>10, JobMoves
<1> QED BY <1>2, <1>3

LEMMA PricesStepFutures == ASSUME PricesInv, Prices!fetchKrakenFuturesCandles PROVE PricesInv'
<1>0. PricesTyped /\ Gapless /\ job.pc = "kraken-futures" /\ market' = market /\ store' = store
  BY DEF PricesInv, Prices!fetchKrakenFuturesCandles, Prices!At, Fetching
<1> DEFINE got == {i \in 1..Len(market.minutes) : market.minutes[i] > job.lastT}
<1>1. job' = [job EXCEPT !.got = got, !.pc = "append"]
  BY DEF Prices!fetchKrakenFuturesCandles, Prices!Trades
<1>2. got \subseteq 1..Len(market.minutes) /\ \A i \in 1..Len(market.minutes) : market.minutes[i] > job.lastT => i \in got
  OBVIOUS
<1> HIDE DEF got
<1>3. got \in SUBSET Nat
  <2>1. \A i \in 1..Len(market.minutes) : i \in Nat
    BY <1>0, PricesFields
  <2> QED BY <1>2, <2>1
<1>4. job' \in Jobs /\ job'.pc = "append" /\ job'.got = got /\ job'.cursor = job.cursor /\ job'.lastT = job.lastT
  BY <1>0, <1>1, <1>3 DEF PricesTyped, Jobs
<1>5. Gapless'
  BY <1>0, <1>2, <1>4 DEF Gapless, Futures
<1> QED BY <1>0, <1>4, <1>5, JobMoves

LEMMA PricesStepAppend == ASSUME PricesInv, Prices!AppendCandles PROVE PricesInv'
<1> DEFINE candles == Prices!aggregateToCandles(job.got)
<1>0. PricesTyped /\ TradesInOrder /\ Gapless /\ job.pc = "append" /\ market' = market
  BY DEF PricesInv, Prices!AppendCandles, Prices!At, Fetching
<1>1. /\ store' = [store EXCEPT !.lines = Prices!Appended(store.lines, candles)]
      /\ job' = IF candles = << >> THEN Prices!Off ELSE [job EXCEPT !.pc = "save", !.lastT = Prices!Last(candles).t]
  BY DEF Prices!AppendCandles
<1>2. CandlesOf(candles, job.got)
  BY <1>0, CandlesFacts DEF Gapless
<1> HIDE DEF candles
<1>3. store.lines \in Seq(Line) /\ candles \in Seq(Line)
  BY <1>0, <1>2, PricesFields DEF CandlesOf
<1>4. store' = [store EXCEPT !.lines = store.lines \o candles] /\ store.lines \o candles \in Seq(Line)
  BY <1>1, <1>3, LinesGrow
<1>5. store' \in Stores /\ store'.lines = store.lines \o candles /\ store'.cursor = store.cursor /\ store'.lastT = store.lastT
  BY <1>0, <1>4 DEF PricesTyped, Stores
<1>6. CASE candles = << >>
  BY <1>0, <1>1, <1>3, <1>5, <1>6, StoppedWithLines
<1>7. CASE candles # << >>
  <2> DEFINE last == candles[Len(candles)].t
             lines == store.lines \o candles
  <2>1. last \in Nat /\ last = Prices!Last(candles).t /\ HasLine(candles, last)
    <3>1. Len(candles) \in 1..Len(candles)
      BY <1>3, <1>7
    <3>2. candles[Len(candles)] \in Line
      BY <1>3, <3>1
    <3>3. last \in Nat
      BY <3>2 DEF Line
    <3> QED BY <3>1, <3>3 DEF Prices!Last, HasLine
  <2>2. \A m : HasLine(store.lines, m) \/ HasLine(candles, m) => HasLine(lines, m)
    BY <1>3, LinesGrow
  <2>3. \A k \in 1..Len(candles) : candles[k].t <= last
    BY <1>2 DEF CandlesOf
  <2>4. last <= market.now
    <3>1. Len(candles) \in 1..Len(candles)
      BY <1>3, <1>7
    <3>2. PICK i \in job.got : last = market.minutes[i]
      BY <1>2, <3>1 DEF CandlesOf
    <3>3. i \in 1..Len(market.minutes)
      BY <1>0 DEF Gapless
    <3> QED BY <1>0, <3>2, <3>3 DEF TradesInOrder
  <2>5. job' = [job EXCEPT !.pc = "save", !.lastT = last]
    BY <1>1, <1>7, <2>1
  <2>6. \A i \in job.got : market.minutes[i] <= last
    <3>1. SUFFICES ASSUME NEW i \in job.got PROVE market.minutes[i] <= last
      OBVIOUS
    <3>2. PICK k \in 1..Len(candles) : candles[k].t = market.minutes[i]
      BY <1>2 DEF CandlesOf, HasLine
    <3> QED BY <2>3, <3>2
  <2>7. \E i \in job.got : last = market.minutes[i]
    <3>1. Len(candles) \in 1..Len(candles)
      BY <1>3, <1>7
    <3> QED BY <1>2, <3>1 DEF CandlesOf
  <2> HIDE DEF last, lines
  <2>8. job' \in Jobs /\ job'.pc = "save" /\ job'.cursor = job.cursor /\ job'.lastT = last
    BY <1>0, <2>1, <2>5 DEF PricesTyped, Jobs, Times
  <2>9. Priced(lines, store.cursor, store.lastT)
    BY <2>2 DEF PricesInv, Saveable, Priced
  <2>10. Priced(lines, job.cursor, last)
    <3>1. SUFFICES ASSUME NEW i \in 1..Len(market.minutes), i <= job.cursor \/ (Futures /\ market.minutes[i] <= last)
                   PROVE  HasLine(lines, market.minutes[i])
      BY DEF Priced
    <3>2. market.minutes[i] \in Nat /\ store.lastT \in Times
      BY <1>0, PricesFields
    <3>3. CASE i <= store.cursor \/ (Futures /\ market.minutes[i] <= store.lastT)
      BY <2>9, <3>3 DEF Priced
    <3>4. CASE i \in job.got
      BY <1>2, <2>2, <3>4 DEF CandlesOf
    <3>5. CASE ~ (i <= store.cursor) /\ ~ (Futures /\ market.minutes[i] <= store.lastT) /\ i \notin job.got
      <4>1. Futures /\ market.minutes[i] <= last
        BY <1>0, <3>1, <3>5 DEF Gapless
      <4>2. market.minutes[i] > store.lastT
        BY <3>2, <3>5, <4>1 DEF Times
      <4>3. \A j \in job.got : market.minutes[j] <= market.minutes[i]
        BY <1>0, <3>5, <4>1, <4>2 DEF Gapless
      <4>4. last <= market.minutes[i]
        BY <2>7, <4>3
      <4>5. last = market.minutes[i]
        BY <2>1, <3>2, <4>1, <4>4
      <4> QED BY <2>1, <2>2, <4>5
    <3> QED BY <3>3, <3>4, <3>5
  <2>11. PricesTyped' /\ TradesInOrder'
    BY <1>0, <1>5, <2>8 DEF PricesTyped, TradesInOrder
  <2>12. Saveable(store.lines, store.cursor, store.lastT)'
    <3>1. store'.lines = lines
      BY <1>5 DEF lines
    <3>2. Priced(store.lines, store.cursor, store.lastT)'
      BY <1>0, <1>5, <2>9, <3>1 DEF Priced, Futures
    <3>3. store.lastT # -1 => HasLine(lines, store.lastT)
      BY <2>2 DEF PricesInv, Saveable
    <3> QED BY <1>0, <1>5, <3>1, <3>2, <3>3 DEF PricesInv, Saveable
  <2>13. Saveable(store.lines, job.cursor, job.lastT)'
    <3>1. store'.lines = lines
      BY <1>5 DEF lines
    <3>2. Priced(store.lines, job.cursor, job.lastT)'
      BY <1>0, <2>8, <2>10, <3>1 DEF Priced, Futures
    <3>3. HasLine(lines, last)
      BY <2>1, <2>2
    <3> QED BY <1>0, <2>4, <2>8, <3>1, <3>2, <3>3 DEF Gapless, Saveable
  <2> QED BY <2>8, <2>11, <2>12, <2>13 DEF PricesInv, Fetching
<1> QED BY <1>6, <1>7

LEMMA PricesStepSave == ASSUME PricesInv, Prices!SaveMeta PROVE PricesInv'
<1>0. PricesTyped /\ job.pc = "save" /\ market' = market /\ job' = Prices!Off
      /\ store' = [store EXCEPT !.cursor = job.cursor, !.lastT = job.lastT]
  BY DEF PricesInv, Prices!SaveMeta, Prices!At
<1>1. store' \in Stores /\ store'.lines = store.lines /\ store'.cursor = job.cursor /\ store'.lastT = job.lastT
  BY <1>0, PricesFields DEF PricesTyped, Stores
<1>2. job' \in Jobs /\ job'.pc = "off"
  BY <1>0 DEF Prices!Off, Prices!NoTime, Jobs, Times
<1>3. PricesTyped' /\ TradesInOrder'
  BY <1>0, <1>1, <1>2 DEF PricesInv, PricesTyped, TradesInOrder
<1>4. Saveable(store.lines, store.cursor, store.lastT)'
  BY <1>0, <1>1 DEF PricesInv, Saveable, Priced, Futures
<1> QED BY <1>2, <1>3, <1>4 DEF PricesInv, Fetching

LEMMA PricesStepEnds ==
  ASSUME PricesInv, TornLines = FALSE, Prices!Ends
  PROVE  PricesInv'
<1> DEFINE candles == Prices!aggregateToCandles(job.got)
           bound == IF Prices!At("append") THEN Len(candles) ELSE 0
<1>0. PricesTyped /\ TradesInOrder /\ market' = market /\ job' = Prices!Off
  BY DEF PricesInv, Prices!Ends
<1>1. PICK n \in 0..bound :
        store' = [store EXCEPT !.lines = Prices!Appended(store.lines, SubSeq(candles, 1, n)) \o << >>, !.faults = store.faults - 1]
  <2>1. {<< >>} \cup (IF TornLines THEN {<<Prices!Torn>>} ELSE {}) = {<< >>}
    OBVIOUS
  <2> QED BY <2>1 DEF Prices!Ends
<1> DEFINE more == SubSeq(candles, 1, n)
<1>2. more \in Seq(Line)
  <2>1. CASE Prices!At("append")
    <3>1. job.got \in SUBSET (1..Len(market.minutes))
      BY <2>1 DEF PricesInv, Fetching, Gapless, Prices!At
    <3>2. candles \in Seq(Line)
      BY <1>0, <3>1, CandlesFacts DEF CandlesOf
    <3>3. n \in 0..Len(candles)
      BY <2>1
    <3> HIDE DEF candles
    <3> QED BY <3>2, <3>3
  <2>2. CASE ~ Prices!At("append")
    <3>1. n = 0
      BY <2>2
    <3> HIDE DEF candles
    <3>2. more = << >>
      BY <3>1
    <3> QED BY <3>2
  <2> QED BY <2>1, <2>2
<1> HIDE DEF more, candles
<1>3. store.lines \in Seq(Line) /\ store.faults \in Int
  BY <1>0, PricesFields
<1>4. Prices!Appended(store.lines, more) = store.lines \o more /\ store.lines \o more \in Seq(Line)
  BY <1>2, <1>3, LinesGrow
<1> DEFINE lines == store.lines \o more
           faults == store.faults - 1
<1>5. store' = [store EXCEPT !.lines = lines, !.faults = faults] /\ lines \in Seq(Line) /\ faults \in Int
  <2>1. Prices!Appended(store.lines, more) \o << >> = lines
    BY <1>4
  <2>2. store' = [store EXCEPT !.lines = Prices!Appended(store.lines, more) \o << >>, !.faults = faults]
    BY <1>1 DEF more
  <2>3. faults \in Int
    BY <1>3
  <2>4. lines \in Seq(Line)
    BY <1>4
  <2> HIDE DEF lines, faults
  <2> QED BY <2>1, <2>2, <2>3, <2>4
<1> HIDE DEF lines, faults
<1>6. store' \in Stores /\ store'.lines = lines /\ store'.cursor = store.cursor /\ store'.lastT = store.lastT
  BY <1>0, <1>5 DEF PricesTyped, Stores
<1>7. \A x \in Seq(Line) : store'.lines = store.lines \o x => PricesInv'
  <2>1. TAKE x \in Seq(Line)
  <2> QED BY <1>0, <1>6, StoppedWithLines
<1> QED BY <1>2, <1>6, <1>7 DEF lines

LEMMA PricesStepTrade == ASSUME PricesInv, Prices!Trade PROVE PricesInv'
<1> DEFINE minutes == market.minutes
           n == Len(minutes)
           longer == Append(minutes, market.now)
<1>0. PricesTyped /\ TradesInOrder /\ store' = store /\ job' = job /\ market' = [market EXCEPT !.minutes = longer]
  BY DEF PricesInv, Prices!Trade
<1>1. minutes \in Seq(Nat) /\ n \in Nat /\ market.now \in Nat /\ store.cursor \in Nat /\ job.cursor \in Nat
      /\ store.lastT \in Times /\ job.lastT \in Times
  BY <1>0, PricesFields
<1>2. /\ longer \in Seq(Nat) /\ Len(longer) = n + 1 /\ longer[n + 1] = market.now
      /\ \A i \in 1..n : longer[i] = minutes[i]
  BY <1>1
<1> HIDE DEF longer
<1>3. market' \in Markets /\ market'.minutes = longer /\ market'.now = market.now /\ market'.source = market.source
  BY <1>0, <1>2 DEF PricesTyped, Markets
<1>4. \A i \in 1..(n + 1) : i \in 1..n \/ i = n + 1
  BY <1>1
<1>5. PricesTyped'
  BY <1>0, <1>3 DEF PricesTyped
<1>6. (\A i \in 1..n : minutes[i] <= market.now /\ minutes[i] \in Nat) /\ (\A i, j \in 1..n : i <= j => minutes[i] <= minutes[j])
  BY <1>0, <1>1 DEF TradesInOrder
<1> HIDE DEF minutes, n
<1>7. TradesInOrder'
  <2>1. \A i \in 1..(n + 1) : longer[i] <= market.now
    BY <1>1, <1>2, <1>4, <1>6
  <2>2. ASSUME NEW i \in 1..(n + 1), NEW j \in 1..(n + 1), i <= j PROVE longer[i] <= longer[j]
    <3>1. CASE j = n + 1
      BY <1>2, <2>1, <3>1
    <3>2. CASE j \in 1..n
      <4>1. i \in 1..n
        BY <1>1, <2>2, <3>2
      <4> QED BY <1>2, <1>6, <2>2, <3>2, <4>1
    <3> QED BY <1>4, <3>1, <3>2
  <2> QED BY <1>2, <1>3, <2>1, <2>2 DEF TradesInOrder
<1> DEFINE SavedLater(lines, cursor, lastT) ==
             /\ cursor <= n + 1 /\ lastT <= market.now /\ (lastT # -1 => HasLine(lines, lastT))
             /\ \A i \in 1..(n + 1) : i <= cursor \/ (Futures /\ longer[i] <= lastT) => HasLine(lines, longer[i])
<1>8. ASSUME NEW lines, NEW cursor \in Nat, NEW lastT \in Times, Saveable(lines, cursor, lastT)
      PROVE  SavedLater(lines, cursor, lastT)
  <2>1. cursor <= n /\ lastT <= market.now /\ (lastT # -1 => HasLine(lines, lastT))
    BY <1>8 DEF Saveable, n, minutes
  <2>2. ASSUME NEW i \in 1..(n + 1), i <= cursor \/ (Futures /\ longer[i] <= lastT) PROVE HasLine(lines, longer[i])
    <3>1. CASE i \in 1..n
      BY <1>2, <1>8, <2>2, <3>1 DEF Saveable, Priced, n, minutes
    <3>2. CASE i = n + 1
      <4>1. market.now <= lastT
        BY <1>1, <1>2, <2>1, <2>2, <3>2
      <4>2. lastT = market.now /\ lastT # -1
        BY <1>1, <2>1, <4>1 DEF Times
      <4> QED BY <1>2, <2>1, <3>2, <4>2
    <3> QED BY <1>4, <3>1, <3>2
  <2> QED BY <1>1, <2>1, <2>2
<1> HIDE DEF SavedLater
<1>9. Saveable(store.lines, store.cursor, store.lastT)'
  <2>1. Saveable(store.lines, store.cursor, store.lastT)
    BY DEF PricesInv
  <2>2. SavedLater(store.lines, store.cursor, store.lastT)
    BY <1>1, <1>8, <2>1
  <2> QED BY <1>0, <1>2, <1>3, <2>2 DEF Saveable, Priced, Futures, SavedLater
<1>10. (job.pc = "save" => Saveable(store.lines, job.cursor, job.lastT))'
  <2>1. SUFFICES ASSUME job.pc = "save" PROVE Saveable(store.lines, job.cursor, job.lastT)'
    BY <1>0
  <2>2. Saveable(store.lines, job.cursor, job.lastT)
    BY <2>1 DEF PricesInv
  <2>3. SavedLater(store.lines, job.cursor, job.lastT)
    BY <1>1, <1>8, <2>2
  <2> QED BY <1>0, <1>2, <1>3, <2>3 DEF Saveable, Priced, Futures, SavedLater
<1>11. (Fetching(job.pc) => Gapless)'
  <2>1. SUFFICES ASSUME Fetching(job.pc) PROVE Gapless'
    BY <1>0
  <2>2. Gapless
    BY <2>1 DEF PricesInv
  <2>3. job.got \subseteq 1..n /\ job.cursor <= n
    BY <2>2 DEF Gapless, n, minutes
  <2>4. \A i \in 1..(n + 1) : i <= job.cursor => i <= store.cursor \/ i \in job.got
    BY <1>1, <1>4, <2>2, <2>3 DEF Gapless, n, minutes
  <2>5. job.pc = "append" /\ Futures =>
          \A i \in 1..(n + 1) : longer[i] > store.lastT /\ i \notin job.got => \A j \in job.got : longer[j] <= longer[i]
    <3>1. SUFFICES ASSUME job.pc = "append", Futures, NEW i \in 1..(n + 1), longer[i] > store.lastT, i \notin job.got, NEW j \in job.got
                   PROVE  longer[j] <= longer[i]
      OBVIOUS
    <3>2. j \in 1..n /\ longer[j] = minutes[j]
      BY <1>2, <2>3
    <3>3. CASE i \in 1..n
      BY <1>2, <2>2, <3>1, <3>2, <3>3 DEF Gapless, n, minutes
    <3>4. CASE i = n + 1
      BY <1>2, <1>6, <3>2, <3>4
    <3> QED BY <1>4, <3>3, <3>4
  <2>6. job.got \subseteq 1..(n + 1) /\ job.cursor <= n + 1
    BY <1>1, <2>3
  <2> QED BY <1>0, <1>2, <1>3, <2>2, <2>4, <2>5, <2>6 DEF Gapless, Futures
<1> QED BY <1>5, <1>7, <1>9, <1>10, <1>11 DEF PricesInv

LEMMA PricesStepTick == ASSUME PricesInv, Prices!Tick PROVE PricesInv'
<1> DEFINE later == market.now + 1
<1>0. PricesTyped /\ TradesInOrder /\ store' = store /\ job' = job /\ market' = [market EXCEPT !.now = later]
  BY DEF PricesInv, Prices!Tick
<1>1. market.now \in Nat /\ later \in Nat /\ market.now <= later
  BY <1>0, PricesFields
<1> HIDE DEF later
<1>2. market' \in Markets /\ market'.minutes = market.minutes /\ market'.now = later /\ market'.source = market.source
  BY <1>0, <1>1 DEF PricesTyped, Markets
<1>3. PricesTyped'
  BY <1>0, <1>2 DEF PricesTyped
<1>4. TradesInOrder'
  <2>1. \A i \in 1..Len(market.minutes) : market.minutes[i] \in Nat
    BY <1>0, PricesFields
  <2> QED BY <1>0, <1>1, <1>2, <2>1 DEF TradesInOrder
<1>5. store.lastT \in Times /\ job.lastT \in Times
  BY <1>0, PricesFields
<1>6. Saveable(store.lines, store.cursor, store.lastT)'
  BY <1>0, <1>1, <1>2, <1>5 DEF PricesInv, Saveable, Priced, Futures, Times
<1>7. (job.pc = "save" => Saveable(store.lines, job.cursor, job.lastT))'
  BY <1>0, <1>1, <1>2, <1>5 DEF PricesInv, Saveable, Priced, Futures, Times
<1>8. (Fetching(job.pc) => Gapless)'
  BY <1>0, <1>2 DEF PricesInv, Gapless, Futures
<1> QED BY <1>3, <1>4, <1>6, <1>7, <1>8 DEF PricesInv

LEMMA PricesStep == PricesInv /\ Prices!PriceSyncAssumption /\ TornLines = FALSE /\ [Prices!Next]_(Prices!vars) => PricesInv'
<1> SUFFICES ASSUME PricesInv, Prices!PriceSyncAssumption, TornLines = FALSE, [Prices!Next]_(Prices!vars) PROVE PricesInv'
  OBVIOUS
<1>1. CASE UNCHANGED Prices!vars
  BY <1>1 DEF Prices!vars, PricesInv, PricesTyped, TradesInOrder, Saveable, Priced, Futures, Fetching, Gapless
<1>2. CASE Prices!Next
  BY <1>2, PricesStepStart, PricesStepTrades, PricesStepFutures, PricesStepAppend, PricesStepSave, PricesStepEnds,
     PricesStepTrade, PricesStepTick DEF Prices!Next
<1> QED BY <1>1, <1>2

\* Of the lines of a minute there is a last one.
LEMMA LastLine ==
  ASSUME NEW lines \in Seq(Line), NEW m, HasLine(lines, m)
  PROVE  \E k \in 1..Len(lines) : lines[k].t = m /\ \A j \in 1..Len(lines) : lines[j].t = m => j <= k
<1> DEFINE S == {x \in 0..Len(lines) : Len(lines) - x \in 1..Len(lines) /\ lines[Len(lines) - x].t = m}
<1>1. S \subseteq Nat /\ S # {}
  <2>1. PICK k \in 1..Len(lines) : lines[k].t = m
    BY DEF HasLine
  <2>2. Len(lines) - k \in S
    BY <2>1
  <2>3. S \subseteq Nat
    OBVIOUS
  <2> HIDE DEF S
  <2> QED BY <2>2, <2>3
<1>2. PICK x \in S : \A y \in S : x <= y
  <2> HIDE DEF S
  <2> QED BY <1>1, LeastOf
<1>3. ASSUME NEW j \in 1..Len(lines), lines[j].t = m PROVE j <= Len(lines) - x
  <2>1. Len(lines) - j \in S
    BY <1>3
  <2>2. x <= Len(lines) - j /\ x \in Nat
    BY <1>1, <1>2, <2>1
  <2> QED BY <2>2
<1> QED BY <1>2, <1>3

LEMMA PricedFromInv == PricesInv => Prices!MinutesArePriced
<1> SUFFICES ASSUME PricesInv PROVE Prices!MinutesArePriced
  OBVIOUS
<1> DEFINE lines == store.lines
<1>1. lines \in Seq(Line)
  BY PricesFields DEF PricesInv
<1> HIDE DEF lines
<1>2. \A k \in 1..Len(lines) : lines[k] # Prices!Torn
  <2>1. \A k \in 1..Len(lines) : lines[k].t # -1
    <3>1. \A k \in 1..Len(lines) : lines[k] \in Line
      BY <1>1
    <3>2. \A l \in Line : l.t \in Nat
      BY DEF Line
    <3> QED BY <3>1, <3>2
  <2>2. Prices!Torn.t = -1
    BY DEF Prices!Torn, Prices!NoTime
  <2> QED BY <2>1, <2>2
<1>3. Prices!Readable
  BY <1>1, <1>2 DEF Prices!Readable, lines
<1>4. Prices!Candles = 1..Len(lines)
  BY <1>1, <1>2 DEF Prices!Candles, lines
<1>5. ASSUME NEW m, HasLine(lines, m) PROVE \E c \in Prices!Loaded : c.t = m
  <2>1. PICK k \in 1..Len(lines) : lines[k].t = m /\ \A j \in 1..Len(lines) : lines[j].t = m => j <= k
    BY <1>1, <1>5, LastLine
  <2>2. lines[k] \in Prices!Loaded
    BY <1>4, <2>1 DEF Prices!Loaded, lines
  <2> QED BY <2>1, <2>2
<1>6. ASSUME NEW i \in Prices!Trades, i <= store.cursor \/ (market.source = "kraken-futures" /\ market.minutes[i] <= store.lastT)
      PROVE  HasLine(lines, market.minutes[i])
  BY <1>6 DEF PricesInv, Saveable, Priced, Futures, Prices!Trades, lines
<1> QED BY <1>3, <1>5, <1>6 DEF Prices!MinutesArePriced

\* The files of events are complete whatever the timestamps' file does, and every crash and
\* error included (agentintel/sync.go: rewindUncommittedEvents, filterLogsBatched, saveMeta).
THEOREM EventFilesComplete == Spec => [](part = "sync" => Sync!FilesMatchChain)
<1> DEFINE Inv == part = "sync" => SyncInv
<1>1. Inv => (part = "sync" => Sync!FilesMatchChain)
  BY ServicesAssumption, CompleteFromInv
<1>2. Init => Inv
  BY ServicesAssumption, SyncInit DEF Init
<1>3. Inv /\ [Next]_vars => Inv'
  BY ServicesAssumption, StepOfSync, SyncStep
<1> QED BY <1>1, <1>2, <1>3, PTL DEF Spec

\* With a timestamps' file that can be read and written, every block that meta.json covers is also
\* stamped or still asked for; and when no line of candles is cut off, every minute with a trade
\* that the saved cursor has passed has a candle (agentintel/sync.go, store.go, market.go).
THEOREM DownloadsComplete ==
  ASSUME StampFaults = {}, TornLines = FALSE
  PROVE  Spec => []DownloadsAreComplete
<1> DEFINE Inv == (part = "sync" => SyncInv) /\ (part = "prices" => PricesInv)
<1>1. Inv => DownloadsAreComplete
  BY ServicesAssumption, CompleteFromInv, PricedFromInv DEF DownloadsAreComplete
<1>2. Init => Inv
  BY ServicesAssumption, SyncInit, PricesInit DEF Init
<1>3. Inv /\ [Next]_vars => Inv'
  BY ServicesAssumption, StepOfSync, SyncStep, StepOfPrices, PricesStep
<1> QED BY <1>1, <1>2, <1>3, PTL DEF Spec

=============================================================================
