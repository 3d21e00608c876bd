----------------------------- MODULE AgentProofs -----------------------------
(***************************************************************************)
(* The services an agent works with: the sandboxes its code runs in, the   *)
(* alerts that wake it and the chat that shows what it says.  For all      *)
(* values of their constants: any numbers of calls, servers, alerts,       *)
(* pieces of output, restarts and failures.                                *)
(***************************************************************************)
EXTENDS Services, FiniteSetTheorems, TLAPS

-----------------------------------------------------------------------------
(* A behaviour of Services is one of the service that `part` names. *)

LEMMA StepOfBoxes == (part = "sandbox")' /\ [Next]_vars => part = "sandbox" /\ [Boxes!Next]_(Boxes!vars)
BY DEF Next, vars, Boxes!vars, BoxesVars

LEMMA StepOfAnalytic == (part = "analytic")' /\ [Next]_vars => part = "analytic" /\ [Analytic!Next]_(Analytic!vars)
BY DEF Next, vars, Analytic!vars, AnalyticVars

LEMMA StepOfAlerts == (part = "alerts")' /\ [Next]_vars => part = "alerts" /\ [Alerts!Next]_(Alerts!vars)
BY DEF Next, vars, Alerts!vars, AlertsVars

LEMMA StepOfTelegram == (part = "telegram")' /\ [Next]_vars => part = "telegram" /\ [Telegram!Next]_(Telegram!vars)
BY DEF Next, vars, Telegram!vars, TelegramVars

-----------------------------------------------------------------------------
(* The sandbox of the trading agents.  The sentinel stands only while a call that set it is at    *)
(* work, and a call waits only while it stands; when it falls, everybody who waits is woken.      *)

BoxInv ==
  /\ DOMAIN call = PoolCalls /\ \A c \in PoolCalls : {"pc", "id"} \subseteq DOMAIN call[c]
  /\ Boxes!NobodyWaitsInVain

\* What a step may do: nobody but those it is about changes state.
BoxMoves(c) ==
  /\ DOMAIN call' = PoolCalls
  /\ \A d \in PoolCalls : {"pc", "id"} \subseteq DOMAIN call'[d]
  /\ \/ /\ \A d \in PoolCalls \ {c} : call'[d] = call[d]
        /\ \/ /\ creating' = creating
              /\ c \in Boxes!Creators => call'[c].pc \in {"remove", "run", "await", "started", "failed"}
              /\ call'[c].pc = "waiting" => creating
           \/ creating' /\ call'[c].pc = "remove"
     \/ ~ creating' /\ \A d \in PoolCalls : call'[d].pc # "waiting"

LEMMA BoxMovesKeep ==
  ASSUME BoxInv, NEW c \in PoolCalls, BoxMoves(c)
  PROVE  BoxInv'
<1>1. (\E d \in PoolCalls : call'[d].pc = "waiting") => creating'
  BY DEF BoxInv, BoxMoves, Boxes!NobodyWaitsInVain, Boxes!At
<1>2. creating' => \E d \in PoolCalls : call'[d].pc \in {"remove", "run", "await", "started", "failed"}
  BY DEF BoxInv, BoxMoves, Boxes!NobodyWaitsInVain, Boxes!Creators
<1> QED BY <1>1, <1>2 DEF BoxInv, BoxMoves, Boxes!NobodyWaitsInVain, Boxes!Creators, Boxes!At

LEMMA BoxStep == BoxInv /\ [Boxes!Next]_(Boxes!vars) => BoxInv'
<1> SUFFICES ASSUME BoxInv, [Boxes!Next]_(Boxes!vars) PROVE BoxInv'
  OBVIOUS
<1> USE DEF BoxInv, BoxMoves, Boxes!At, Boxes!Goto, Boxes!NoCall, Boxes!Creators
<1>1. ASSUME NEW c \in PoolCalls,
             \/ Boxes!Enter(c) \/ Boxes!Inspect(c) \/ Boxes!InspectFails(c) \/ Boxes!Touch(c) \/ Boxes!Drop(c)
             \/ Boxes!RemoveOld(c) \/ Boxes!DockerRun(c) \/ Boxes!DockerRunFails(c) \/ Boxes!waitForRepl(c)
             \/ Boxes!ReplNotReady(c) \/ Boxes!Register(c) \/ Boxes!GiveUp(c) \/ Boxes!Execute(c)
      PROVE  BoxMoves(c)
  <2>1. CASE Boxes!Enter(c) BY <2>1 DEF Boxes!Enter
  <2>2. CASE Boxes!Inspect(c) BY <2>2 DEF Boxes!Inspect
  <2>3. CASE Boxes!InspectFails(c) BY <2>3 DEF Boxes!InspectFails
  <2>4. CASE Boxes!Touch(c) BY <2>4 DEF Boxes!Touch
  <2>5. CASE Boxes!Drop(c) BY <2>5 DEF Boxes!Drop
  <2>6. CASE Boxes!RemoveOld(c) BY <2>6 DEF Boxes!RemoveOld
  <2>7. CASE Boxes!DockerRun(c) BY <2>7 DEF Boxes!DockerRun
  <2>8. CASE Boxes!DockerRunFails(c) BY <2>8 DEF Boxes!DockerRunFails
  <2>9. CASE Boxes!waitForRepl(c) BY <2>9 DEF Boxes!waitForRepl
  <2>10. CASE Boxes!ReplNotReady(c) BY <2>10 DEF Boxes!ReplNotReady
  <2>11. CASE Boxes!Register(c) BY <2>11 DEF Boxes!Register, Boxes!Broadcast
  <2>12. CASE Boxes!GiveUp(c) BY <2>12 DEF Boxes!GiveUp, Boxes!Broadcast
  <2>13. CASE Boxes!Execute(c) BY <2>13 DEF Boxes!Execute
  <2> QED BY <1>1, <2>1, <2>2, <2>3, <2>4, <2>5, <2>6, <2>7, <2>8, <2>9, <2>10, <2>11, <2>12, <2>13
<1>2. CASE \/ Boxes!IdleTimePasses \/ Boxes!evictIdleContainers \/ Boxes!ReplStarts \/ Boxes!ContainerExits
           \/ UNCHANGED Boxes!vars
  <2>1. UNCHANGED <<creating, call>>
    BY <1>2 DEF Boxes!IdleTimePasses, Boxes!evictIdleContainers, Boxes!ReplStarts, Boxes!ContainerExits, Boxes!vars
  <2> QED BY <2>1 DEF Boxes!NobodyWaitsInVain
<1>3. CASE Boxes!Restart
  BY <1>3 DEF Boxes!Restart, Boxes!NobodyWaitsInVain
<1> QED BY <1>1, <1>2, <1>3, BoxMovesKeep DEF Boxes!Next

LEMMA BoxInit == Boxes!Init => BoxInv
BY DEF Boxes!Init, BoxInv, Boxes!NoCall, Boxes!NobodyWaitsInVain, Boxes!At

-----------------------------------------------------------------------------
(* The analytic sandbox.  A session that was created keeps its work directory and its metadata,   *)
(* which hold the limits it was given and count its tools (RecordsInv).  The session of an id is  *)
(* a struct of its own with these limits and, unless it is stopped, a container; the library's id *)
(* names the same struct, if any (SessionsInv).  Only a session that nobody has under the         *)
(* library's id is resumed, so a resumption never leaves that id with an older struct whose stop  *)
(* would take the container (RequestsInv).                                                        *)

Serving == {"ensure", "touch", "serve", "run", "reply"}

StructType == [id : Nat, cid : Nat, limits : Nat, stopped : BOOLEAN, old : BOOLEAN, busy : BOOLEAN]
VolumeType == [meta : [Analytic!Ids -> [limits : Nat, history : Int]], work : SUBSET Analytic!Ids]
RequestType == [pc : {"idle", "create"} \cup Serving, id : Nat, struct : Nat, new : BOOLEAN]
BookType ==
  [asked : [Analytic!Ids -> Nat], ran : [Analytic!Ids -> Nat], starts : 0..MaxStructs, cids : Nat, faults : Nat]

AnalyticTypes ==
  /\ MaxStructs \in Nat /\ MaxSessions \in Nat
  /\ sessions \in [Analytic!Ids -> 0..MaxStructs] /\ aliases \in [Analytic!Ids -> 0..MaxStructs]
  /\ structs \in [1..MaxStructs -> StructType]
  /\ volume \in VolumeType
  /\ serving \in [Callers -> RequestType]
  /\ book \in BookType
  /\ engine \subseteq [name : Analytic!Ids, cid : Nat]

RecordsInv ==
  \A id \in Analytic!Ids :
    IF book.asked[id] = 0
    THEN volume.meta[id].history < 0 /\ book.ran[id] = 0 /\ sessions[id] = 0
    ELSE id \in volume.work /\ volume.meta[id].limits = book.asked[id] /\ volume.meta[id].history = book.ran[id]

SessionsInv ==
  \A id \in Analytic!Ids :
    /\ aliases[id] \in {0, sessions[id]}
    /\ sessions[id] # 0 =>
         /\ sessions[id] <= book.starts
         /\ structs[sessions[id]].id = id /\ structs[sessions[id]].limits = book.asked[id]
         /\ ~ structs[sessions[id]].stopped => [name |-> id, cid |-> structs[sessions[id]].cid] \in engine

RequestsInv ==
  /\ \A r \in Callers :
       LET q == serving[r] IN
       /\ q.pc = "create" => q.id \in Analytic!Ids /\ book.asked[q.id] # 0 /\ aliases[q.id] = 0
       /\ q.pc \in Serving => q.id \in Analytic!Ids /\ sessions[q.id] # 0 /\ q.struct \in 1..book.starts
       /\ q.new => q.pc \in Serving /\ q.struct = sessions[q.id]
  /\ \A r, q \in Callers : serving[r].pc = "create" /\ serving[q].new => serving[r].id # serving[q].id

AnalyticInv == AnalyticTypes /\ RecordsInv /\ SessionsInv /\ RequestsInv

LEMMA AnalyticFollows ==
  AnalyticInv => Analytic!LimitsSurvive /\ Analytic!ActiveSessionsHaveContainers /\ Analytic!HistoryIsComplete
BY DEF AnalyticInv, AnalyticTypes, BookType, RecordsInv, SessionsInv, Analytic!LimitsSurvive,
       Analytic!ActiveSessionsHaveContainers, Analytic!HistoryIsComplete, Analytic!None

\* What the invariant says of one session.
LEMMA SessionFacts ==
  ASSUME AnalyticInv, NEW id \in Analytic!Ids
  PROVE  /\ sessions[id] \in 0..book.starts /\ book.starts \in 0..MaxStructs /\ MaxStructs \in Nat /\ aliases[id] \in {0, sessions[id]}
         /\ sessions[id] # 0 =>
              /\ sessions[id] \in 1..MaxStructs /\ structs[sessions[id]].id = id
              /\ book.asked[id] # 0 /\ Analytic!HasMeta(id)
<1>1. book.starts \in 0..MaxStructs /\ MaxStructs \in Nat /\ sessions[id] \in 0..MaxStructs
  BY DEF AnalyticInv, AnalyticTypes, BookType
<1>2. aliases[id] \in {0, sessions[id]} /\ (sessions[id] # 0 => sessions[id] <= book.starts /\ structs[sessions[id]].id = id)
  BY DEF AnalyticInv, SessionsInv
<1>3. sessions[id] # 0 => book.asked[id] # 0 /\ volume.meta[id].history = book.ran[id]
  BY DEF AnalyticInv, RecordsInv
<1>4. book.ran[id] \in Nat
  BY DEF AnalyticInv, AnalyticTypes, BookType
<1> QED BY <1>1, <1>2, <1>3, <1>4 DEF Analytic!HasMeta

LEMMA AnalyticInit == ServicesAssumption /\ Analytic!Init => AnalyticInv
BY DEF ServicesAssumption, Analytic!AnalyticSandboxAssumption, Analytic!Init, AnalyticInv, AnalyticTypes, StructType, VolumeType, RequestType, BookType, RecordsInv,
       SessionsInv, RequestsInv, Serving, Analytic!None, Analytic!Idle, Analytic!NoStruct, Analytic!NoMeta, Analytic!Ids

\* The container of a session that is started: the one that has its name, or a new one.
LEMMA ContainerStarts ==
  ASSUME AnalyticInv, NEW id \in Analytic!Ids
  PROVE  /\ Analytic!Started(id) \subseteq [name : Analytic!Ids, cid : Nat] /\ engine \subseteq Analytic!Started(id)
         /\ Analytic!StartedCid(id) \in Nat /\ Analytic!Cids(id) \in Nat
         /\ [name |-> id, cid |-> Analytic!StartedCid(id)] \in Analytic!Started(id)
<1> USE DEF AnalyticInv, AnalyticTypes, Analytic!Started, Analytic!StartedCid, Analytic!Cids
<1>1. CASE Analytic!Named(id) = {}
  BY <1>1 DEF BookType
<1>2. CASE Analytic!Named(id) # {}
  <2> DEFINE k == CHOOSE k \in Analytic!Named(id) : TRUE
  <2>1. k \in engine /\ k.name = id
    BY <1>2 DEF Analytic!Named
  <2>2. k = [name |-> id, cid |-> k.cid] /\ k.cid \in Nat
    BY <2>1
  <2> QED BY <1>2, <2>1, <2>2 DEF BookType
<1> QED BY <1>1, <1>2

LEMMA InstallKeeps ==
  ASSUME ServicesAssumption, AnalyticInv, NEW r \in Callers, NEW id \in Analytic!Ids, NEW limits \in Nat \ {0}, NEW new \in BOOLEAN,
         Analytic!Install(r, id, limits, new), UNCHANGED aliases,
         IF new THEN id \notin volume.work ELSE serving[r].pc = "create" /\ serving[r].id = id /\ limits = book.asked[id]
  PROVE  AnalyticInv'
<1> DEFINE s == book.starts + 1
<1>0. /\ Analytic!Started(id) \subseteq [name : Analytic!Ids, cid : Nat] /\ engine \subseteq Analytic!Started(id)
      /\ Analytic!StartedCid(id) \in Nat /\ Analytic!Cids(id) \in Nat
      /\ [name |-> id, cid |-> Analytic!StartedCid(id)] \in Analytic!Started(id)
  BY ContainerStarts
<1> USE DEF AnalyticInv
<1>1. /\ s \in 1..MaxStructs
      /\ engine' = Analytic!Started(id)
      /\ structs' = [structs EXCEPT ![s] = Analytic!NewStruct(id, limits)]
      /\ sessions' = [sessions EXCEPT ![id] = s]
      /\ volume' = [volume EXCEPT !.work = @ \cup {id},
                                  !.meta[id] = IF Analytic!HasMeta(id) THEN @ ELSE [limits |-> limits, history |-> 0]]
      /\ serving' = [serving EXCEPT ![r] = [pc |-> "ensure", id |-> id, struct |-> s, new |-> new]]
      /\ book' = [book EXCEPT !.starts = s, !.cids = Analytic!Cids(id), !.asked[id] = IF new THEN limits ELSE @]
  BY SMTT(60) DEF Analytic!Install, AnalyticTypes, ServicesAssumption, Analytic!AnalyticSandboxAssumption, BookType, VolumeType
<1>a. s \in 1..MaxStructs /\ engine' = Analytic!Started(id) /\ aliases' = aliases
  BY <1>1
<1>2. Analytic!NewStruct(id, limits) = [id |-> id, cid |-> Analytic!StartedCid(id), limits |-> limits,
                                       stopped |-> FALSE, old |-> FALSE, busy |-> FALSE]
  BY DEF Analytic!NewStruct
<1>3. id \in Nat
  BY DEF Analytic!Ids
<1>4. /\ sessions' \in [Analytic!Ids -> 0..MaxStructs] /\ sessions'[id] = s
      /\ \A i \in Analytic!Ids \ {id} : sessions'[i] = sessions[i]
  BY <1>1 DEF AnalyticTypes
<1>5. /\ structs' \in [1..MaxStructs -> StructType]
      /\ structs'[s] = Analytic!NewStruct(id, limits) /\ \A t \in 1..MaxStructs \ {s} : structs'[t] = structs[t]
  <2>1. Analytic!NewStruct(id, limits) \in StructType
    BY <1>2, <1>3, <1>0 DEF StructType
  <2>2. structs \in [1..MaxStructs -> StructType]
    BY DEF AnalyticTypes
  <2> QED BY <1>1, <2>1, <2>2
<1>6. /\ serving' \in [Callers -> RequestType]
      /\ serving'[r] = [pc |-> "ensure", id |-> id, struct |-> s, new |-> new] /\ \A q \in Callers \ {r} : serving'[q] = serving[q]
  <2>1. [pc |-> "ensure", id |-> id, struct |-> s, new |-> new]
          \in RequestType
    BY <1>1, <1>3 DEF Serving, RequestType
  <2>2. serving \in [Callers -> RequestType]
    BY DEF AnalyticTypes
  <2> QED BY <1>1, <2>1, <2>2
<1>7. /\ book' \in BookType
      /\ book'.starts = s /\ book'.ran = book.ran /\ book'.asked[id] = limits
      /\ \A i \in Analytic!Ids \ {id} : book'.asked[i] = book.asked[i]
  <2> DEFINE asked == [book.asked EXCEPT ![id] = IF new THEN limits ELSE @]
  <2>1. asked \in [Analytic!Ids -> Nat] /\ asked[id] = limits /\ \A i \in Analytic!Ids \ {id} : asked[i] = book.asked[i]
    BY DEF AnalyticTypes, RequestsInv, BookType
  <2>2. book' = [asked |-> asked, ran |-> book.ran, starts |-> s, cids |-> Analytic!Cids(id), faults |-> book.faults]
    BY <1>1 DEF AnalyticTypes, BookType
  <2>3. book.ran \in [Analytic!Ids -> Nat] /\ book.faults \in Nat /\ s \in 0..MaxStructs
    BY <1>a DEF AnalyticTypes, BookType
  <2> HIDE DEF asked, s
  <2> QED BY <2>1, <2>2, <2>3, <1>0 DEF BookType
<1>8. /\ volume' \in VolumeType
      /\ volume'.work = volume.work \cup {id}
      /\ volume'.meta[id] = IF Analytic!HasMeta(id) THEN volume.meta[id] ELSE [limits |-> limits, history |-> 0]
      /\ \A i \in Analytic!Ids \ {id} : volume'.meta[i] = volume.meta[i]
  <2> DEFINE meta == [volume.meta EXCEPT ![id] = IF Analytic!HasMeta(id) THEN @ ELSE [limits |-> limits, history |-> 0]]
  <2>1. meta \in [Analytic!Ids -> [limits : Nat, history : Int]]
    BY DEF AnalyticTypes, VolumeType
  <2>2. /\ meta[id] = IF Analytic!HasMeta(id) THEN volume.meta[id] ELSE [limits |-> limits, history |-> 0]
        /\ \A i \in Analytic!Ids \ {id} : meta[i] = volume.meta[i]
    BY DEF AnalyticTypes, VolumeType
  <2>3. volume' = [volume EXCEPT !.work = @ \cup {id}, !.meta = meta]
    BY <1>1 DEF AnalyticTypes
  <2> HIDE DEF meta
  <2> QED BY <2>1, <2>2, <2>3 DEF AnalyticTypes, VolumeType
<1>9. AnalyticTypes'
  BY <1>a, <1>4, <1>5, <1>6, <1>7, <1>8, <1>0 DEF AnalyticTypes
<1>10. RecordsInv'
  <2> SUFFICES ASSUME NEW i \in Analytic!Ids
               PROVE  IF book'.asked[i] = 0
                      THEN volume'.meta[i].history < 0 /\ book'.ran[i] = 0 /\ sessions'[i] = 0
                      ELSE i \in volume'.work /\ volume'.meta[i].limits = book'.asked[i] /\ volume'.meta[i].history = book'.ran[i]
    BY DEF RecordsInv
  <2>1. CASE i # id
    BY <1>4, <1>7, <1>8, <2>1 DEF RecordsInv
  <2>2. CASE i = id /\ new
    <3>1. book.asked[id] = 0 /\ ~ Analytic!HasMeta(id) /\ book.ran[id] = 0
      BY <2>2 DEF RecordsInv, Analytic!HasMeta, AnalyticTypes, BookType, VolumeType
    <3> QED BY <1>4, <1>7, <1>8, <2>2, <3>1
  <2>3. CASE i = id /\ ~ new
    <3>1. book.asked[id] = limits /\ Analytic!HasMeta(id) /\ volume.meta[id].limits = limits /\ volume.meta[id].history = book.ran[id]
      BY <2>3 DEF RecordsInv, Analytic!HasMeta, AnalyticTypes, BookType, VolumeType
    <3> QED BY <1>4, <1>7, <1>8, <2>3, <3>1
  <2> QED BY <2>1, <2>2, <2>3
<1>11. SessionsInv'
  <2>1. aliases[id] = 0
    BY ZenonT(60) DEF AnalyticTypes, RecordsInv, SessionsInv, RequestsInv
  <2> SUFFICES ASSUME NEW i \in Analytic!Ids
               PROVE  /\ aliases'[i] \in {0, sessions'[i]}
                      /\ sessions'[i] # 0 =>
                         /\ sessions'[i] <= book'.starts
                         /\ structs'[sessions'[i]].id = i /\ structs'[sessions'[i]].limits = book'.asked[i]
                         /\ ~ structs'[sessions'[i]].stopped => [name |-> i, cid |-> structs'[sessions'[i]].cid] \in engine'
    BY DEF SessionsInv
  <2>2. CASE i = id
    BY <1>a, <1>2, <1>4, <1>5, <1>7, <2>1, <2>2, <1>0
  <2>3. CASE i # id
    <3>1. sessions[i] \in 0..MaxStructs /\ book.starts \in Nat
      BY DEF AnalyticTypes, BookType
    <3>2. sessions[i] # 0 => sessions[i] <= book.starts
      BY DEF SessionsInv
    <3>3. sessions[i] # 0 => sessions[i] \in 1..MaxStructs \ {s} /\ sessions[i] <= s
      BY <3>1, <3>2
    <3>4. sessions'[i] = sessions[i] /\ aliases'[i] = aliases[i] /\ book'.asked[i] = book.asked[i] /\ book'.starts = s
      BY <1>a, <1>4, <1>7, <2>3
    <3>5. sessions[i] # 0 => structs'[sessions[i]] = structs[sessions[i]]
      BY <1>5, <3>3
    <3>6. engine \subseteq engine'
      BY <1>a, <1>0
    <3> HIDE DEF s
    <3> QED BY <3>3, <3>4, <3>5, <3>6, ZenonT(60) DEF SessionsInv
  <2> QED BY <2>2, <2>3
<1>12. RequestsInv'
  <2>1. \A q \in Callers : serving[q].new => serving[q].id # id
    BY DEF AnalyticTypes, RecordsInv, SessionsInv, RequestsInv
  <2>2. \A q \in Callers : serving[q].pc = "create" /\ new => serving[q].id # id
    BY DEF AnalyticTypes, RecordsInv, SessionsInv, RequestsInv
  <2>3. ASSUME NEW c \in Callers
        PROVE  /\ serving'[c].pc = "create" => serving'[c].id \in Analytic!Ids /\ book'.asked[serving'[c].id] # 0 /\ aliases'[serving'[c].id] = 0
               /\ serving'[c].pc \in Serving => serving'[c].id \in Analytic!Ids /\ sessions'[serving'[c].id] # 0 /\ serving'[c].struct \in 1..book'.starts
               /\ serving'[c].new => serving'[c].pc \in Serving /\ serving'[c].struct = sessions'[serving'[c].id]
    <3>1. CASE c = r
      BY <1>a, <1>4, <1>6, <1>7, <3>1 DEF Serving
    <3>2. CASE c # r
      <4>1. serving'[c] = serving[c] /\ book.starts \in Nat
        BY <1>6, <3>2 DEF AnalyticTypes, BookType
      <4>2. serving[c].pc = "create" => serving[c].id \in Analytic!Ids /\ book'.asked[serving[c].id] # 0 /\ aliases'[serving[c].id] = 0
        BY <1>a, <1>7 DEF RequestsInv
      <4>3. serving[c].pc \in Serving => serving[c].id \in Analytic!Ids /\ sessions'[serving[c].id] # 0
        BY <1>a, <1>4 DEF RequestsInv
      <4>4. serving[c].pc \in Serving => serving[c].struct \in 1..book'.starts
        BY <1>a, <1>7, <4>1 DEF RequestsInv
      <4>5. serving[c].new => serving[c].pc \in Serving /\ serving[c].struct = sessions'[serving[c].id]
        BY <1>4, <2>1 DEF RequestsInv
      <4> QED BY <4>1, <4>2, <4>3, <4>4, <4>5
    <3> QED BY <3>1, <3>2
  <2>4. \A p, q \in Callers : serving'[p].pc = "create" /\ serving'[q].new => serving'[p].id # serving'[q].id
    BY <1>6, <2>2 DEF RequestsInv
  <2> QED BY <2>3, <2>4 DEF RequestsInv
<1> QED BY <1>9, <1>10, <1>11, <1>12

\* The steps that create no session: what each may do to the records, to the sessions and to the
\* requests.

LEMMA RecordsKept ==
  ASSUME AnalyticInv, sessions' = sessions, book'.asked = book.asked, volume.work \subseteq volume'.work,
         \A id \in Analytic!Ids :
            /\ volume'.meta[id].limits = volume.meta[id].limits
            /\ \/ volume'.meta[id].history = volume.meta[id].history /\ book'.ran[id] = book.ran[id]
               \/ /\ book.asked[id] # 0
                  /\ volume'.meta[id].history = volume.meta[id].history + 1 /\ book'.ran[id] = book.ran[id] + 1
  PROVE  RecordsInv'
BY DEF AnalyticInv, RecordsInv

LEMMA SessionsKept ==
  ASSUME AnalyticInv, sessions' = sessions, book'.asked = book.asked, book'.starts = book.starts,
         \A id \in Analytic!Ids : aliases'[id] \in {0, sessions[id]},
         \A id \in Analytic!Ids : sessions[id] # 0 =>
            LET s == structs[sessions[id]]  t == structs'[sessions[id]]
            IN /\ t.id = s.id /\ t.limits = s.limits
               /\ ~ t.stopped => [name |-> id, cid |-> t.cid] \in engine'
  PROVE  SessionsInv'
BY DEF AnalyticInv, SessionsInv

LEMMA RequestsKept ==
  ASSUME AnalyticInv, sessions' = sessions, book'.asked = book.asked, book'.starts = book.starts,
         \A id \in Analytic!Ids : aliases'[id] = aliases[id] \/ \E c \in Callers : serving[c].new /\ serving[c].id = id,
         \A c \in Callers :
            LET q == serving[c]  p == serving'[c]
            IN \/ p = q
               \/ p.pc = "idle" /\ ~ p.new
               \/ q.pc \in Serving /\ p.pc \in Serving /\ p.id = q.id /\ p.struct = q.struct /\ p.new = q.new
               \/ p.pc = "create" /\ ~ p.new /\ p.id \in Analytic!Ids /\ book.asked[p.id] # 0 /\ sessions[p.id] = 0
               \/ p.pc = "ensure" /\ ~ p.new /\ p.id \in Analytic!Ids /\ sessions[p.id] # 0 /\ p.struct \in 1..book.starts
  PROVE  RequestsInv'
<1> DEFINE Fresh(p) == /\ p.pc = "create" /\ ~ p.new /\ p.id \in Analytic!Ids /\ book.asked[p.id] # 0 /\ sessions[p.id] = 0
           Found(p) == p.pc = "ensure" /\ ~ p.new /\ p.id \in Analytic!Ids /\ sessions[p.id] # 0 /\ p.struct \in 1..book.starts
           Same(p, q) == q.pc \in Serving /\ p.pc \in Serving /\ p.id = q.id /\ p.struct = q.struct /\ p.new = q.new
<1>1. \A c \in Callers : serving[c].new => serving[c].id \in Analytic!Ids /\ sessions[serving[c].id] # 0
  BY DEF AnalyticInv, RequestsInv
<1>2. \A id \in Analytic!Ids : sessions[id] = 0 => aliases[id] = 0
  BY DEF AnalyticInv, SessionsInv
<1>3. \A p : Fresh(p) => aliases'[p.id] = 0 /\ \A c \in Callers : serving[c].new => serving[c].id # p.id
  BY <1>1, <1>2
<1>4. \A c \in Callers : serving[c].pc = "create" => aliases'[serving[c].id] = 0
  BY DEF AnalyticInv, RequestsInv
<1>5. \A c \in Callers : serving'[c].new => serving[c].new /\ serving[c].id = serving'[c].id
  BY DEF AnalyticInv, RequestsInv
<1>6. ASSUME NEW c \in Callers
      PROVE  /\ serving'[c].pc = "create" => serving'[c].id \in Analytic!Ids /\ book'.asked[serving'[c].id] # 0 /\ aliases'[serving'[c].id] = 0
             /\ serving'[c].pc \in Serving => serving'[c].id \in Analytic!Ids /\ sessions'[serving'[c].id] # 0 /\ serving'[c].struct \in 1..book'.starts
             /\ serving'[c].new => serving'[c].pc \in Serving /\ serving'[c].struct = sessions'[serving'[c].id]
  <2>1. CASE serving'[c] = serving[c] \/ Same(serving'[c], serving[c])
    BY <1>4, <2>1 DEF AnalyticInv, RequestsInv, Serving
  <2>2. CASE serving'[c].pc = "idle" /\ ~ serving'[c].new
    BY <2>2 DEF Serving
  <2>3. CASE Fresh(serving'[c])
    BY <1>3, <2>3 DEF Serving
  <2>4. CASE Found(serving'[c])
    BY <2>4 DEF Serving
  <2> QED BY <2>1, <2>2, <2>3, <2>4
<1>7. ASSUME NEW p \in Callers, NEW c \in Callers, serving'[p].pc = "create", serving'[c].new
      PROVE  serving'[p].id # serving'[c].id
  <2>1. serving'[p] = serving[p] \/ Fresh(serving'[p])
    BY <1>7 DEF Serving
  <2>2. CASE serving'[p] = serving[p]
    BY <1>5, <1>7, <2>2 DEF AnalyticInv, RequestsInv
  <2>3. CASE Fresh(serving'[p])
    BY <1>3, <1>5, <1>7, <2>3
  <2> QED BY <2>1, <2>2, <2>3
<1> QED BY <1>6, <1>7 DEF RequestsInv

LEMMA AnalyticStep ==
  ServicesAssumption /\ TornMetadata = FALSE /\ AnalyticInv /\ [Analytic!Next]_(Analytic!vars) => AnalyticInv'
<1> SUFFICES ASSUME ServicesAssumption, TornMetadata = FALSE, AnalyticInv, [Analytic!Next]_(Analytic!vars)
             PROVE  AnalyticInv'
  OBVIOUS
<1> USE DEF Analytic!At, Analytic!Goto, Analytic!Done, Analytic!Fault, Analytic!None, Analytic!Idle
<1>1. ASSUME NEW r \in Callers, Analytic!NewSession(r) PROVE AnalyticInv'
  <2>1. PICK id \in Analytic!Ids \ volume.work, limits \in ExecLimits : Analytic!Install(r, id, limits, TRUE)
    BY <1>1 DEF Analytic!NewSession
  <2>2. limits \in Nat \ {0} /\ aliases' = aliases
    BY <1>1 DEF Analytic!NewSession, ServicesAssumption, Analytic!AnalyticSandboxAssumption
  <2> QED BY <2>1, <2>2, InstallKeeps
<1>2. ASSUME NEW r \in Callers, Analytic!Resume(r) PROVE AnalyticInv'
  <2> DEFINE id == serving[r].id
  <2>1. serving[r].pc = "create" /\ id \in volume.work /\ Analytic!Install(r, id, volume.meta[id].limits, FALSE) /\ aliases' = aliases
    BY <1>2 DEF Analytic!Resume
  <2>2. id \in Analytic!Ids /\ volume.meta[id].limits = book.asked[id] /\ book.asked[id] \in Nat \ {0}
    BY <2>1 DEF AnalyticInv, AnalyticTypes, RecordsInv, RequestsInv, BookType, VolumeType, Analytic!Ids
  <2> QED BY <2>1, <2>2, InstallKeeps
<1>3. ASSUME NEW r \in Callers, UNCHANGED <<engine, sessions, structs>>, aliases' \in [Analytic!Ids -> 0..MaxStructs],
             volume'.meta = volume.meta, volume' \in VolumeType,
             volume.work \subseteq volume'.work,
             book' = book \/ book' = [book EXCEPT !.faults = @ + 1],
             \A id \in Analytic!Ids : aliases'[id] = aliases[id] \/ (aliases'[id] = sessions[id] /\ serving[r].new /\ serving[r].id = id),
             NEW p \in RequestType,
             serving' = [serving EXCEPT ![r] = p],
             \/ p = serving[r]
             \/ p.pc = "idle" /\ ~ p.new
             \/ serving[r].pc \in Serving /\ p.pc \in Serving /\ p.id = serving[r].id /\ p.struct = serving[r].struct /\ p.new = serving[r].new
             \/ p.pc = "create" /\ ~ p.new /\ p.id \in Analytic!Ids /\ book.asked[p.id] # 0 /\ sessions[p.id] = 0
             \/ p.pc = "ensure" /\ ~ p.new /\ p.id \in Analytic!Ids /\ sessions[p.id] # 0 /\ p.struct \in 1..book.starts
      PROVE  AnalyticInv'
  <2>1. book'.asked = book.asked /\ book'.starts = book.starts /\ book'.ran = book.ran
    BY <1>3 DEF AnalyticInv, AnalyticTypes, BookType
  <2>2. AnalyticTypes'
    <3>1. book' \in BookType
      <4>1. book \in BookType
        BY DEF AnalyticInv, AnalyticTypes
      <4> QED BY <1>3, <4>1 DEF BookType
    <3>2. serving' \in [Callers -> RequestType]
      <4>1. serving \in [Callers -> RequestType]
        BY DEF AnalyticInv, AnalyticTypes
      <4> QED BY <1>3, <4>1
    <3> QED BY <1>3, <3>1, <3>2 DEF AnalyticInv, AnalyticTypes
  <2>3. RecordsInv'
    BY <1>3, <2>1, RecordsKept
  <2>4. SessionsInv'
    BY <1>3, <2>1, SessionsKept DEF AnalyticInv, SessionsInv
  <2>5. \A c \in Callers : serving'[c] = IF c = r THEN p ELSE serving[c]
    BY <1>3 DEF AnalyticInv, AnalyticTypes
  <2>6. RequestsInv'
    BY <1>3, <2>1, <2>5, RequestsKept
  <2> QED BY <2>2, <2>3, <2>4, <2>6 DEF AnalyticInv
<1>4. ASSUME NEW r \in Callers, Analytic!NewSessionFails(r) PROVE AnalyticInv'
  <2>1. serving' = [serving EXCEPT ![r] = serving[r]] /\ serving[r] \in RequestType
    BY <1>4 DEF Analytic!NewSessionFails, AnalyticInv, AnalyticTypes
  <2>2. /\ UNCHANGED <<engine, sessions, structs, aliases>> /\ volume'.meta = volume.meta
        /\ volume' \in VolumeType
        /\ volume.work \subseteq volume'.work /\ book' = [book EXCEPT !.faults = @ + 1] /\ aliases' \in [Analytic!Ids -> 0..MaxStructs]
    <3>1. PICK id \in Analytic!Ids : volume' = [volume EXCEPT !.work = @ \cup {id}]
      BY <1>4 DEF Analytic!NewSessionFails
    <3>2. volume \in VolumeType
      BY DEF AnalyticInv, AnalyticTypes
    <3>3. UNCHANGED <<engine, sessions, structs, aliases>> /\ book' = [book EXCEPT !.faults = @ + 1] /\ aliases \in [Analytic!Ids -> 0..MaxStructs]
      BY <1>4 DEF Analytic!NewSessionFails, AnalyticInv, AnalyticTypes
    <3> QED BY <3>1, <3>2, <3>3 DEF VolumeType
  <2> QED BY <1>3, <2>1, <2>2
<1>5. ASSUME NEW r \in Callers,
             \/ Analytic!Find(r) \/ Analytic!FindByAlias(r) \/ Analytic!ResumeFails(r) \/ Analytic!RestartContainerFails(r)
             \/ Analytic!Reply(r)
      PROVE AnalyticInv'
  <2>1. /\ UNCHANGED <<engine, sessions, structs, volume>>
        /\ volume' \in VolumeType
        /\ book' = book \/ book' = [book EXCEPT !.faults = @ + 1]
    BY <1>5 DEF Analytic!Find, Analytic!FindByAlias, Analytic!ResumeFails, Analytic!RestartContainerFails, Analytic!Reply,
                AnalyticInv, AnalyticTypes
  <2>2. /\ aliases' \in [Analytic!Ids -> 0..MaxStructs]
        /\ \A id \in Analytic!Ids : aliases'[id] = aliases[id] \/ (aliases'[id] = sessions[id] /\ serving[r].new /\ serving[r].id = id)
    BY <1>5 DEF Analytic!Find, Analytic!FindByAlias, Analytic!ResumeFails, Analytic!RestartContainerFails, Analytic!Reply,
                AnalyticInv, AnalyticTypes, RequestsInv
  <2>3. PICK p \in RequestType :
          /\ serving' = [serving EXCEPT ![r] = p]
          /\ \/ p.pc = "idle" /\ ~ p.new
             \/ p.pc = "create" /\ ~ p.new /\ p.id \in Analytic!Ids /\ book.asked[p.id] # 0 /\ sessions[p.id] = 0
             \/ p.pc = "ensure" /\ ~ p.new /\ p.id \in Analytic!Ids /\ sessions[p.id] # 0 /\ p.struct \in 1..book.starts
    <3>1. CASE Analytic!Find(r)
      <4>1. PICK id \in Analytic!Ids :
              /\ book.asked[id] # 0
              /\ serving' = [serving EXCEPT ![r] =
                              IF sessions[id] = 0 THEN [[pc |-> "idle", id |-> 0, struct |-> 0, new |-> FALSE] EXCEPT !.pc = "create", !.id = id]
                              ELSE [pc |-> "ensure", id |-> id, struct |-> sessions[id], new |-> FALSE]]
        BY <3>1 DEF Analytic!Find
      <4> DEFINE create == [[pc |-> "idle", id |-> 0, struct |-> 0, new |-> FALSE] EXCEPT !.pc = "create", !.id = id]
                 ensure == [pc |-> "ensure", id |-> id, struct |-> sessions[id], new |-> FALSE]
      <4>2. CASE sessions[id] = 0
        <5>0. id \in Nat
          BY DEF Analytic!Ids
        <5>1. create \in RequestType /\ create.pc = "create" /\ create.id = id /\ ~ create.new
          <6> DEFINE idle == [pc |-> "idle", id |-> 0, struct |-> 0, new |-> FALSE]
          <6>1. idle \in RequestType /\ ~ idle.new
            BY DEF RequestType
          <6>2. create = [idle EXCEPT !.pc = "create", !.id = id]
            OBVIOUS
          <6> HIDE DEF idle, create
          <6> QED BY <5>0, <6>1, <6>2 DEF RequestType
        <5>2. serving' = [serving EXCEPT ![r] = create]
          BY <4>1, <4>2
        <5> HIDE DEF create
        <5> QED BY <4>1, <4>2, <5>1, <5>2
      <4>3. CASE sessions[id] # 0
        <5>1. sessions[id] \in 1..book.starts /\ book.starts \in Nat
          BY <4>3, SessionFacts
        <5>2. ensure \in RequestType /\ ensure.pc = "ensure" /\ ensure.id = id /\ ensure.struct = sessions[id] /\ ~ ensure.new
          BY <5>1 DEF RequestType, Serving, Analytic!Ids
        <5>3. serving' = [serving EXCEPT ![r] = ensure]
          BY <4>1, <4>3
        <5> HIDE DEF ensure
        <5> QED BY <4>3, <5>1, <5>2, <5>3
      <4> QED BY <4>2, <4>3
    <3>2. CASE Analytic!FindByAlias(r)
      <4>1. PICK id \in Analytic!Ids :
              aliases[id] # 0 /\ serving' = [serving EXCEPT ![r] = [pc |-> "ensure", id |-> id, struct |-> aliases[id], new |-> FALSE]]
        BY <3>2 DEF Analytic!FindByAlias
      <4> DEFINE ensure == [pc |-> "ensure", id |-> id, struct |-> aliases[id], new |-> FALSE]
      <4>2. aliases[id] \in 1..book.starts /\ sessions[id] # 0 /\ book.starts \in Nat
        BY <4>1, SessionFacts
      <4>3. ensure \in RequestType /\ ensure.pc = "ensure" /\ ensure.id = id /\ ensure.struct = aliases[id] /\ ~ ensure.new
        BY <4>2 DEF RequestType, Serving, Analytic!Ids
      <4>4. serving' = [serving EXCEPT ![r] = ensure]
        BY <4>1
      <4> HIDE DEF ensure
      <4>5. ensure.pc = "ensure" /\ ~ ensure.new /\ ensure.id \in Analytic!Ids /\ sessions[ensure.id] # 0 /\ ensure.struct \in 1..book.starts
        BY <4>2, <4>3
      <4> QED BY <4>3, <4>4, <4>5
    <3>3. CASE Analytic!ResumeFails(r) \/ Analytic!RestartContainerFails(r) \/ Analytic!Reply(r)
      <4> DEFINE idle == [pc |-> "idle", id |-> 0, struct |-> 0, new |-> FALSE]
      <4>1. serving' = [serving EXCEPT ![r] = idle]
        BY <3>3 DEF Analytic!ResumeFails, Analytic!RestartContainerFails, Analytic!Reply
      <4>2. idle \in RequestType /\ idle.pc = "idle" /\ ~ idle.new
        BY DEF RequestType
      <4> HIDE DEF idle
      <4> QED BY <4>1, <4>2
    <3> QED BY <1>5, <3>1, <3>2, <3>3
  <2> QED BY <1>3, <2>1, <2>2, <2>3
<1>6. \* A step of a request from one state to the next while it holds a session.
      ASSUME NEW r \in Callers, NEW to \in Serving, serving[r].pc \in Serving,
             serving' = [serving EXCEPT ![r].pc = to],
             UNCHANGED <<sessions, aliases>>, book'.asked = book.asked, book'.starts = book.starts
      PROVE  /\ serving' \in [Callers -> RequestType]
             /\ RequestsInv'
             /\ serving[r].id \in Analytic!Ids /\ sessions[serving[r].id] \in 1..MaxStructs /\ serving[r].struct \in 1..MaxStructs
  <2>1. serving \in [Callers -> RequestType]
    BY DEF AnalyticInv, AnalyticTypes
  <2>2. serving' \in [Callers -> RequestType]
    BY <1>6, <2>1 DEF RequestType
  <2>3. \A c \in Callers \ {r} : serving'[c] = serving[c]
    BY <1>6, <2>1
  <2>4. serving'[r].pc = to /\ serving'[r].id = serving[r].id /\ serving'[r].struct = serving[r].struct /\ serving'[r].new = serving[r].new
    BY <1>6, <2>1
  <2>5. RequestsInv'
    BY <1>6, <2>3, <2>4, RequestsKept
  <2>6. serving[r].id \in Analytic!Ids /\ sessions[serving[r].id] \in 1..MaxStructs /\ serving[r].struct \in 1..MaxStructs
    <3>1. serving[r].id \in Analytic!Ids /\ sessions[serving[r].id] # 0 /\ serving[r].struct \in 1..book.starts
      BY <1>6 DEF AnalyticInv, RequestsInv
    <3> QED BY <3>1, SessionFacts
  <2> QED BY <2>2, <2>5, <2>6
<1>7. ASSUME NEW r \in Callers, Analytic!RestartContainerIfNeeded(r) PROVE AnalyticInv'
  <2> DEFINE id == serving[r].id
             s == sessions[id]
  <2>1. serving[r].pc = "ensure" /\ serving' = [serving EXCEPT ![r].pc = "touch"] /\ UNCHANGED <<sessions, aliases, volume>>
    BY <1>7 DEF Analytic!RestartContainerIfNeeded
  <2>2. CASE UNCHANGED <<engine, structs, book>>
    <3>1. /\ serving' \in [Callers -> RequestType]
          /\ RequestsInv'
      BY <2>1, <2>2, <1>6 DEF Serving
    <3> QED BY <2>1, <2>2, <3>1 DEF AnalyticInv, AnalyticTypes, RecordsInv, SessionsInv
  <2>3. CASE /\ engine' = Analytic!Started(id)
             /\ structs' = [structs EXCEPT ![s].cid = Analytic!StartedCid(id), ![s].stopped = FALSE, ![s].old = FALSE]
             /\ book' = [book EXCEPT !.cids = Analytic!Cids(id)]
    <3>1. book'.asked = book.asked /\ book'.ran = book.ran /\ book'.starts = book.starts /\ book'.faults = book.faults
      <4>1. book \in BookType
        BY DEF AnalyticInv, AnalyticTypes
      <4>2. book' = [book EXCEPT !.cids = Analytic!Cids(id)]
        BY <2>3
      <4> HIDE DEF id
      <4> QED BY <4>1, <4>2 DEF BookType
    <3>2. /\ serving' \in [Callers -> RequestType]
          /\ RequestsInv' /\ id \in Analytic!Ids /\ s \in 1..MaxStructs
      BY <2>1, <3>1, <1>6 DEF Serving
    <3>3. /\ Analytic!Started(id) \subseteq [name : Analytic!Ids, cid : Nat] /\ engine \subseteq Analytic!Started(id)
          /\ Analytic!StartedCid(id) \in Nat /\ Analytic!Cids(id) \in Nat
          /\ [name |-> id, cid |-> Analytic!StartedCid(id)] \in Analytic!Started(id)
      BY <3>2, ContainerStarts
    <3>4. structs \in [1..MaxStructs -> StructType]
      BY DEF AnalyticInv, AnalyticTypes
    <3>5. structs' \in [1..MaxStructs -> StructType]
      BY <2>3, <3>2, <3>3, <3>4, ZenonT(60) DEF StructType
    <3>6. /\ \A t \in 1..MaxStructs \ {s} : structs'[t] = structs[t]
          /\ structs'[s].id = structs[s].id /\ structs'[s].limits = structs[s].limits /\ structs'[s].cid = Analytic!StartedCid(id)
      BY <2>3, <3>2, <3>3, <3>4 DEF StructType
    <3>7. book' \in BookType
      BY <2>3, <3>3 DEF AnalyticInv, AnalyticTypes, BookType
    <3>8. AnalyticTypes'
      BY <2>1, <2>3, <3>2, <3>3, <3>5, <3>7 DEF AnalyticInv, AnalyticTypes
    <3>9. RecordsInv'
      BY <2>1, <3>1 DEF AnalyticInv, RecordsInv
    <3>10. ASSUME NEW i \in Analytic!Ids, sessions[i] # 0
           PROVE  /\ structs'[sessions[i]].id = structs[sessions[i]].id /\ structs'[sessions[i]].limits = structs[sessions[i]].limits
                  /\ ~ structs'[sessions[i]].stopped => [name |-> i, cid |-> structs'[sessions[i]].cid] \in engine'
      <4>1. sessions[i] \in 1..MaxStructs /\ structs[sessions[i]].id = i /\ structs[s].id = id
        BY <3>2, <3>10, SessionFacts
      <4>2. CASE i = id
        BY <2>3, <3>3, <3>6, <4>2
      <4>3. CASE i # id
        BY <2>3, <3>3, <3>6, <3>10, <4>1, <4>3 DEF AnalyticInv, SessionsInv
      <4> QED BY <4>2, <4>3
    <3>11. SessionsInv'
      <4>1. \A i \in Analytic!Ids : aliases'[i] \in {0, sessions[i]}
        BY <2>1 DEF AnalyticInv, SessionsInv
      <4> QED BY <2>1, <3>1, <3>10, <4>1, SessionsKept
    <3> QED BY <3>2, <3>8, <3>9, <3>11 DEF AnalyticInv
  <2> QED BY <1>7, <2>2, <2>3 DEF Analytic!RestartContainerIfNeeded
<1>8. \* Only flags of a struct change that no part of the invariant is about.
      ASSUME UNCHANGED <<engine, sessions, aliases>>,
             structs' \in [1..MaxStructs -> StructType],
             \A t \in 1..MaxStructs : /\ structs'[t].id = structs[t].id /\ structs'[t].limits = structs[t].limits
                                      /\ structs'[t].cid = structs[t].cid /\ structs'[t].stopped = structs[t].stopped,
             book'.asked = book.asked, book'.starts = book.starts
      PROVE  SessionsInv'
  <2>1. ASSUME NEW i \in Analytic!Ids, sessions[i] # 0
        PROVE  /\ structs'[sessions[i]].id = structs[sessions[i]].id /\ structs'[sessions[i]].limits = structs[sessions[i]].limits
               /\ ~ structs'[sessions[i]].stopped => [name |-> i, cid |-> structs'[sessions[i]].cid] \in engine'
    <3>1. sessions[i] \in 1..MaxStructs
      BY <2>1 DEF AnalyticInv, AnalyticTypes
    <3> QED BY <1>8, <2>1, <3>1 DEF AnalyticInv, SessionsInv
  <2>2. \A i \in Analytic!Ids : aliases'[i] \in {0, sessions[i]}
    BY <1>8 DEF AnalyticInv, SessionsInv
  <2> QED BY <1>8, <2>1, <2>2, SessionsKept
<1>9. \* The flag `old` or `busy` of one struct.
      ASSUME NEW s \in 1..MaxStructs, NEW b \in BOOLEAN,
             structs' = [structs EXCEPT ![s].old = b] \/ structs' = [structs EXCEPT ![s].busy = b]
      PROVE  /\ structs' \in [1..MaxStructs -> StructType]
             /\ \A t \in 1..MaxStructs : /\ structs'[t].id = structs[t].id /\ structs'[t].limits = structs[t].limits
                                         /\ structs'[t].cid = structs[t].cid /\ structs'[t].stopped = structs[t].stopped
  <2>1. structs \in [1..MaxStructs -> StructType]
    BY DEF AnalyticInv, AnalyticTypes
  <2>2. CASE structs' = [structs EXCEPT ![s].old = b]
    BY <2>1, <2>2 DEF StructType
  <2>3. CASE structs' = [structs EXCEPT ![s].busy = b]
    BY <2>1, <2>3 DEF StructType
  <2> QED BY <1>9, <2>2, <2>3
<1>10. ASSUME NEW r \in Callers, Analytic!UpdateActivity(r) \/ Analytic!LockExec(r) PROVE AnalyticInv'
  <2>1. /\ serving[r].pc \in Serving /\ UNCHANGED <<engine, sessions, aliases, volume, book>>
        /\ \E to \in Serving : serving' = [serving EXCEPT ![r].pc = to]
    BY <1>10 DEF Analytic!UpdateActivity, Analytic!LockExec, Serving
  <2>2. /\ serving' \in [Callers -> RequestType]
        /\ RequestsInv'
        /\ serving[r].id \in Analytic!Ids /\ sessions[serving[r].id] \in 1..MaxStructs /\ serving[r].struct \in 1..MaxStructs
    BY <2>1, <1>6
  <2>3. /\ structs' \in [1..MaxStructs -> StructType]
        /\ \A t \in 1..MaxStructs : /\ structs'[t].id = structs[t].id /\ structs'[t].limits = structs[t].limits
                                    /\ structs'[t].cid = structs[t].cid /\ structs'[t].stopped = structs[t].stopped
    BY <1>9, <1>10, <2>2 DEF Analytic!UpdateActivity, Analytic!LockExec
  <2>4. SessionsInv'
    BY <1>8, <2>1, <2>3
  <2> QED BY <2>1, <2>2, <2>3, <2>4 DEF AnalyticInv, AnalyticTypes, RecordsInv
<1>11. ASSUME NEW r \in Callers, Analytic!Exec(r) PROVE AnalyticInv'
  <2> DEFINE id == serving[r].id
             alive == [name |-> id, cid |-> structs[serving[r].struct].cid] \in engine
  <2>1. /\ serving[r].pc = "run" /\ serving' = [serving EXCEPT ![r].pc = "reply"]
        /\ UNCHANGED <<engine, sessions, aliases>>
        /\ volume' = IF alive /\ Analytic!HasMeta(id) THEN [volume EXCEPT !.meta[id].history = @ + 1] ELSE volume
        /\ book' = IF alive THEN [book EXCEPT !.ran[id] = @ + 1] ELSE book
        /\ structs' = [structs EXCEPT ![serving[r].struct].busy = FALSE]
    BY <1>11 DEF Analytic!Exec, Analytic!Of
  <2>2. book \in BookType
    BY DEF AnalyticInv, AnalyticTypes
  <2>3. book'.asked = book.asked /\ book'.starts = book.starts
    BY <2>1, <2>2
  <2>4. /\ serving' \in [Callers -> RequestType]
        /\ RequestsInv' /\ id \in Analytic!Ids /\ sessions[id] \in 1..MaxStructs /\ serving[r].struct \in 1..MaxStructs
    BY <1>6, <2>1, <2>3 DEF Serving
  <2>5. book.asked[id] # 0 /\ Analytic!HasMeta(id)
    BY <2>4, SessionFacts
  <2>6. volume \in VolumeType
    BY DEF AnalyticInv, AnalyticTypes
  <2>7. /\ volume' \in VolumeType
        /\ volume'.work = volume.work
        /\ book' \in BookType
    <3>1. CASE alive
      <4>1. [volume.meta EXCEPT ![id].history = @ + 1] \in [Analytic!Ids -> [limits : Nat, history : Int]]
        BY <2>4, <2>6 DEF VolumeType
      <4>2. volume' = [volume EXCEPT !.meta = [volume.meta EXCEPT ![id].history = @ + 1]]
        BY <2>1, <2>5, <2>6, <3>1 DEF VolumeType
      <4>3. [book.ran EXCEPT ![id] = @ + 1] \in [Analytic!Ids -> Nat]
        BY <2>2, <2>4 DEF BookType
      <4>4. book' = [book EXCEPT !.ran = [book.ran EXCEPT ![id] = @ + 1]]
        BY <2>1, <2>2, <3>1 DEF BookType
      <4>5. volume' \in VolumeType /\ volume'.work = volume.work
        BY <2>6, <4>1, <4>2 DEF VolumeType
      <4>6. book' \in BookType
        BY <2>2, <4>3, <4>4 DEF BookType
      <4> QED BY <4>5, <4>6
    <3>2. CASE ~ alive
      BY <2>1, <2>2, <2>6, <3>2
    <3> QED BY <3>1, <3>2
  <2>8. ASSUME NEW i \in Analytic!Ids
        PROVE  /\ volume'.meta[i].limits = volume.meta[i].limits
               /\ \/ volume'.meta[i].history = volume.meta[i].history /\ book'.ran[i] = book.ran[i]
                  \/ /\ book.asked[i] # 0
                     /\ volume'.meta[i].history = volume.meta[i].history + 1 /\ book'.ran[i] = book.ran[i] + 1
    <3>1. CASE alive
      BY <2>1, <2>2, <2>4, <2>5, <2>6, <3>1 DEF BookType, VolumeType
    <3>2. CASE ~ alive
      BY <2>1, <2>2, <2>6, <3>2
    <3> QED BY <3>1, <3>2
  <2>9. RecordsInv'
    BY <2>1, <2>3, <2>7, <2>8, RecordsKept
  <2>10. /\ structs' \in [1..MaxStructs -> StructType]
         /\ \A t \in 1..MaxStructs : /\ structs'[t].id = structs[t].id /\ structs'[t].limits = structs[t].limits
                                     /\ structs'[t].cid = structs[t].cid /\ structs'[t].stopped = structs[t].stopped
    BY <1>9, <2>1, <2>4
  <2>11. SessionsInv'
    BY <1>8, <2>1, <2>3, <2>10
  <2> QED BY <2>1, <2>4, <2>7, <2>9, <2>10, <2>11 DEF AnalyticInv, AnalyticTypes
<1>12. CASE Analytic!TimePasses
  <2>1. structs \in [1..MaxStructs -> StructType]
    BY DEF AnalyticInv, AnalyticTypes
  <2>2. /\ UNCHANGED <<engine, sessions, aliases, volume, serving, book>>
        /\ structs' = [s \in 1..MaxStructs |-> IF s \in Analytic!Mapped THEN [structs[s] EXCEPT !.old = TRUE] ELSE structs[s]]
    BY <1>12, <2>1 DEF Analytic!TimePasses
  <2>3. /\ structs' \in [1..MaxStructs -> StructType]
        /\ \A t \in 1..MaxStructs : /\ structs'[t].id = structs[t].id /\ structs'[t].limits = structs[t].limits
                                    /\ structs'[t].cid = structs[t].cid /\ structs'[t].stopped = structs[t].stopped
    BY <2>1, <2>2 DEF StructType
  <2>4. SessionsInv'
    BY <1>8, <2>2, <2>3
  <2> QED BY <2>2, <2>3, <2>4 DEF AnalyticInv, AnalyticTypes, RecordsInv, RequestsInv
<1>13. CASE Analytic!StopInactiveContainers
  <2> DEFINE idle == {s \in Analytic!Mapped : structs[s].old /\ ~ structs[s].stopped}
             theirs == {k \in engine : \E s \in idle : k.name = structs[s].id /\ k.cid = structs[s].cid}
  <2>1. structs \in [1..MaxStructs -> StructType]
    BY DEF AnalyticInv, AnalyticTypes
  <2>2. PICK kept \in SUBSET theirs :
          /\ engine' = engine \ (theirs \ kept)
          /\ book' = [book EXCEPT !.faults = IF kept = {} THEN @ ELSE @ + 1]
    BY <1>13 DEF Analytic!StopInactiveContainers
  <2>3. /\ UNCHANGED <<sessions, aliases, volume, serving>>
        /\ structs' = [s \in 1..MaxStructs |-> IF s \in idle THEN [structs[s] EXCEPT !.stopped = TRUE] ELSE structs[s]]
    BY <1>13, <2>1 DEF Analytic!StopInactiveContainers
  <2>4. /\ book' \in BookType
        /\ book'.asked = book.asked /\ book'.starts = book.starts /\ book'.ran = book.ran
    <3>1. book \in BookType
      BY DEF AnalyticInv, AnalyticTypes
    <3>2. CASE kept = {}
      BY <2>2, <3>1, <3>2 DEF BookType
    <3>3. CASE kept # {}
      BY <2>2, <3>1, <3>3 DEF BookType
    <3> QED BY <3>2, <3>3
  <2>5. /\ structs' \in [1..MaxStructs -> StructType]
        /\ \A t \in 1..MaxStructs : /\ structs'[t].id = structs[t].id /\ structs'[t].limits = structs[t].limits
                                    /\ structs'[t].cid = structs[t].cid
                                    /\ structs'[t].stopped = (structs[t].stopped \/ t \in idle)
    BY <2>1, <2>3 DEF StructType
  <2>6. ASSUME NEW i \in Analytic!Ids, sessions[i] # 0
        PROVE  /\ structs'[sessions[i]].id = structs[sessions[i]].id /\ structs'[sessions[i]].limits = structs[sessions[i]].limits
               /\ ~ structs'[sessions[i]].stopped => [name |-> i, cid |-> structs'[sessions[i]].cid] \in engine'
    <3>1. sessions[i] \in 1..MaxStructs /\ structs[sessions[i]].id = i
      BY <2>6, SessionFacts
    <3>2. CASE ~ structs'[sessions[i]].stopped
      <4>1. sessions[i] \notin idle /\ ~ structs[sessions[i]].stopped
        BY <2>5, <3>1, <3>2
      <4>2. [name |-> i, cid |-> structs[sessions[i]].cid] \in engine
        BY <2>6, <4>1 DEF AnalyticInv, SessionsInv
      <4>3. \* A struct under a map's id is the session of its own id.
            ASSUME NEW s \in idle, structs[s].id = i PROVE s = sessions[i]
        <5>1. PICK j \in Analytic!Ids : s \in {sessions[j], aliases[j]}
          BY <4>3 DEF Analytic!Mapped
        <5>2. s \in 1..MaxStructs
          BY <2>1, <4>3 DEF Analytic!Mapped
        <5>3. s = sessions[j]
          BY <5>1, <5>2, SessionFacts
        <5>4. structs[s].id = j
          BY <5>2, <5>3, SessionFacts
        <5> QED BY <4>3, <5>3, <5>4
      <4>4. [name |-> i, cid |-> structs[sessions[i]].cid] \notin theirs
        BY <4>1, <4>3
      <4> QED BY <2>2, <2>5, <3>1, <4>2, <4>4
    <3> QED BY <2>5, <3>1, <3>2
  <2>7. SessionsInv'
    <3>1. \A i \in Analytic!Ids : aliases'[i] \in {0, sessions[i]}
      BY <2>3 DEF AnalyticInv, SessionsInv
    <3> QED BY <2>3, <2>4, <2>6, <3>1, SessionsKept
  <2>8. engine' \subseteq engine
    BY <2>2
  <2> QED BY <2>3, <2>4, <2>5, <2>7, <2>8 DEF AnalyticInv, AnalyticTypes, RecordsInv, RequestsInv
<1>14. CASE Analytic!Restart
  <2>1. /\ engine' \subseteq engine /\ volume' = volume
        /\ sessions' = [id \in Analytic!Ids |-> 0] /\ aliases' = [id \in Analytic!Ids |-> 0]
        /\ serving' = [r \in Callers |-> [pc |-> "idle", id |-> 0, struct |-> 0, new |-> FALSE]]
        /\ structs' = [s \in DOMAIN structs |-> Analytic!NoStruct]
        /\ book' = [book EXCEPT !.starts = 0, !.faults = @ + 1]
    BY <1>14 DEF Analytic!Restart
  <2>2. /\ book' \in BookType
        /\ book'.asked = book.asked /\ book'.ran = book.ran
    <3>1. book \in BookType /\ MaxStructs \in Nat
      BY DEF AnalyticInv, AnalyticTypes
    <3>2. book' = [asked |-> book.asked, ran |-> book.ran, starts |-> 0, cids |-> book.cids, faults |-> book.faults + 1]
      BY <2>1, <3>1 DEF BookType
    <3> QED BY <3>1, <3>2 DEF BookType
  <2>3. /\ structs' \in [1..MaxStructs -> StructType]
    BY <2>1 DEF AnalyticInv, AnalyticTypes, StructType, Analytic!NoStruct
  <2>4. sessions' \in [Analytic!Ids -> 0..MaxStructs] /\ aliases' \in [Analytic!Ids -> 0..MaxStructs]
    BY <2>1 DEF ServicesAssumption, Analytic!AnalyticSandboxAssumption
  <2>5. serving' \in [Callers -> RequestType]
    BY <2>1 DEF RequestType
  <2>6. AnalyticTypes'
    BY <2>1, <2>2, <2>3, <2>4, <2>5 DEF AnalyticInv, AnalyticTypes
  <2>7. RecordsInv' /\ SessionsInv'
    BY <2>1, <2>2 DEF AnalyticInv, RecordsInv, SessionsInv
  <2>8. RequestsInv'
    BY <2>1 DEF RequestsInv, Serving
  <2> QED BY <2>6, <2>7, <2>8 DEF AnalyticInv
<1>15. CASE UNCHANGED Analytic!vars
  BY <1>15 DEF Analytic!vars, AnalyticInv, AnalyticTypes, RecordsInv, SessionsInv, RequestsInv
<1> QED BY <1>1, <1>2, <1>4, <1>5, <1>7, <1>10, <1>11, <1>12, <1>13, <1>14, <1>15 DEF Analytic!Next

\* code/execute: no call waits for a container that nobody is starting; and, unless a crash tears
\* a metadata file, a session of the analytic sandbox keeps its limits, its container and its
\* history through stops, overlapping resumptions and restarts of the server.
THEOREM SandboxesServe ==
  ASSUME ServicesAssumption, TornMetadata = FALSE
  PROVE  Spec => []SandboxesServeCalls
<1> DEFINE Inv == (part = "sandbox" => BoxInv) /\ (part = "analytic" => AnalyticInv)
<1>1. Inv => SandboxesServeCalls
  BY AnalyticFollows DEF SandboxesServeCalls, BoxInv
<1>2. Init => Inv
  BY BoxInit, AnalyticInit DEF Init
<1>3. Inv /\ [Next]_vars => Inv'
  BY StepOfBoxes, BoxStep, StepOfAnalytic, AnalyticStep
<1> QED BY <1>1, <1>2, <1>3, PTL DEF Spec

-----------------------------------------------------------------------------
(* Alerts that fire once.  Until an alert has fired, it is active, not due and was never told of; *)
(* when it has, it is exhausted or cancelled, and due until a call that has read the firing       *)
(* acknowledges it.  A new alert counts against the limit with those that are about to be set.    *)

ToolStates == {"idle", "insert", "ack"}
AlertStates == {"none", "active", "exhausted", "cancelled"}
AlertRow == [st : AlertStates, count : Nat, max : Nat, due : BOOLEAN]
ToolCall == [pc : ToolStates, id : Alerts!Ids \cup {"none"}, max : Nat, ids : SUBSET Alerts!Ids, read : [Alerts!Ids -> Nat]]
AlertTally == [fired : [Alerts!Ids -> Nat], told : [Alerts!Ids -> Nat], sets : Nat, turns : Nat]

AlertTypes ==
  rows \in [Alerts!Ids -> AlertRow] /\ tools \in [Callers -> ToolCall] /\ tally \in AlertTally

FiringInv ==
  \A id \in Alerts!Ids :
    /\ rows[id].st \in {"none", "active"} => tally.fired[id] = 0 /\ rows[id].count = 0
    /\ rows[id].st = "active" => rows[id].max = 1
    /\ rows[id].due => tally.fired[id] = 1
    /\ tally.fired[id] <= 1
    /\ rows[id].st = "exhausted" /\ tally.told[id] = 0 => rows[id].due

ToolInv ==
  \A c \in Callers :
    /\ tools[c].pc = "insert" => tools[c].id \in Alerts!Ids /\ tools[c].max = 1
    /\ tools[c].pc = "ack" => \A id \in tools[c].ids : tools[c].read[id] = 1 /\ tally.fired[id] = 1

Setting(svc) == {c \in Callers : tools[c].pc = "insert" /\ ServiceOf[tools[c].id] = svc}
ActiveOf(svc) == Alerts!Active \cap Alerts!Of(svc)

LimitInv ==
  \A svc \in Alerts!Services : Cardinality(ActiveOf(svc)) + Cardinality(Setting(svc)) <= AlertLimit + Cardinality(Callers) - 1

AlertInv == AlertTypes /\ FiringInv /\ ToolInv /\ LimitInv

LEMMA AlertCount == ASSUME NEW S PROVE Alerts!Cardinality(S) = Cardinality(S)
BY DEF Alerts!Cardinality, Cardinality

\* The sets that are counted are finite.
LEMMA AlertsFinite ==
  ASSUME IsFiniteSet(Alerts!Ids), IsFiniteSet(Callers), NEW svc
  PROVE  /\ IsFiniteSet(ActiveOf(svc)) /\ Cardinality(ActiveOf(svc)) \in Nat
         /\ IsFiniteSet(Setting(svc)) /\ Cardinality(Setting(svc)) \in Nat
         /\ Cardinality(Setting(svc)) <= Cardinality(Callers) /\ Cardinality(Callers) \in Nat
<1>1. ActiveOf(svc) \subseteq Alerts!Ids /\ Setting(svc) \subseteq Callers
  BY DEF ActiveOf, Setting, Alerts!Active
<1> QED BY <1>1, FS_Subset, FS_CardinalityType

LEMMA AlertsFollow ==
  ASSUME AlertInv, IsFiniteSet(Alerts!Ids), IsFiniteSet(Callers), AlertLimit \in Nat
  PROVE  Alerts!FiringsAreTold
<1>1. ASSUME NEW id \in Alerts!Ids
      PROVE  /\ tally.fired[id] > tally.told[id] /\ rows[id].st # "cancelled" => rows[id].due
             /\ rows[id].max = 1 => tally.fired[id] <= 1
  <2>1. tally.fired[id] \in Nat /\ tally.told[id] \in Nat /\ rows[id].st \in AlertStates
    BY DEF AlertInv, AlertTypes, AlertRow, AlertTally
  <2>2. /\ rows[id].st \in {"none", "active"} => tally.fired[id] = 0
        /\ tally.fired[id] <= 1
        /\ rows[id].st = "exhausted" /\ tally.told[id] = 0 => rows[id].due
    BY DEF AlertInv, FiringInv
  <2>3. ASSUME tally.fired[id] > tally.told[id], rows[id].st # "cancelled" PROVE rows[id].due
    <3>1. tally.fired[id] # 0 /\ tally.told[id] = 0
      BY <2>1, <2>2, <2>3
    <3> QED BY <2>1, <2>2, <2>3, <3>1 DEF AlertStates
  <2> QED BY <2>2, <2>3
<1>2. ASSUME NEW svc \in Alerts!Services
      PROVE  Alerts!Cardinality(Alerts!Active \cap Alerts!Of(svc)) <= AlertLimit + Alerts!Cardinality(Callers) - 1
  <2>1. Cardinality(ActiveOf(svc)) + Cardinality(Setting(svc)) <= AlertLimit + Cardinality(Callers) - 1
    BY DEF AlertInv, LimitInv
  <2>2. /\ Alerts!Cardinality(ActiveOf(svc)) = Cardinality(ActiveOf(svc))
        /\ Alerts!Cardinality(Callers) = Cardinality(Callers)
    BY AlertCount
  <2>3. Cardinality(ActiveOf(svc)) \in Nat /\ Cardinality(Setting(svc)) \in Nat /\ Cardinality(Callers) \in Nat
    BY AlertsFinite
  <2>4. Cardinality(ActiveOf(svc)) <= AlertLimit + Cardinality(Callers) - 1
    BY <2>1, <2>3
  <2> QED BY <2>2, <2>4 DEF ActiveOf
<1> QED BY <1>1, <1>2 DEF Alerts!FiringsAreTold

LEMMA AlertInit ==
  ASSUME Alerts!Init, IsFiniteSet(Alerts!Ids), IsFiniteSet(Callers), Callers # {}, AlertLimit \in Nat
  PROVE  AlertInv
<1>1. AlertTypes /\ FiringInv /\ ToolInv
  BY DEF Alerts!Init, Alerts!Never, Alerts!NoCall, AlertTypes, AlertRow, AlertStates, ToolCall, ToolStates, AlertTally,
         FiringInv, ToolInv
<1>2. ASSUME NEW svc \in Alerts!Services
      PROVE  Cardinality(ActiveOf(svc)) + Cardinality(Setting(svc)) <= AlertLimit + Cardinality(Callers) - 1
  <2>1. ActiveOf(svc) = {} /\ Setting(svc) = {}
    BY DEF Alerts!Init, Alerts!NoCall, ActiveOf, Setting, Alerts!Active
  <2>2. Cardinality(Callers) \in Nat \ {0}
    BY FS_EmptySet, FS_CardinalityType
  <2>3. Cardinality(ActiveOf(svc)) = 0 /\ Cardinality(Setting(svc)) = 0
    BY <2>1, FS_EmptySet
  <2> QED BY <2>2, <2>3
<1> QED BY <1>1, <1>2 DEF AlertInv, LimitInv

\* A step after which no more alerts are active, nor about to be set, keeps the limit.
LEMMA NoMoreKeeps ==
  ASSUME LimitInv, IsFiniteSet(Alerts!Ids), IsFiniteSet(Callers), AlertLimit \in Nat, NEW svc \in Alerts!Services,
         ActiveOf(svc)' \subseteq ActiveOf(svc), Setting(svc)' \subseteq Setting(svc)
  PROVE  Cardinality(ActiveOf(svc)') + Cardinality(Setting(svc)') <= AlertLimit + Cardinality(Callers) - 1
<1>1. Cardinality(ActiveOf(svc)') \in Nat /\ Cardinality(ActiveOf(svc)') <= Cardinality(ActiveOf(svc))
  BY AlertsFinite, FS_Subset, FS_CardinalityType
<1>2. Cardinality(Setting(svc)') \in Nat /\ Cardinality(Setting(svc)') <= Cardinality(Setting(svc))
  BY AlertsFinite, FS_Subset, FS_CardinalityType
<1>3. Cardinality(ActiveOf(svc)) + Cardinality(Setting(svc)) <= AlertLimit + Cardinality(Callers) - 1
  BY DEF LimitInv
<1> QED BY <1>1, <1>2, <1>3, AlertsFinite

\* One row, or one call, changes.
LEMMA RowChanges ==
  ASSUME AlertTypes, NEW id \in Alerts!Ids, NEW row \in AlertRow, rows' = [rows EXCEPT ![id] = row]
  PROVE  rows' \in [Alerts!Ids -> AlertRow] /\ rows'[id] = row /\ \A i \in Alerts!Ids \ {id} : rows'[i] = rows[i]
BY DEF AlertTypes

LEMMA CallChanges ==
  ASSUME AlertTypes, NEW c \in Callers, NEW t \in ToolCall, tools' = [tools EXCEPT ![c] = t]
  PROVE  tools' \in [Callers -> ToolCall] /\ tools'[c] = t /\ \A d \in Callers \ {c} : tools'[d] = tools[d]
BY DEF AlertTypes

LEMMA NoCallTyped == Alerts!NoCall \in ToolCall /\ Alerts!NoCall.pc = "idle"
BY DEF Alerts!NoCall, Alerts!Never, ToolCall, ToolStates

LEMMA CountKeeps ==
  ASSUME AlertInv, IsFiniteSet(Alerts!Ids), IsFiniteSet(Callers), AlertLimit \in Nat, Asked \subseteq {0, 1},
         NEW c \in Callers, NEW id \in Alerts!Ids, NEW asked \in Asked \cup {1}, Alerts!CountActiveAlerts(c, id, asked)
  PROVE  AlertInv'
<1> DEFINE t == [Alerts!NoCall EXCEPT !.pc = "insert", !.id = id, !.max = 1]
<1>1. /\ tools[c].pc = "idle" /\ Alerts!Cardinality(ActiveOf(ServiceOf[id])) < AlertLimit
      /\ tools' = [tools EXCEPT ![c] = t] /\ tally' = [tally EXCEPT !.sets = @ + 1] /\ rows' = rows
  <2>1. Alerts!MaxTriggers(asked) = 1
    <3>1. asked = 0 \/ asked = 1
      OBVIOUS
    <3> QED BY <3>1 DEF Alerts!MaxTriggers
  <2> QED BY <2>1 DEF Alerts!CountActiveAlerts, ActiveOf
<1>2. t \in ToolCall /\ t.pc = "insert" /\ t.id = id /\ t.max = 1
  BY NoCallTyped DEF ToolCall, ToolStates
<1> HIDE DEF t
<1>3. tools' \in [Callers -> ToolCall] /\ tools'[c] = t /\ \A d \in Callers \ {c} : tools'[d] = tools[d]
  BY <1>1, <1>2, CallChanges DEF AlertInv
<1>4. tally' \in AlertTally /\ tally'.fired = tally.fired /\ tally'.told = tally.told
  BY <1>1 DEF AlertInv, AlertTypes, AlertTally
<1>5. AlertTypes' /\ FiringInv' /\ ToolInv'
  BY <1>1, <1>2, <1>3, <1>4 DEF AlertInv, AlertTypes, FiringInv, ToolInv
<1>6. ASSUME NEW svc \in Alerts!Services
      PROVE  Cardinality(ActiveOf(svc)') + Cardinality(Setting(svc)') <= AlertLimit + Cardinality(Callers) - 1
  <2>1. ActiveOf(svc)' = ActiveOf(svc)
    BY <1>1 DEF ActiveOf, Alerts!Active
  <2>2. CASE svc # ServiceOf[id]
    <3>1. Setting(svc)' \subseteq Setting(svc)
      BY <1>2, <1>3, <2>2 DEF Setting
    <3> QED BY <2>1, <3>1, NoMoreKeeps DEF AlertInv
  <2>3. CASE svc = ServiceOf[id]
    <3>1. Setting(svc)' \subseteq Callers
      BY DEF Setting
    <3>2. Cardinality(Setting(svc)') \in Nat /\ Cardinality(Setting(svc)') <= Cardinality(Callers)
      BY <3>1, FS_Subset, FS_CardinalityType
    <3>3. Cardinality(ActiveOf(svc)) \in Nat /\ Cardinality(ActiveOf(svc)) < AlertLimit /\ Cardinality(Callers) \in Nat
      BY <1>1, <2>3, AlertCount, AlertsFinite
    <3> QED BY <2>1, <3>2, <3>3
  <2> QED BY <2>2, <2>3
<1> QED BY <1>5, <1>6 DEF AlertInv, LimitInv

LEMMA UpsertKeeps ==
  ASSUME AlertInv, IsFiniteSet(Alerts!Ids), IsFiniteSet(Callers), AlertLimit \in Nat, NEW c \in Callers, Alerts!UpsertAlert(c)
  PROVE  AlertInv'
<1> DEFINE id == tools[c].id
<1>1. tools[c].pc = "insert" /\ tools' = [tools EXCEPT ![c] = Alerts!NoCall] /\ tally' = tally
  BY DEF Alerts!UpsertAlert
<1>2. id \in Alerts!Ids /\ tools[c].max = 1
  BY <1>1 DEF AlertInv, ToolInv
<1>3. tools' \in [Callers -> ToolCall] /\ tools'[c] = Alerts!NoCall /\ \A d \in Callers \ {c} : tools'[d] = tools[d]
  BY <1>1, NoCallTyped, CallChanges DEF AlertInv
<1>4. PICK row \in AlertRow :
        /\ rows' = [rows EXCEPT ![id] = row]
        /\ \/ row = rows[id]
           \/ /\ rows[id].st \in {"none", "active"} /\ row.st = "active" /\ row.max = 1 /\ row.count = 0
              /\ row.due = FALSE \/ row.due = rows[id].due
  <2>1. rows \in [Alerts!Ids -> AlertRow] /\ rows[id] \in AlertRow
    BY <1>2 DEF AlertInv, AlertTypes
  <2>2. CASE rows[id].st = "none"
    <3> DEFINE row == [st |-> "active", count |-> 0, max |-> tools[c].max, due |-> FALSE]
    <3>1. rows' = [rows EXCEPT ![id] = row]
      BY <2>2 DEF Alerts!UpsertAlert
    <3>2. row \in AlertRow /\ row.st = "active" /\ row.max = 1 /\ row.count = 0 /\ row.due = FALSE
      BY <1>2 DEF AlertRow, AlertStates
    <3> HIDE DEF row
    <3> QED BY <2>2, <3>1, <3>2
  <2>3. CASE rows[id].st = "active"
    <3> DEFINE row == [rows[id] EXCEPT !.max = 1]
    <3>1. rows' = [rows EXCEPT ![id] = row]
      BY <1>2, <2>1, <2>3 DEF Alerts!UpsertAlert
    <3>2. row \in AlertRow /\ row.st = "active" /\ row.max = 1 /\ row.count = rows[id].count /\ row.due = rows[id].due
      BY <2>1, <2>3 DEF AlertRow
    <3>3. rows[id].count = 0
      BY <1>2, <2>3 DEF AlertInv, FiringInv
    <3> HIDE DEF row
    <3> QED BY <2>3, <3>1, <3>2, <3>3
  <2>4. CASE rows[id].st \notin {"none", "active"}
    <3>1. rows' = rows
      BY <2>4 DEF Alerts!UpsertAlert
    <3>2. rows' = [rows EXCEPT ![id] = rows[id]]
      BY <2>1, <3>1
    <3> QED BY <2>1, <3>2
  <2> QED BY <2>2, <2>3, <2>4
<1>5. rows' \in [Alerts!Ids -> AlertRow] /\ rows'[id] = row /\ \A i \in Alerts!Ids \ {id} : rows'[i] = rows[i]
  BY <1>2, <1>4, RowChanges DEF AlertInv
<1>6. AlertTypes'
  BY <1>1, <1>3, <1>5 DEF AlertInv, AlertTypes
<1>7. FiringInv'
  <2>1. ASSUME NEW i \in Alerts!Ids
        PROVE  /\ rows'[i].st \in {"none", "active"} => tally.fired[i] = 0 /\ rows'[i].count = 0
               /\ rows'[i].st = "active" => rows'[i].max = 1
               /\ rows'[i].due => tally.fired[i] = 1
               /\ tally.fired[i] <= 1
               /\ rows'[i].st = "exhausted" /\ tally.told[i] = 0 => rows'[i].due
    <3>1. CASE i = id
      BY <1>4, <1>5, <3>1 DEF AlertInv, FiringInv
    <3>2. CASE i # id
      BY <1>5, <3>2 DEF AlertInv, FiringInv
    <3> QED BY <3>1, <3>2
  <2> QED BY <1>1, <2>1 DEF FiringInv
<1>8. ToolInv'
  BY <1>1, <1>3, NoCallTyped DEF AlertInv, ToolInv
<1>9. ASSUME NEW svc \in Alerts!Services
      PROVE  Cardinality(ActiveOf(svc)') + Cardinality(Setting(svc)') <= AlertLimit + Cardinality(Callers) - 1
  <2>1. Setting(svc)' = Setting(svc) \ {c}
    BY <1>3, NoCallTyped DEF Setting
  <2>2. CASE svc # ServiceOf[id]
    <3>1. ActiveOf(svc)' \subseteq ActiveOf(svc)
      BY <1>2, <1>5, <2>2 DEF ActiveOf, Alerts!Active, Alerts!Of
    <3> QED BY <2>1, <3>1, NoMoreKeeps DEF AlertInv
  <2>3. CASE svc = ServiceOf[id]
    <3>1. ActiveOf(svc)' \subseteq ActiveOf(svc) \cup {id} /\ c \in Setting(svc)
      BY <1>1, <1>2, <1>5, <2>3 DEF ActiveOf, Setting, Alerts!Active, Alerts!Of
    <3>2. Cardinality(Setting(svc)') = Cardinality(Setting(svc)) - 1
      BY <2>1, <3>1, AlertsFinite, FS_RemoveElement
    <3>3. IsFiniteSet(ActiveOf(svc) \cup {id}) /\ Cardinality(ActiveOf(svc) \cup {id}) <= Cardinality(ActiveOf(svc)) + 1
      <4>1. IsFiniteSet(ActiveOf(svc)) /\ Cardinality(ActiveOf(svc)) \in Nat
        BY AlertsFinite
      <4>2. /\ IsFiniteSet(ActiveOf(svc) \cup {id})
            /\ \/ Cardinality(ActiveOf(svc) \cup {id}) = Cardinality(ActiveOf(svc))
               \/ Cardinality(ActiveOf(svc) \cup {id}) = Cardinality(ActiveOf(svc)) + 1
        BY <4>1, FS_AddElement
      <4> QED BY <4>1, <4>2
    <3>4. Cardinality(ActiveOf(svc)') \in Nat /\ Cardinality(ActiveOf(svc)') <= Cardinality(ActiveOf(svc) \cup {id})
      BY <3>1, <3>3, FS_Subset, FS_CardinalityType
    <3>5. Cardinality(ActiveOf(svc)) + Cardinality(Setting(svc)) <= AlertLimit + Cardinality(Callers) - 1
      BY DEF AlertInv, LimitInv
    <3>6. Cardinality(ActiveOf(svc) \cup {id}) \in Nat
      BY <3>3, FS_CardinalityType
    <3> QED BY <3>2, <3>3, <3>4, <3>5, <3>6, AlertsFinite
  <2> QED BY <2>2, <2>3
<1> QED BY <1>6, <1>7, <1>8, <1>9 DEF AlertInv, LimitInv

\* The steps after which no more alerts are active, nor about to be set.
LEMMA LimitKept ==
  ASSUME AlertInv, IsFiniteSet(Alerts!Ids), IsFiniteSet(Callers), AlertLimit \in Nat,
         \A i \in Alerts!Ids : rows'[i].st = "active" => rows[i].st = "active",
         \A c \in Callers : tools'[c].pc = "insert" => tools[c].pc = "insert" /\ tools'[c].id = tools[c].id
  PROVE  LimitInv'
<1>1. ASSUME NEW svc \in Alerts!Services
      PROVE  Cardinality(ActiveOf(svc)') + Cardinality(Setting(svc)') <= AlertLimit + Cardinality(Callers) - 1
  <2>1. ActiveOf(svc)' \subseteq ActiveOf(svc) /\ Setting(svc)' \subseteq Setting(svc)
    BY DEF ActiveOf, Setting, Alerts!Active
  <2> QED BY <2>1, NoMoreKeeps DEF AlertInv
<1> QED BY <1>1 DEF LimitInv

LEMMA CancelKeeps ==
  ASSUME AlertInv, IsFiniteSet(Alerts!Ids), IsFiniteSet(Callers), AlertLimit \in Nat,
         NEW c \in Callers, NEW id \in Alerts!Ids, Alerts!CancelAlert(c, id)
  PROVE  AlertInv'
<1> DEFINE row == [rows[id] EXCEPT !.st = "cancelled"]
<1>1. rows[id].st \in {"active", "exhausted"} /\ UNCHANGED <<tools, tally>> /\ rows' = [rows EXCEPT ![id] = row]
  BY DEF Alerts!CancelAlert
<1>2. rows[id] \in AlertRow
  BY DEF AlertInv, AlertTypes
<1>3. row \in AlertRow /\ row.st = "cancelled" /\ row.due = rows[id].due
  BY <1>2 DEF AlertRow, AlertStates
<1> HIDE DEF row
<1>4. rows' \in [Alerts!Ids -> AlertRow] /\ rows'[id] = row /\ \A i \in Alerts!Ids \ {id} : rows'[i] = rows[i]
  BY <1>1, <1>3, RowChanges DEF AlertInv
<1>5. AlertTypes'
  BY <1>1, <1>4 DEF AlertInv, AlertTypes
<1>6. ASSUME NEW i \in Alerts!Ids
      PROVE  /\ rows'[i].st \in {"none", "active"} => tally.fired[i] = 0 /\ rows'[i].count = 0
             /\ rows'[i].st = "active" => rows'[i].max = 1
             /\ rows'[i].due => tally.fired[i] = 1
             /\ tally.fired[i] <= 1
             /\ rows'[i].st = "exhausted" /\ tally.told[i] = 0 => rows'[i].due
  <2>1. CASE i = id
    BY <1>3, <1>4, <2>1 DEF AlertInv, FiringInv
  <2>2. CASE i # id
    BY <1>4, <2>2 DEF AlertInv, FiringInv
  <2> QED BY <2>1, <2>2
<1>7. FiringInv' /\ ToolInv'
  BY <1>1, <1>6 DEF AlertInv, FiringInv, ToolInv
<1>8. \A i \in Alerts!Ids : rows'[i].st = "active" => rows[i].st = "active"
  BY <1>3, <1>4
<1>9. LimitInv'
  BY <1>1, <1>8, LimitKept
<1> QED BY <1>5, <1>7, <1>9 DEF AlertInv

\* What is read has fired once, and is not fired again.
LEMMA ReadKeeps ==
  ASSUME AlertInv, IsFiniteSet(Alerts!Ids), IsFiniteSet(Callers), AlertLimit \in Nat,
         NEW c \in Callers, NEW svcs, Alerts!GetTriggeredAlerts(c, svcs)
  PROVE  AlertInv'
<1> DEFINE ids == {id \in Alerts!Ids : rows[id].due /\ rows[id].st \in {"active", "exhausted"} /\ ServiceOf[id] \in svcs}
           t == [Alerts!NoCall EXCEPT !.pc = "ack", !.ids = ids, !.read = tally.fired]
<1>1. tools' = [tools EXCEPT ![c] = t] /\ UNCHANGED <<rows, tally>>
  BY DEF Alerts!GetTriggeredAlerts
<1>2. t \in ToolCall /\ t.pc = "ack" /\ t.ids = ids /\ t.read = tally.fired
  <2>1. tally.fired \in [Alerts!Ids -> Nat] /\ ids \in SUBSET Alerts!Ids
    BY DEF AlertInv, AlertTypes, AlertTally
  <2> QED BY <2>1, NoCallTyped DEF ToolCall, ToolStates
<1>3. \A id \in ids : tally.fired[id] = 1
  BY DEF AlertInv, FiringInv
<1> HIDE DEF t, ids
<1>4. tools' \in [Callers -> ToolCall] /\ tools'[c] = t /\ \A d \in Callers \ {c} : tools'[d] = tools[d]
  BY <1>1, <1>2, CallChanges DEF AlertInv
<1>5. AlertTypes' /\ FiringInv'
  BY <1>1, <1>4 DEF AlertInv, AlertTypes, FiringInv
<1>6. ASSUME NEW d \in Callers
      PROVE  /\ tools'[d].pc = "insert" => tools'[d].id \in Alerts!Ids /\ tools'[d].max = 1
             /\ tools'[d].pc = "ack" => \A id \in tools'[d].ids : tools'[d].read[id] = 1 /\ tally.fired[id] = 1
  <2>1. CASE d = c
    BY <1>2, <1>3, <1>4, <2>1
  <2>2. CASE d # c
    BY <1>4, <2>2 DEF AlertInv, ToolInv
  <2> QED BY <2>1, <2>2
<1>7. ToolInv'
  BY <1>1, <1>6 DEF ToolInv
<1>8. \A d \in Callers : tools'[d].pc = "insert" => tools[d].pc = "insert" /\ tools'[d].id = tools[d].id
  BY <1>2, <1>4
<1>9. LimitInv'
  BY <1>1, <1>8, LimitKept
<1> QED BY <1>5, <1>7, <1>9 DEF AlertInv

LEMMA AckKeeps ==
  ASSUME AlertInv, IsFiniteSet(Alerts!Ids), IsFiniteSet(Callers), AlertLimit \in Nat,
         NEW c \in Callers, NEW done \in BOOLEAN, Alerts!AckTriggeredAlerts(c, done)
  PROVE  AlertInv'
<1> DEFINE told == [id \in Alerts!Ids |-> IF id \in tools[c].ids THEN tools[c].read[id] ELSE tally.told[id]]
<1>1. /\ tools[c].pc = "ack" /\ tools' = [tools EXCEPT ![c] = Alerts!NoCall]
      /\ tally' = [tally EXCEPT !.told = told]
  BY DEF Alerts!AckTriggeredAlerts, AlertInv, AlertTypes, AlertTally
<1>2. tools[c] \in ToolCall /\ \A id \in tools[c].ids : id \in Alerts!Ids /\ tools[c].read[id] = 1 /\ tally.fired[id] = 1
  BY <1>1 DEF AlertInv, AlertTypes, ToolInv, ToolCall
<1>3. /\ told \in [Alerts!Ids -> Nat]
      /\ \A i \in Alerts!Ids : told[i] = IF i \in tools[c].ids THEN 1 ELSE tally.told[i]
  BY <1>2 DEF AlertInv, AlertTypes, AlertTally
<1> HIDE DEF told
<1>4. tally' \in AlertTally /\ tally'.told = told /\ tally'.fired = tally.fired
  BY <1>1, <1>3 DEF AlertInv, AlertTypes, AlertTally
<1>5. /\ rows' \in [Alerts!Ids -> AlertRow]
      /\ \A i \in Alerts!Ids : /\ rows'[i].st = rows[i].st /\ rows'[i].max = rows[i].max /\ rows'[i].count = rows[i].count
                               /\ rows'[i].due => rows[i].due
                               /\ rows[i].due /\ i \notin tools[c].ids => rows'[i].due
  <2>1. rows \in [Alerts!Ids -> AlertRow]
    BY DEF AlertInv, AlertTypes
  <2>2. CASE done
    BY <2>1, <2>2 DEF Alerts!AckTriggeredAlerts, AlertRow
  <2>3. CASE ~ done
    BY <2>1, <2>3 DEF Alerts!AckTriggeredAlerts, AlertRow
  <2> QED BY <2>2, <2>3
<1>6. tools' \in [Callers -> ToolCall] /\ tools'[c] = Alerts!NoCall /\ \A d \in Callers \ {c} : tools'[d] = tools[d]
  BY <1>1, NoCallTyped, CallChanges DEF AlertInv
<1>7. AlertTypes'
  BY <1>4, <1>5, <1>6 DEF AlertTypes
<1>8. ASSUME NEW i \in Alerts!Ids
      PROVE  /\ rows'[i].st \in {"none", "active"} => tally.fired[i] = 0 /\ rows'[i].count = 0
             /\ rows'[i].st = "active" => rows'[i].max = 1
             /\ rows'[i].due => tally.fired[i] = 1
             /\ tally.fired[i] <= 1
             /\ rows'[i].st = "exhausted" /\ told[i] = 0 => rows'[i].due
  <2>1. /\ rows[i].st \in {"none", "active"} => tally.fired[i] = 0 /\ rows[i].count = 0
        /\ rows[i].st = "active" => rows[i].max = 1
        /\ rows[i].due => tally.fired[i] = 1
        /\ tally.fired[i] <= 1
        /\ rows[i].st = "exhausted" /\ tally.told[i] = 0 => rows[i].due
    BY DEF AlertInv, FiringInv
  <2>2. CASE i \in tools[c].ids
    <3>1. told[i] = 1 /\ tally.fired[i] = 1
      BY <1>2, <1>3, <2>2
    <3> QED BY <1>5, <2>1, <3>1
  <2>3. CASE i \notin tools[c].ids
    BY <1>3, <1>5, <2>1, <2>3
  <2> QED BY <2>2, <2>3
<1>9. FiringInv'
  BY <1>4, <1>8 DEF FiringInv
<1>10. ToolInv'
  BY <1>4, <1>6, NoCallTyped DEF AlertInv, ToolInv
<1>11. LimitInv'
  BY <1>5, <1>6, NoCallTyped, LimitKept
<1> QED BY <1>7, <1>9, <1>10, <1>11 DEF AlertInv

\* A firing exhausts the alert.
LEMMA MarkKeeps ==
  ASSUME AlertInv, IsFiniteSet(Alerts!Ids), IsFiniteSet(Callers), AlertLimit \in Nat,
         NEW s \in Servers, NEW id \in Alerts!Ids, Alerts!MarkAlertTriggered(s, id), id \in Alerts!Active
  PROVE  AlertInv'
<1> DEFINE fired == [tally.fired EXCEPT ![id] = @ + 1]
<1>1. rows \in [Alerts!Ids -> AlertRow] /\ rows[id] \in AlertRow /\ rows[id].st = "active"
  BY DEF AlertInv, AlertTypes, Alerts!Active
<1>2. rows[id].max = 1 /\ rows[id].count = 0 /\ tally.fired[id] = 0
  BY <1>1 DEF AlertInv, FiringInv
<1>3. /\ tools' = tools
      /\ rows' = [rows EXCEPT ![id].count = @ + 1, ![id].due = TRUE,
                    ![id].st = IF rows[id].max > 0 /\ rows[id].count + 1 >= rows[id].max THEN "exhausted" ELSE @]
  BY DEF Alerts!MarkAlertTriggered
<1>4. /\ rows' \in [Alerts!Ids -> AlertRow]
      /\ rows'[id].st = "exhausted" /\ rows'[id].due
      /\ \A i \in Alerts!Ids \ {id} : rows'[i] = rows[i]
  <2>1. rows' = [rows EXCEPT ![id] = [st |-> "exhausted", count |-> 1, max |-> 1, due |-> TRUE]]
    BY <1>1, <1>2, <1>3 DEF AlertRow
  <2>2. [st |-> "exhausted", count |-> 1, max |-> 1, due |-> TRUE] \in AlertRow
    BY DEF AlertRow, AlertStates
  <2> QED BY <1>1, <2>1, <2>2
<1>5. fired \in [Alerts!Ids -> Nat] /\ fired[id] = 1 /\ \A i \in Alerts!Ids \ {id} : fired[i] = tally.fired[i]
  BY <1>2 DEF AlertInv, AlertTypes, AlertTally
<1>6. tally' = [tally EXCEPT !.fired = fired]
  BY DEF Alerts!MarkAlertTriggered, AlertInv, AlertTypes, AlertTally
<1> HIDE DEF fired
<1>7. tally' \in AlertTally /\ tally'.fired = fired /\ tally'.told = tally.told
  BY <1>5, <1>6 DEF AlertInv, AlertTypes, AlertTally
<1>9. AlertTypes'
  BY <1>3, <1>4, <1>7 DEF AlertInv, AlertTypes
<1>10. ASSUME NEW i \in Alerts!Ids
       PROVE  /\ rows'[i].st \in {"none", "active"} => fired[i] = 0 /\ rows'[i].count = 0
              /\ rows'[i].st = "active" => rows'[i].max = 1
              /\ rows'[i].due => fired[i] = 1
              /\ fired[i] <= 1
              /\ rows'[i].st = "exhausted" /\ tally.told[i] = 0 => rows'[i].due
  <2>1. CASE i = id
    BY <1>4, <1>5, <2>1
  <2>2. CASE i # id
    BY <1>4, <1>5, <2>2 DEF AlertInv, FiringInv
  <2> QED BY <2>1, <2>2
<1>11. FiringInv'
  BY <1>7, <1>10 DEF FiringInv
<1>12. ToolInv'
  \* Nobody has read it: it had not fired.
  <2>1. ASSUME NEW c \in Callers, tools[c].pc = "ack", NEW i \in tools[c].ids
        PROVE  tools[c].read[i] = 1 /\ fired[i] = 1
    <3>1. tools[c].read[i] = 1 /\ tally.fired[i] = 1 /\ i \in Alerts!Ids
      BY <2>1 DEF AlertInv, ToolInv, AlertTypes, ToolCall
    <3> QED BY <1>2, <1>5, <3>1
  <2> QED BY <1>3, <1>7, <2>1 DEF AlertInv, ToolInv
<1>13. \A i \in Alerts!Ids : rows'[i].st = "active" => rows[i].st = "active"
  BY <1>4
<1>14. LimitInv'
  BY <1>3, <1>13, LimitKept
<1> QED BY <1>9, <1>11, <1>12, <1>14 DEF AlertInv

LEMMA AlertStep ==
  ASSUME AlertInv, IsFiniteSet(Alerts!Ids), IsFiniteSet(Callers), AlertLimit \in Nat, Asked \subseteq {0, 1},
         [Alerts!Next]_(Alerts!vars)
  PROVE  AlertInv'
<1>1. ASSUME UNCHANGED <<rows, tools>>, tally' \in AlertTally, tally'.fired = tally.fired, tally'.told = tally.told
      PROVE  AlertInv'
  <2>1. LimitInv'
    BY <1>1, LimitKept
  <2> QED BY <1>1, <2>1 DEF AlertInv, AlertTypes, FiringInv, ToolInv
<1>2. ASSUME NEW c \in Callers, NEW id \in Alerts!Ids, Alerts!CancelAlert(c, id) PROVE AlertInv'
  BY <1>2, CancelKeeps
<1>3. ASSUME NEW c \in Callers, NEW id \in Alerts!Ids, NEW asked \in (IF ServiceOf[id] = "news" THEN Asked ELSE {1}),
             Alerts!CountActiveAlerts(c, id, asked)
      PROVE  AlertInv'
  <2>1. asked \in Asked \cup {1}
    BY <1>3
  <2> QED BY <1>3, <2>1, CountKeeps
<1>4. ASSUME NEW c \in Callers, Alerts!UpsertAlert(c) PROVE AlertInv'
  BY <1>4, UpsertKeeps
<1>5. ASSUME NEW c \in Callers, NEW svcs \in {Alerts!Services, {"news"}}, Alerts!GetTriggeredAlerts(c, svcs) PROVE AlertInv'
  BY <1>5, ReadKeeps
<1>6. ASSUME NEW c \in Callers, NEW done \in BOOLEAN, Alerts!AckTriggeredAlerts(c, done) PROVE AlertInv'
  BY <1>6, AckKeeps
<1>7. tally \in AlertTally
  BY DEF AlertInv, AlertTypes
<1>8. ASSUME NEW s \in Servers, NEW id \in Alerts!Ids, Alerts!MarkAlertTriggered(s, id) PROVE AlertInv'
  <2>1. CASE id \in Alerts!Active
    BY <1>8, <2>1, MarkKeeps
  <2>2. CASE id \notin Alerts!Active
    BY <1>1, <1>7, <1>8, <2>2 DEF Alerts!MarkAlertTriggered
  <2> QED BY <2>1, <2>2
<1>9. ASSUME NEW s \in Servers,
             \/ \E svc \in Alerts!Services : Alerts!PollStart(s, svc)
             \/ Alerts!PollTicker(s)
             \/ Alerts!TickerFails(s)
             \/ \E id \in Alerts!Ids : Alerts!LeaveAlert(s, id)
      PROVE  AlertInv'
  <2>1. UNCHANGED <<rows, tools, tally>>
    BY <1>9 DEF Alerts!PollStart, Alerts!PollTicker, Alerts!TickerFails, Alerts!LeaveAlert
  <2> QED BY <1>1, <1>7, <2>1
<1>10. ASSUME NEW id \in Alerts!Ids, Alerts!Turn(id) PROVE AlertInv'
  <2>1. UNCHANGED <<rows, tools>> /\ tally' = [tally EXCEPT !.turns = @ + 1]
    BY <1>10 DEF Alerts!Turn
  <2>2. tally' \in AlertTally /\ tally'.fired = tally.fired /\ tally'.told = tally.told
    BY <1>7, <2>1 DEF AlertTally
  <2> QED BY <1>1, <2>1, <2>2
<1>11. CASE UNCHANGED Alerts!vars
  BY <1>1, <1>7, <1>11 DEF Alerts!vars
<1> QED BY <1>2, <1>3, <1>4, <1>5, <1>6, <1>8, <1>9, <1>10, <1>11 DEF Alerts!Next

\* alert/triggered, news/get_triggered_alerts and the pollers: an alert that may fire once fires
\* once, the agent hears of it unless it cancels it first, and the limit is exceeded at most by
\* the calls that counted at the same time.
THEOREM AlertsTold ==
  ASSUME ServicesAssumption, IsFiniteSet(DOMAIN ServiceOf), IsFiniteSet(Callers), Callers # {}, Asked \subseteq {0, 1}
  PROVE  Spec => []AlertsAreTold
<1> DEFINE Inv == part = "alerts" => AlertInv
<1>1. AlertLimit \in Nat /\ IsFiniteSet(Alerts!Ids)
  BY DEF ServicesAssumption, Alerts!AgentAlertsAssumption, Alerts!Ids
<1>2. Inv => AlertsAreTold
  BY <1>1, AlertsFollow DEF AlertsAreTold
<1>3. Init => Inv
  BY <1>1, AlertInit DEF Init
<1>4. Inv /\ [Next]_vars => Inv'
  BY <1>1, StepOfAlerts, AlertStep
<1> QED BY <1>2, <1>3, <1>4, PTL DEF Spec

-----------------------------------------------------------------------------
(* The agent's output in a chat.  What is in the buffer are the last pieces, in their order; what *)
(* is in hand and in the chat are parts of such texts.                                            *)

Text == Seq(Nat)
Consecutive(s) == \A k \in 1..(Len(s) - 1) : s[k + 1] = s[k] + 1
Shows(s, piece) == \E j \in 1..Len(s) : s[j] = piece

Output == [buf : Text, msg : Nat, silent : BOOLEAN, due : BOOLEAN]
Sending == [pc : {"idle", "placeholder", "adopt", "edit", "send", "overflow"}, msg : Nat, chunks : Seq(Text)]
OutputRecord == [pieces : Nat, sent : SUBSET Nat, faults : Nat, flushes : Nat]

TextTypes ==
  /\ out \in Output /\ chat \in Seq(Text)
  /\ hand \in [Telegram!Procs -> Sending] /\ record \in OutputRecord

BufInv ==
  /\ Consecutive(out.buf)
  /\ out.buf # << >> => out.buf[Len(out.buf)] = record.pieces

GoodHand(h) ==
  /\ \A k \in 1..Len(h.chunks) : Consecutive(h.chunks[k])
  /\ h.pc \in {"idle", "placeholder", "adopt"} => h.chunks = << >>
  /\ h.pc = "edit" => h.chunks # << >>

HandInv == \A p \in Telegram!Procs : GoodHand(hand[p])
ChatInv == \A m \in 1..Len(chat) : Consecutive(chat[m])

Carries(h, piece) == \E k \in 1..Len(h.chunks) : Shows(h.chunks[k], piece)

CoverInv ==
  record.faults = 0 =>
    \A i \in 1..record.pieces :
      Shows(out.buf, i) \/ i \in record.sent \/ \E p \in Telegram!Procs : Carries(hand[p], i)

OutputInv == TextTypes /\ BufInv /\ HandInv /\ ChatInv /\ CoverInv

LEMMA DivFacts ==
  ASSUME NEW a \in Nat, NEW c \in Nat \ {0}
  PROVE  a \div c \in Nat /\ c * (a \div c) <= a /\ a < c * (a \div c) + c
OBVIOUS

LEMMA TimesMonotone ==
  ASSUME NEW a \in Nat, NEW b \in Nat, NEW c \in Nat, a <= b
  PROVE  a * c <= b * c
OBVIOUS

LEMMA PartOfText ==
  ASSUME NEW s \in Seq(Nat), NEW m \in 1..(Len(s) + 1), NEW n \in (m - 1)..Len(s)
  PROVE  /\ SubSeq(s, m, n) \in Seq(Nat) /\ Len(SubSeq(s, m, n)) = n - m + 1
         /\ \A j \in 1..(n - m + 1) : SubSeq(s, m, n)[j] = s[m + j - 1]
OBVIOUS

LEMMA SequenceOf ==
  ASSUME NEW S, NEW n \in Nat, NEW f, f = [k \in 1..n |-> f[k]], \A k \in 1..n : f[k] \in S
  PROVE  f \in Seq(S) /\ Len(f) = n
OBVIOUS

LEMMA ElementReplaced ==
  ASSUME NEW S, NEW s \in Seq(S), NEW i, NEW e \in S
  PROVE  /\ [s EXCEPT ![i] = e] \in Seq(S) /\ Len([s EXCEPT ![i] = e]) = Len(s)
         /\ \A k \in 1..Len(s) : [s EXCEPT ![i] = e][k] \in {e, s[k]}
<1> DEFINE f == [s EXCEPT ![i] = e]
<1>1. Len(s) \in Nat /\ DOMAIN s = 1..Len(s) /\ \A k \in 1..Len(s) : s[k] \in S
  OBVIOUS
<1>2. f = [k \in 1..Len(s) |-> IF k = i THEN e ELSE s[k]]
  BY <1>1
<1> HIDE DEF f
<1>3. /\ f = [k \in 1..Len(s) |-> f[k]]
      /\ \A k \in 1..Len(s) : f[k] \in S /\ f[k] \in {e, s[k]}
  BY <1>1, <1>2
<1>4. f \in Seq(S) /\ Len(f) = Len(s)
  BY <1>1, <1>3, SequenceOf
<1> QED BY <1>3, <1>4 DEF f

\* splitMessage: the chunks are parts of the text, and nothing of it is left out.
LEMMA SplitFacts ==
  ASSUME NEW text \in Text, MessageSize \in Nat \ {0}
  PROVE  LET chunks == Telegram!splitMessage(text) IN
         /\ chunks \in Seq(Text)
         /\ text # << >> => chunks # << >>
         /\ Consecutive(text) => \A k \in 1..Len(chunks) : Consecutive(chunks[k])
         /\ \A piece : Shows(text, piece) => \E k \in 1..Len(chunks) : Shows(chunks[k], piece)
<1> DEFINE n == Len(text)
           C == MessageSize
           q == (n + C - 1) \div C
           to(k) == IF k * C < n THEN k * C ELSE n
           chunks == [k \in 1..q |-> SubSeq(text, (k - 1) * C + 1, to(k))]
<1>1. chunks = Telegram!splitMessage(text)
  BY DEF Telegram!splitMessage
<1>2. n \in Nat /\ C \in Nat \ {0}
  BY DEF Text
<1>3. q \in Nat /\ C * q <= n + C - 1 /\ n + C - 1 < C * q + C
  BY <1>2, DivFacts
<1>4. ASSUME NEW k \in 1..q
      PROVE  /\ (k - 1) * C \in Nat /\ k * C \in Nat /\ (k - 1) * C < n /\ to(k) \in ((k - 1) * C)..n
             /\ to(k) = k * C \/ to(k) = n
  <2>1. k \in Nat \ {0} /\ k <= q
    BY <1>3
  <2>2. (k - 1) * C \in Nat /\ k * C \in Nat /\ k * C = (k - 1) * C + C
    BY <1>2, <2>1
  <2>3. k * C <= q * C
    BY <1>2, <1>3, <2>1, TimesMonotone
  <2>4. q * C = C * q
    BY <1>2, <1>3
  <2> QED BY <1>2, <1>3, <2>2, <2>3, <2>4
<1> HIDE DEF q
<1>5. ASSUME NEW k \in 1..q
      PROVE  /\ chunks[k] \in Text /\ Len(chunks[k]) = to(k) - (k - 1) * C
             /\ \A j \in 1..(to(k) - (k - 1) * C) : chunks[k][j] = text[(k - 1) * C + j]
  <2> DEFINE m == (k - 1) * C
  <2>1. m \in Nat /\ m < n /\ to(k) \in m..n
    BY <1>4
  <2>2. chunks[k] = SubSeq(text, m + 1, to(k))
    OBVIOUS
  <2> HIDE DEF m, to, C, chunks
  <2>3. m + 1 \in 1..(n + 1) /\ to(k) \in ((m + 1) - 1)..n /\ to(k) \in Nat
    BY <1>2, <2>1
  <2>4. /\ SubSeq(text, m + 1, to(k)) \in Seq(Nat) /\ Len(SubSeq(text, m + 1, to(k))) = to(k) - (m + 1) + 1
        /\ \A j \in 1..(to(k) - (m + 1) + 1) : SubSeq(text, m + 1, to(k))[j] = text[(m + 1) + j - 1]
    BY <2>3, PartOfText DEF Text
  <2>5. /\ chunks[k] \in Text /\ Len(chunks[k]) = to(k) - m
        /\ \A j \in 1..(to(k) - m) : chunks[k][j] = text[m + j]
    <3>1. to(k) - (m + 1) + 1 = to(k) - m /\ \A j \in 1..(to(k) - m) : (m + 1) + j - 1 = m + j
      BY <2>1, <2>3
    <3> QED BY <2>2, <2>4, <3>1 DEF Text
  <2> QED BY <2>5 DEF m
<1>6. chunks \in Seq(Text) /\ Len(chunks) = q
  <2>1. chunks = [k \in 1..q |-> chunks[k]] /\ \A k \in 1..q : chunks[k] \in Text
    BY <1>5
  <2> HIDE DEF chunks
  <2> QED BY <1>3, <2>1, SequenceOf
<1> HIDE DEF chunks
<1>7. ASSUME text # << >> PROVE chunks # << >>
  <2>1. n > 0
    BY <1>7 DEF Text
  <2>2. q # 0
    BY <1>2, <1>3, <2>1
  <2> QED BY <1>6, <2>2
<1>8. ASSUME Consecutive(text), NEW k \in 1..q PROVE Consecutive(chunks[k])
  <2> DEFINE m == (k - 1) * C
  <2>1. m \in Nat /\ to(k) \in m..n
    BY <1>4
  <2> HIDE DEF m, to
  <2>2. Len(chunks[k]) = to(k) - m /\ \A j \in 1..(to(k) - m) : chunks[k][j] = text[m + j]
    BY <1>5 DEF m
  <2>3. ASSUME NEW j \in 1..((to(k) - m) - 1) PROVE chunks[k][j + 1] = chunks[k][j] + 1
    <3>1. j \in 1..(to(k) - m) /\ j + 1 \in 1..(to(k) - m) /\ m + j \in 1..(n - 1)
      BY <1>2, <2>1
    <3>2. text[(m + j) + 1] = text[m + j] + 1
      BY <1>8, <3>1 DEF Consecutive
    <3>3. m + (j + 1) = (m + j) + 1
      BY <2>1
    <3> QED BY <2>2, <3>1, <3>2, <3>3
  <2> QED BY <2>2, <2>3 DEF Consecutive
<1>9. ASSUME NEW piece, Shows(text, piece) PROVE \E k \in 1..q : Shows(chunks[k], piece)
  <2>1. PICK i \in 1..n : text[i] = piece
    BY <1>9 DEF Shows
  <2> DEFINE d == (i - 1) \div C
             k == d + 1
  <2>2. d \in Nat /\ C * d <= i - 1 /\ i - 1 < C * d + C
    BY <1>2, DivFacts
  <2>3. d < q
    <3>1. CASE q <= d
      <4>1. C * q <= C * d
        BY <1>2, <1>3, <2>2, <3>1, TimesMonotone
      <4>2. C * q \in Nat /\ C * d \in Nat
        BY <1>2, <1>3, <2>2
      <4> QED BY <1>2, <1>3, <2>2, <4>1, <4>2
    <3> QED BY <1>3, <2>2, <3>1
  <2>4. k \in 1..q /\ (k - 1) * C = C * d /\ k * C = C * d + C
    BY <1>2, <1>3, <2>2, <2>3
  <2> HIDE DEF d, k
  <2> DEFINE m == (k - 1) * C
             j == i - m
  <2>5. m \in Nat /\ m < i /\ j \in 1..(to(k) - m) /\ m + j = i
    <3>1. m = C * d /\ C * d \in Nat
      BY <1>2, <2>2, <2>4
    <3>2. to(k) \in m..n /\ (to(k) = C * d + C \/ to(k) = n)
      BY <1>4, <2>4
    <3> HIDE DEF m, to, C
    <3>3. i \in Nat /\ n \in Nat /\ i <= n /\ C \in Nat
      BY <1>2
    <3> HIDE DEF n
    <3> QED BY <2>2, <3>1, <3>2, <3>3
  <2>6. Len(chunks[k]) = to(k) - m /\ chunks[k][j] = text[m + j]
    BY <1>5, <2>4, <2>5
  <2>7. j \in 1..Len(chunks[k]) /\ chunks[k][j] = piece
    BY <2>1, <2>5, <2>6
  <2> QED BY <2>4, <2>7 DEF Shows
<1> QED BY <1>1, <1>6, <1>7, <1>8, <1>9

LEMMA NoHandIsGood == Telegram!NoHand \in Sending /\ GoodHand(Telegram!NoHand) /\ Telegram!NoHand.chunks = << >>
BY DEF Telegram!NoHand, Telegram!None, Sending, GoodHand

\* One goroutine moves.
LEMMA HandMoves ==
  ASSUME TextTypes, HandInv, NEW p \in Telegram!Procs, NEW h \in Sending, GoodHand(h), hand' = [hand EXCEPT ![p] = h]
  PROVE  /\ hand' \in [Telegram!Procs -> Sending] /\ HandInv' /\ hand'[p] = h
         /\ \A r \in Telegram!Procs \ {p} : hand'[r] = hand[r]
BY DEF TextTypes, HandInv

\* It gives nothing up but what is then in the buffer or sent.
LEMMA CoverMoves ==
  ASSUME TextTypes, HandInv, CoverInv, NEW p \in Telegram!Procs, NEW h \in Sending, hand' = [hand EXCEPT ![p] = h],
         record'.pieces = record.pieces,
         record'.faults = 0 =>
           /\ record.faults = 0 /\ record.sent \subseteq record'.sent
           /\ \A i : Carries(hand[p], i) => Carries(h, i) \/ i \in record'.sent
           /\ \A i : Shows(out.buf, i) => Shows(out.buf, i)' \/ Carries(h, i)
  PROVE  CoverInv'
<1> SUFFICES ASSUME record'.faults = 0, NEW i \in 1..record.pieces
             PROVE  Shows(out.buf, i)' \/ i \in record'.sent \/ \E r \in Telegram!Procs : Carries(hand'[r], i)
  BY DEF CoverInv
<1>1. hand'[p] = h /\ \A r \in Telegram!Procs \ {p} : hand'[r] = hand[r]
  BY DEF TextTypes
<1>2. CASE Shows(out.buf, i)
  BY <1>1, <1>2
<1>3. CASE i \in record.sent
  BY <1>3
<1>4. ASSUME NEW r \in Telegram!Procs, Carries(hand[r], i)
      PROVE  Shows(out.buf, i)' \/ i \in record'.sent \/ \E s \in Telegram!Procs : Carries(hand'[s], i)
  <2>1. CASE r = p
    BY <1>1, <1>4, <2>1
  <2>2. CASE r # p
    BY <1>1, <1>4, <2>2
  <2> QED BY <2>1, <2>2
<1> QED BY <1>2, <1>3, <1>4 DEF CoverInv

LEMMA OutputInit == Telegram!Init => OutputInv
<1> SUFFICES ASSUME Telegram!Init PROVE OutputInv
  OBVIOUS
<1>1. TextTypes
  BY NoHandIsGood DEF Telegram!Init, Telegram!None, TextTypes, Output, OutputRecord, Text
<1>2. BufInv /\ ChatInv /\ CoverInv
  BY DEF Telegram!Init, BufInv, ChatInv, CoverInv, Consecutive
<1>3. HandInv
  BY NoHandIsGood DEF Telegram!Init, HandInv
<1> QED BY <1>1, <1>2, <1>3 DEF OutputInv

\* The text in the buffer is taken, to be sent or edited, and the buffer keeps it or is emptied.
LEMMA TakeKeeps ==
  ASSUME OutputInv, MessageSize \in Nat \ {0}, NEW p \in Telegram!Procs, NEW to \in {"send", "edit"},
         hand[p].pc = "idle", out.buf # << >>, Telegram!Take(p, to, out.msg), chat' = chat,
         out' = out \/ out' = Telegram!Emptied,
         record' \in OutputRecord, record'.pieces = record.pieces, record'.sent = record.sent, record'.faults = record.faults
  PROVE  OutputInv'
<1> DEFINE chunks == Telegram!splitMessage(out.buf)
           h == [pc |-> to, msg |-> out.msg, chunks |-> chunks]
<1>1. out \in Output /\ out.buf \in Text /\ Consecutive(out.buf)
  BY DEF OutputInv, TextTypes, BufInv, Output
<1>2. /\ chunks \in Seq(Text) /\ chunks # << >>
      /\ \A k \in 1..Len(chunks) : Consecutive(chunks[k])
      /\ \A i : Shows(out.buf, i) => \E k \in 1..Len(chunks) : Shows(chunks[k], i)
  BY <1>1, SplitFacts
<1>3. hand' = [hand EXCEPT ![p] = h]
  BY DEF Telegram!Take
<1> HIDE DEF chunks
<1>4. h \in Sending /\ GoodHand(h) /\ \A i : Shows(out.buf, i) => Carries(h, i)
  BY <1>1, <1>2 DEF Sending, GoodHand, Carries, Output
<1> HIDE DEF h
<1>5. hand' \in [Telegram!Procs -> Sending] /\ HandInv'
  BY <1>3, <1>4, HandMoves DEF OutputInv
<1>6. out' \in Output /\ out'.buf \in {out.buf, << >>}
  <2>1. CASE out' = out
    BY <1>1, <2>1
  <2>2. CASE out' = Telegram!Emptied
    <3>1. << >> \in Text
      BY DEF Text
    <3> QED BY <1>1, <2>2, <3>1 DEF Telegram!Emptied, Telegram!None, Output
  <2> QED BY <2>1, <2>2
<1>7. BufInv'
  BY <1>6 DEF OutputInv, BufInv, Consecutive
<1>8. \A i : ~ Carries(hand[p], i)
  BY DEF OutputInv, HandInv, GoodHand, Carries
<1>9. CoverInv'
  BY <1>3, <1>4, <1>8, CoverMoves DEF OutputInv
<1> QED BY <1>5, <1>6, <1>7, <1>9 DEF OutputInv, TextTypes, ChatInv

LEMMA HeadAndTail ==
  ASSUME NEW chunks \in Seq(Text), chunks # << >>
  PROVE  /\ Head(chunks) = chunks[1] /\ chunks[1] \in Text /\ 1 \in 1..Len(chunks)
         /\ Tail(chunks) \in Seq(Text) /\ Len(Tail(chunks)) = Len(chunks) - 1 /\ Len(chunks) \in Nat
         /\ \A k \in 1..(Len(chunks) - 1) : Tail(chunks)[k] = chunks[k + 1]
OBVIOUS

LEMMA ShownPieces ==
  ASSUME NEW text \in Text
  PROVE  Telegram!ToSet(text) \subseteq Nat /\ \A i : Shows(text, i) => i \in Telegram!ToSet(text)
BY DEF Telegram!ToSet, Shows, Text

\* The first chunk is shown, or an error keeps it back.
LEMMA ShowKeeps ==
  ASSUME OutputInv, NEW p \in Telegram!Procs, NEW ok \in BOOLEAN, hand[p].chunks # << >>, NEW h \in Sending, hand' = [hand EXCEPT ![p] = h],
         h.pc \in {"overflow", "send"}, h.chunks = Tail(hand[p].chunks) \/ (~ ok /\ h.chunks = << >>),
         Telegram!Shown(p, ok), out' = out, chat' \in Seq(Text), ChatInv'
  PROVE  OutputInv'
<1> DEFINE chunks == hand[p].chunks
           rest == h.chunks
<1>1. hand[p] \in Sending /\ chunks \in Seq(Text) /\ record \in OutputRecord
  BY DEF OutputInv, TextTypes, Sending
<1>2. /\ Head(chunks) = chunks[1] /\ chunks[1] \in Text /\ 1 \in 1..Len(chunks)
      /\ Tail(chunks) \in Seq(Text) /\ Len(Tail(chunks)) = Len(chunks) - 1 /\ Len(chunks) \in Nat
      /\ \A k \in 1..(Len(chunks) - 1) : Tail(chunks)[k] = chunks[k + 1]
  BY <1>1, HeadAndTail
<1>3. \A k \in 1..Len(chunks) : Consecutive(chunks[k])
  BY DEF OutputInv, HandInv, GoodHand
<1>4. rest \in Seq(Text) /\ \A k \in 1..Len(rest) : Consecutive(rest[k])
  <2>1. CASE rest = << >>
    BY <2>1
  <2>2. CASE rest = Tail(chunks)
    <3>1. rest \in Seq(Text) /\ Len(rest) = Len(chunks) - 1 /\ \A k \in 1..(Len(chunks) - 1) : rest[k] = chunks[k + 1]
      BY <1>2, <2>2
    <3>2. ASSUME NEW k \in 1..(Len(chunks) - 1) PROVE Consecutive(rest[k])
      <4>1. k + 1 \in 1..Len(chunks)
        BY <1>2
      <4> QED BY <1>3, <3>1, <4>1
    <3> QED BY <3>1, <3>2
  <2> QED BY <2>1, <2>2
<1>5. GoodHand(h)
  BY <1>4 DEF GoodHand
<1>6. hand' \in [Telegram!Procs -> Sending] /\ HandInv'
  BY <1>5, HandMoves DEF OutputInv
<1>7. /\ record' \in OutputRecord /\ record'.pieces = record.pieces
      /\ ok => record'.faults = record.faults /\ record'.sent = record.sent \cup Telegram!ToSet(chunks[1])
      /\ ~ ok => record'.faults # 0
  <2>1. Telegram!ToSet(chunks[1]) \subseteq Nat
    BY <1>2, ShownPieces
  <2>2. CASE ok
    BY <1>1, <1>2, <2>1, <2>2 DEF Telegram!Shown, OutputRecord
  <2>3. CASE ~ ok
    <3>1. record' = [record EXCEPT !.faults = @ + 1]
      BY <2>3 DEF Telegram!Shown
    <3> QED BY <1>1, <2>3, <3>1 DEF OutputRecord
  <2> QED BY <2>2, <2>3
<1>8. ASSUME ok, NEW i, Carries(hand[p], i) PROVE Carries(h, i) \/ i \in Telegram!ToSet(chunks[1])
  <2>1. PICK k \in 1..Len(chunks) : Shows(chunks[k], i)
    BY <1>8 DEF Carries
  <2>2. CASE k = 1
    BY <1>2, <2>1, <2>2, ShownPieces
  <2>3. CASE k # 1
    <3>1. k - 1 \in 1..Len(rest) /\ rest[k - 1] = chunks[k]
      <4>1. Len(rest) = Len(chunks) - 1 /\ \A j \in 1..(Len(chunks) - 1) : rest[j] = chunks[j + 1]
        BY <1>2, <1>8
      <4>2. k - 1 \in 1..(Len(chunks) - 1) /\ (k - 1) + 1 = k
        BY <1>2, <2>1, <2>3
      <4> HIDE DEF rest, chunks
      <4> QED BY <4>1, <4>2
    <3> QED BY <2>1, <3>1 DEF Carries
  <2> QED BY <2>2, <2>3
<1>9. CoverInv'
  <2> HIDE DEF chunks
  <2>1. record'.faults = 0 =>
          /\ record.faults = 0 /\ record.sent \subseteq record'.sent
          /\ \A i : Carries(hand[p], i) => Carries(h, i) \/ i \in record'.sent
          /\ \A i : Shows(out.buf, i) => Shows(out.buf, i)' \/ Carries(h, i)
    BY <1>7, <1>8
  <2> QED BY <1>7, <2>1, CoverMoves DEF OutputInv
<1> QED BY <1>6, <1>7, <1>9 DEF OutputInv, TextTypes, BufInv

\* A goroutine's state changes, and nothing that is to be shown.
LEMMA QuietKeeps ==
  ASSUME OutputInv, NEW p \in Telegram!Procs, NEW h \in Sending, hand[p].chunks = << >>, h.chunks = << >>, h.pc # "edit",
         hand' = [hand EXCEPT ![p] = h], out' \in Output, out'.buf = out.buf, chat' \in Seq(Text), ChatInv',
         record' \in OutputRecord, record'.pieces = record.pieces, record'.sent = record.sent,
         record'.faults = 0 => record.faults = 0
  PROVE  OutputInv'
<1>1. GoodHand(h)
  BY DEF GoodHand, Consecutive
<1>2. hand' \in [Telegram!Procs -> Sending] /\ HandInv'
  BY <1>1, HandMoves DEF OutputInv
<1>3. \A i : ~ Carries(hand[p], i)
  BY DEF Carries
<1>4. CoverInv'
  BY <1>3, CoverMoves DEF OutputInv
<1> QED BY <1>2, <1>4 DEF OutputInv, TextTypes, BufInv

LEMMA AppendKeeps ==
  ASSUME OutputInv, Telegram!AppendOutput
  PROVE  OutputInv'
<1> DEFINE n == Len(out.buf)
           piece == record.pieces + 1
<1>1. out \in Output /\ out.buf \in Text /\ record \in OutputRecord /\ piece \in Nat /\ n \in Nat
  BY DEF OutputInv, TextTypes, Output, OutputRecord, Text
<1>2. out' \in Output /\ out'.buf = Append(out.buf, piece) /\ UNCHANGED <<chat, hand>>
  <2>1. Append(out.buf, piece) \in Text
    BY <1>1 DEF Text
  <2> QED BY <1>1, <2>1 DEF Telegram!AppendOutput, Output
<1>3. record' \in OutputRecord /\ record'.pieces = piece /\ record'.sent = record.sent /\ record'.faults = record.faults
  BY <1>1 DEF Telegram!AppendOutput, OutputRecord
<1>4. Len(out'.buf) = n + 1 /\ out'.buf[n + 1] = piece /\ \A k \in 1..n : out'.buf[k] = out.buf[k]
  BY <1>1, <1>2 DEF Text
<1>5. BufInv'
  <2>1. ASSUME NEW k \in 1..n PROVE out'.buf[k + 1] = out'.buf[k] + 1
    <3>1. CASE k = n
      <4>1. out.buf # << >>
        BY <1>1, <2>1 DEF Text
      <4>2. out.buf[n] = record.pieces
        BY <4>1 DEF OutputInv, BufInv
      <4> QED BY <1>4, <2>1, <3>1, <4>2
    <3>2. CASE k # n
      <4>1. k \in 1..(n - 1) /\ k + 1 \in 1..n
        BY <1>1, <2>1, <3>2
      <4>2. out.buf[k + 1] = out.buf[k] + 1
        BY <4>1 DEF OutputInv, BufInv, Consecutive
      <4> QED BY <1>4, <4>1, <4>2
    <3> QED BY <3>1, <3>2
  <2>2. Len(out'.buf) - 1 = n
    BY <1>1, <1>4
  <2> QED BY <1>3, <1>4, <2>1, <2>2 DEF BufInv, Consecutive
<1>6. CoverInv'
  <2> SUFFICES ASSUME record'.faults = 0, NEW i \in 1..record'.pieces
               PROVE  Shows(out'.buf, i) \/ i \in record'.sent \/ \E p \in Telegram!Procs : Carries(hand'[p], i)
    BY DEF CoverInv
  <2>1. CASE i = piece
    BY <1>1, <1>4, <2>1 DEF Shows
  <2>2. CASE i # piece
    <3>1. i \in 1..record.pieces
      BY <1>1, <1>3, <2>2 DEF OutputRecord
    <3>2. Shows(out.buf, i) => Shows(out'.buf, i)
      BY <1>1, <1>4 DEF Shows
    <3> QED BY <1>2, <1>3, <3>1, <3>2 DEF OutputInv, CoverInv
  <2> QED BY <2>1, <2>2
<1> QED BY <1>2, <1>3, <1>5, <1>6 DEF OutputInv, TextTypes, HandInv, ChatInv

LEMMA OutputStep ==
  ASSUME OutputInv, MessageSize \in Nat \ {0}, [Telegram!Next]_(Telegram!vars)
  PROVE  OutputInv'
<1>1. /\ out \in Output /\ chat \in Seq(Text) /\ record \in OutputRecord
      /\ \A p \in Telegram!Procs : hand[p] \in Sending /\ GoodHand(hand[p])
      /\ Telegram!Ticker \in Telegram!Procs /\ Callers \subseteq Telegram!Procs
  BY DEF OutputInv, TextTypes, HandInv, Telegram!Procs
<1>2. ASSUME NEW p \in Callers, Telegram!FlushOutput(p) PROVE OutputInv'
  <2>1. /\ record' \in OutputRecord /\ record'.pieces = record.pieces
        /\ record'.sent = record.sent /\ record'.faults = record.faults
    BY <1>1, <1>2 DEF Telegram!FlushOutput, OutputRecord
  <2> QED BY <1>1, <1>2, <2>1, TakeKeeps DEF Telegram!FlushOutput, Telegram!At
<1>3. CASE Telegram!Finalize \/ Telegram!EditSoFar
  BY <1>1, <1>3, TakeKeeps DEF Telegram!Finalize, Telegram!EditSoFar, Telegram!At
<1>4. CASE Telegram!NeedPlaceholder
  <2> DEFINE h == [hand[Telegram!Ticker] EXCEPT !.pc = "placeholder"]
  <2>1. h \in Sending /\ h.pc = "placeholder" /\ h.chunks = << >> /\ hand[Telegram!Ticker].chunks = << >>
    BY <1>1, <1>4 DEF Telegram!NeedPlaceholder, Telegram!At, Sending, GoodHand
  <2>2. hand' = [hand EXCEPT ![Telegram!Ticker] = h] /\ UNCHANGED <<out, chat, record>>
    BY <1>4 DEF Telegram!NeedPlaceholder
  <2> HIDE DEF h
  <2>3. ChatInv'
    BY <2>2 DEF OutputInv, ChatInv
  <2> QED BY <1>1, <2>1, <2>2, <2>3, QuietKeeps
<1>5. ASSUME NEW ok \in BOOLEAN, Telegram!sendPlaceholder(ok) PROVE OutputInv'
  <2>1. hand[Telegram!Ticker].chunks = << >> /\ out' = out
    BY <1>1, <1>5 DEF Telegram!sendPlaceholder, Telegram!At, GoodHand
  <2>2. CASE ok
    <3> DEFINE h == [hand[Telegram!Ticker] EXCEPT !.pc = "adopt", !.msg = Len(chat) + 1]
    <3>1. h \in Sending /\ h.pc = "adopt" /\ h.chunks = << >>
      <4>1. Len(chat) + 1 \in Nat
        BY <1>1
      <4> QED BY <1>1, <2>1, <4>1 DEF Sending
    <3>2. hand' = [hand EXCEPT ![Telegram!Ticker] = h] /\ chat' = Append(chat, << >>) /\ record' = record
      BY <1>5, <2>2 DEF Telegram!sendPlaceholder
    <3> HIDE DEF h
    <3>3. chat' \in Seq(Text) /\ ChatInv'
      <4>1. << >> \in Text /\ Consecutive(<< >>)
        BY DEF Text, Consecutive
      <4> QED BY <1>1, <3>2, <4>1 DEF OutputInv, ChatInv
    <3> QED BY <1>1, <2>1, <3>1, <3>2, <3>3, QuietKeeps
  <2>3. CASE ~ ok
    <3>1. /\ hand' = [hand EXCEPT ![Telegram!Ticker] = Telegram!NoHand] /\ chat' = chat
          /\ record' = [record EXCEPT !.faults = @ + 1]
      BY <1>5, <2>3 DEF Telegram!sendPlaceholder
    <3>2. /\ record' \in OutputRecord /\ record'.pieces = record.pieces /\ record'.sent = record.sent
          /\ record'.faults # 0
      BY <1>1, <3>1 DEF OutputRecord
    <3>3. ChatInv'
      BY <3>1 DEF OutputInv, ChatInv
    <3> QED BY <1>1, <2>1, <3>1, <3>2, <3>3, NoHandIsGood, QuietKeeps DEF Telegram!NoHand
  <2> QED BY <2>2, <2>3
<1>6. CASE Telegram!AdoptPlaceholder
  <2>1. hand[Telegram!Ticker].chunks = << >> /\ hand[Telegram!Ticker].msg \in Nat
    BY <1>1, <1>6 DEF Telegram!AdoptPlaceholder, Telegram!At, GoodHand, Sending
  <2>2. /\ hand' = [hand EXCEPT ![Telegram!Ticker] = Telegram!NoHand] /\ UNCHANGED <<chat, record>>
        /\ out' \in Output /\ out'.buf = out.buf
    BY <1>1, <1>6, <2>1 DEF Telegram!AdoptPlaceholder, Output
  <2>3. ChatInv'
    BY <2>2 DEF OutputInv, ChatInv
  <2> QED BY <1>1, <2>1, <2>2, <2>3, NoHandIsGood, QuietKeeps DEF Telegram!NoHand
<1>7. ASSUME NEW p \in Telegram!Procs, NEW ok \in BOOLEAN, Telegram!editMessage(p, ok) PROVE OutputInv'
  <2> DEFINE chunks == hand[p].chunks
             h == [hand[p] EXCEPT !.pc = "overflow", !.chunks = Tail(hand[p].chunks)]
  <2>1. chunks \in Seq(Text) /\ chunks # << >> /\ out' = out /\ Telegram!Shown(p, ok)
    BY <1>1, <1>7 DEF Telegram!editMessage, Telegram!At, GoodHand, Sending
  <2>2. h \in Sending /\ h.pc = "overflow" /\ h.chunks = Tail(hand[p].chunks) /\ hand' = [hand EXCEPT ![p] = h]
    <3>1. Tail(chunks) \in Seq(Text)
      BY <2>1, HeadAndTail
    <3> QED BY <1>1, <1>7, <3>1 DEF Telegram!editMessage, Sending
  <2> HIDE DEF h
  <2>3. chat' = IF ok THEN [chat EXCEPT ![hand[p].msg] = Head(chunks)] ELSE chat
    BY <1>7 DEF Telegram!editMessage
  <2>4. Head(chunks) \in Text /\ Consecutive(Head(chunks))
    BY <1>1, <2>1, HeadAndTail DEF GoodHand
  <2>5. chat' \in Seq(Text) /\ ChatInv'
    <3> HIDE DEF chunks
    <3>1. CASE ok
      <4>1. chat' \in Seq(Text) /\ Len(chat') = Len(chat)
        BY <1>1, <2>3, <2>4, <3>1, ElementReplaced
      <4>2. ASSUME NEW m \in 1..Len(chat) PROVE Consecutive(chat'[m])
        <5>1. chat'[m] = Head(chunks) \/ chat'[m] = chat[m]
          BY <1>1, <2>3, <2>4, <3>1, ElementReplaced
        <5> QED BY <2>4, <5>1 DEF OutputInv, ChatInv
      <4> QED BY <4>1, <4>2 DEF ChatInv
    <3>2. CASE ~ ok
      BY <1>1, <2>3, <3>2 DEF OutputInv, ChatInv
    <3> QED BY <3>1, <3>2
  <2> QED BY <2>1, <2>2, <2>5, ShowKeeps
<1>8. ASSUME NEW p \in Telegram!Procs, NEW ok \in BOOLEAN, Telegram!SendText(p, ok) PROVE OutputInv'
  <2> DEFINE chunks == hand[p].chunks
             rest == IF ~ ok /\ Telegram!At(p, "send") THEN << >> ELSE Tail(hand[p].chunks)
             h == [hand[p] EXCEPT !.chunks = rest]
  <2>1. chunks \in Seq(Text) /\ chunks # << >> /\ out' = out /\ Telegram!Shown(p, ok) /\ hand[p].pc \in {"send", "overflow"}
    BY <1>1, <1>8 DEF Telegram!SendText, Sending
  <2>2. h \in Sending /\ h.pc \in {"overflow", "send"} /\ h.chunks = rest /\ hand' = [hand EXCEPT ![p] = h]
    <3>1. rest \in Seq(Text)
      BY <2>1, HeadAndTail
    <3>2. hand' = [hand EXCEPT ![p] = h]
      BY <1>8 DEF Telegram!SendText
    <3> HIDE DEF rest
    <3> QED BY <1>1, <2>1, <3>1, <3>2 DEF Sending
  <2> HIDE DEF h
  <2>3. chat' = IF ok THEN Append(chat, Head(chunks)) ELSE chat
    BY <1>8 DEF Telegram!SendText
  <2>4. Head(chunks) \in Text /\ Consecutive(Head(chunks))
    BY <1>1, <2>1, HeadAndTail DEF GoodHand
  <2>5. chat' \in Seq(Text) /\ ChatInv'
    <3> HIDE DEF chunks
    <3> QED BY <1>1, <2>3, <2>4 DEF OutputInv, ChatInv
  <2>6. rest = Tail(hand[p].chunks) \/ (~ ok /\ rest = << >>)
    OBVIOUS
  <2> HIDE DEF rest
  <2> QED BY <2>1, <2>2, <2>5, <2>6, ShowKeeps
<1>9. ASSUME NEW p \in Telegram!Procs, Telegram!Sent(p) PROVE OutputInv'
  <2>1. /\ hand[p].chunks = << >> /\ hand' = [hand EXCEPT ![p] = Telegram!NoHand] /\ UNCHANGED <<chat, record>>
        /\ out' \in Output /\ out'.buf = out.buf
    BY <1>1, <1>9 DEF Telegram!Sent, Output
  <2>2. ChatInv'
    BY <2>1 DEF OutputInv, ChatInv
  <2> QED BY <1>1, <2>1, <2>2, NoHandIsGood, QuietKeeps DEF Telegram!NoHand
<1>10. CASE Telegram!TimePasses
  <2>1. out' \in Output /\ out'.buf = out.buf /\ UNCHANGED <<chat, hand, record>>
    BY <1>1, <1>10 DEF Telegram!TimePasses, Output
  <2> QED BY <2>1 DEF OutputInv, TextTypes, BufInv, HandInv, ChatInv, CoverInv
<1>11. CASE UNCHANGED Telegram!vars
  BY <1>11 DEF Telegram!vars, OutputInv, TextTypes, BufInv, HandInv, ChatInv, CoverInv
<1> QED BY <1>2, <1>3, <1>4, <1>5, <1>6, <1>7, <1>8, <1>9, <1>10, <1>11, AppendKeeps DEF Telegram!Next

LEMMA OutputFollows == OutputInv => Telegram!NothingIsDropped
<1> SUFFICES ASSUME OutputInv PROVE Telegram!NothingIsDropped
  OBVIOUS
<1>1. out.buf \in Text /\ chat \in Seq(Text) /\ \A p \in Telegram!Procs : hand[p].chunks \in Seq(Text)
  BY DEF OutputInv, TextTypes, Output, Sending
<1>2. ASSUME record.faults = 0, NEW i \in 1..record.pieces
      PROVE  i \in Telegram!ToSet(out.buf) \cup Telegram!InHand \cup record.sent
  <2>1. CASE Shows(out.buf, i)
    BY <1>1, <2>1, ShownPieces
  <2>2. ASSUME NEW p \in Telegram!Procs, Carries(hand[p], i) PROVE i \in Telegram!InHand
    <3>1. PICK k \in 1..Len(hand[p].chunks) : Shows(hand[p].chunks[k], i)
      BY <2>2 DEF Carries
    <3>2. k \in DOMAIN hand[p].chunks /\ hand[p].chunks[k] \in Text
      BY <1>1, <3>1
    <3>3. i \in Telegram!ToSet(hand[p].chunks[k])
      BY <3>1, <3>2, ShownPieces
    <3> QED BY <3>2, <3>3 DEF Telegram!InHand
  <2> QED BY <1>2, <2>1, <2>2 DEF OutputInv, CoverInv
<1>3. \A m \in DOMAIN chat : \A k \in 1..(Len(chat[m]) - 1) : chat[m][k + 1] = chat[m][k] + 1
  BY <1>1 DEF OutputInv, ChatInv, Consecutive
<1> QED BY <1>2, <1>3 DEF Telegram!NothingIsDropped

\* AppendOutput, FlushOutput and tryFlush: as long as Telegram takes what it is given, no piece of
\* the output is dropped between the goroutines, and every message shows consecutive pieces.
THEOREM OutputKept ==
  ASSUME ServicesAssumption
  PROVE  Spec => []OutputIsKept
<1> DEFINE Inv == part = "telegram" => OutputInv
<1>1. MessageSize \in Nat \ {0}
  BY DEF ServicesAssumption, Telegram!TelegramOutputAssumption
<1>2. Inv => OutputIsKept
  BY OutputFollows DEF OutputIsKept
<1>3. Init => Inv
  BY OutputInit DEF Init
<1>4. Inv /\ [Next]_vars => Inv'
  BY <1>1, StepOfTelegram, OutputStep
<1> QED BY <1>2, <1>3, <1>4, PTL DEF Spec
=============================================================================
