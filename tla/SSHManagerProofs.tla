-------------------------- MODULE SSHManagerProofs --------------------------
(***************************************************************************)
(* Proofs of the safety properties of SSHManager for any number of         *)
(* servers, callers and clients and any check interval, and of MCSSH's     *)
(* other two parts for any number of devices, requests, threads, clients   *)
(* and permits.                                                            *)
(*                                                                         *)
(* A step that leaves the pool, the states of the clients, the cache and   *)
(* the clocks alone keeps the invariant whatever it does otherwise; the    *)
(* steps that do not are taken one by one.                                 *)
(***************************************************************************)
EXTENDS MCSSH, FiniteSetTheorems, TLAPS

USE PemAssumption, IntervalAssumption, NoneAssumption

LEMMA BegunType ==
  ASSUME NEW stage \in Pc, NEW s \in Server \cup {None}, NEW execute \in BOOLEAN,
         stage # "idle" => s # None
  PROVE  Begun(stage, s, execute) \in Call /\ Begun(stage, s, execute).pc = stage
<1>1. 0 \in 0 .. Interval
  OBVIOUS
<1> QED
  BY <1>1 DEF Begun, Call

LEMMA IdleType == Idle \in Call /\ Idle.pc = "idle"
  BY BegunType DEF Idle, Pc

\* No server is connected, and no caller at work.
LEMMA InitIInv == Init => IInv
<1> SUFFICES ASSUME Init PROVE IInv
  OBVIOUS
<1>1. TypeOK
  <2>1. call \in [Caller -> Call] /\ \A p \in Caller : call[p].pc = "idle"
    BY IdleType DEF Init
  <2> QED
    BY <2>1 DEF Init, TypeOK
<1>2. NoLeakedClient /\ CacheIsHonest /\ DisconnectIsSeen
  BY DEF Init, NoLeakedClient, CacheIsHonest, DisconnectIsSeen
<1>3. HistoryIsCurrent /\ PooledWereOpened
  BY IdleType DEF Init, HistoryIsCurrent, PooledWereOpened, Active, At
<1> QED
  BY <1>1, <1>2, <1>3 DEF IInv

\* What becomes of a caller's record where it gets no client.
LEMMA CallType ==
  ASSUME TypeOK, NEW p \in Caller, call[p].pc # "idle",
         Return(p) \/ \E stage \in Pc \ {"pool", "deploy", "run"} : Goto(p, stage)
  PROVE  /\ call' \in [Caller -> Call]
         /\ \A q \in Caller : call'[q].pc \in {"pool", "deploy", "run"} => call'[q] = call[q]
         /\ \A q \in Caller \ {p} : call'[q] = call[q]
<1>1. Idle \in Call
  BY IdleType
<1>2. call[p] \in Call
  BY DEF TypeOK
<1>3. CASE Return(p)
  BY <1>1, <1>3, IdleType DEF TypeOK, Return
<1>4. ASSUME NEW stage \in Pc \ {"pool", "deploy", "run"}, Goto(p, stage)
      PROVE  /\ call' \in [Caller -> Call]
             /\ \A q \in Caller : call'[q].pc \in {"pool", "deploy", "run"} => call'[q] = call[q]
             /\ \A q \in Caller \ {p} : call'[q] = call[q]
  <2>1. call'[p] = [call[p] EXCEPT !.pc = stage] /\ call' = [call EXCEPT ![p] = [call[p] EXCEPT !.pc = stage]]
    BY <1>4 DEF TypeOK, Goto
  <2>2. [call[p] EXCEPT !.pc = stage] \in Call /\ [call[p] EXCEPT !.pc = stage].pc = stage
    BY <1>2 DEF Call
  <2> HIDE DEF Call
  <2> QED
    BY <2>1, <2>2 DEF TypeOK
<1> QED
  BY <1>3, <1>4

\* Steps that touch neither pool, clients, cache nor clocks, and put no caller before the pool.
LEMMA OthersIInv ==
  ASSUME IInv, UNCHANGED <<pool, result, age, state, history>>,
         call' \in [Caller -> Call],
         \A q \in Caller : call'[q].pc \in {"pool", "deploy", "run"} => call'[q].client \in Client,
         \A q \in Caller : "pool" \in {call[q].pc, call'[q].pc} => call'[q] = call[q],
         deployed' \subseteq Server, raised' \subseteq Caller, reachable' \subseteq Server,
         keyFile' \in [Server -> {"missing", "without", "with"}]
  PROVE  IInv'
<1>1. TypeOK'
  BY DEF IInv, TypeOK, history
<1>2. NoLeakedClient'
  BY DEF IInv, NoLeakedClient, At
<1>3. CacheIsHonest' /\ DisconnectIsSeen' /\ HistoryIsCurrent'
  BY DEF IInv, CacheIsHonest, DisconnectIsSeen, HistoryIsCurrent, Active, history
<1>4. PooledWereOpened'
  BY DEF IInv, PooledWereOpened, At
<1> QED
  BY <1>1, <1>2, <1>3, <1>4 DEF IInv

\* A login that succeeds: a client that nobody had is held by the caller.
LEMMA LoggedInIInv ==
  ASSUME IInv, NEW p \in Caller, NEW method \in {"app_key", "server_key", "password"},
         LoggedIn(p, method), call[p].pc \in Login,
         UNCHANGED <<pool, result, age, raised, world, history>>, deployed' \subseteq Server
  PROVE  IInv'
<1> PICK c \in Client : /\ state[c] = "unused"
                        /\ state' = [state EXCEPT ![c] = "open"]
                        /\ call' = [call EXCEPT ![p].pc = "pool", ![p].client = c, ![p].method = method]
  BY DEF LoggedIn
<1> DEFINE r == [call[p] EXCEPT !.pc = "pool", !.client = c, !.method = method]
<1>0. call[p] \in Call /\ call[p].pc # "idle"
  BY DEF IInv, TypeOK, Login
<1>1. r \in Call /\ r.pc = "pool" /\ r.client = c
  BY <1>0 DEF Call, Pc
<1>2. call' = [call EXCEPT ![p] = r] /\ call' \in [Caller -> Call] /\ call'[p] = r
      /\ \A q \in Caller \ {p} : call'[q] = call[q]
  BY <1>1 DEF IInv, TypeOK
<1> HIDE DEF r
<1>3. TypeOK'
  BY <1>1, <1>2 DEF IInv, TypeOK, world, history
<1>4. NoLeakedClient'
  BY <1>1, <1>2 DEF IInv, TypeOK, NoLeakedClient, At, Login
<1>5. \A s \in Server : pool[s] # c
  BY DEF IInv, PooledWereOpened, TypeOK
<1>6. CacheIsHonest' /\ DisconnectIsSeen' /\ HistoryIsCurrent'
  BY <1>5 DEF IInv, TypeOK, CacheIsHonest, DisconnectIsSeen, HistoryIsCurrent, Active, history
<1>7. PooledWereOpened'
  BY <1>1, <1>2 DEF IInv, TypeOK, PooledWereOpened, At
<1> QED
  BY <1>3, <1>4, <1>6, <1>7 DEF IInv

\* Such a step of a caller that is not before the pool, and goes on without a client.
LEMMA CallIInv ==
  ASSUME IInv, NEW p \in Caller, call[p].pc \notin {"idle", "pool"},
         Return(p) \/ \E stage \in Pc \ {"pool", "deploy", "run"} : Goto(p, stage),
         UNCHANGED <<pool, result, age, state, history>>,
         deployed' \subseteq Server, raised' \subseteq Caller, reachable' \subseteq Server,
         keyFile' \in [Server -> {"missing", "without", "with"}]
  PROVE  IInv'
<1>1. /\ call' \in [Caller -> Call]
      /\ \A q \in Caller : call'[q].pc \in {"pool", "deploy", "run"} => call'[q] = call[q]
      /\ \A q \in Caller \ {p} : call'[q] = call[q]
  BY CallType DEF IInv
<1>2. /\ \A q \in Caller : call'[q].pc \in {"pool", "deploy", "run"} => call'[q].client \in Client
      /\ \A q \in Caller : "pool" \in {call[q].pc, call'[q].pc} => call'[q] = call[q]
  BY <1>1 DEF IInv, TypeOK
<1> QED
  BY <1>1, <1>2, OthersIInv

\* A call begins.
LEMMA BeginIInv ==
  ASSUME IInv, NEW p \in Caller, NEW s \in Server, NEW execute \in BOOLEAN,
         Connect(p, s) \/ IsConnected(p, s, execute)
  PROVE  IInv'
<1>1. "appKey" \in Pc /\ "ask" \in Pc
  BY DEF Pc, Login
<1>2. PICK v \in Call : v.pc \in {"appKey", "ask"} /\ call' = [call EXCEPT ![p] = v]
  <2>1. CASE Connect(p, s)
    BY <1>1, <2>1, BegunType DEF Connect
  <2>2. CASE IsConnected(p, s, execute)
    BY <1>1, <2>2, BegunType DEF IsConnected
  <2> QED
    BY <2>1, <2>2
<1>3. /\ call' \in [Caller -> Call] /\ call[p].pc = "idle" /\ call'[p] = v
      /\ \A q \in Caller \ {p} : call'[q] = call[q]
  BY <1>2 DEF Connect, IsConnected, At, IInv, TypeOK
<1>4. /\ \A q \in Caller : call'[q].pc \in {"pool", "deploy", "run"} => call'[q].client \in Client
      /\ \A q \in Caller : "pool" \in {call[q].pc, call'[q].pc} => call'[q] = call[q]
  BY <1>2, <1>3 DEF IInv, TypeOK
<1>5. /\ deployed' \subseteq Server /\ raised' \subseteq Caller /\ reachable' \subseteq Server
      /\ keyFile' \in [Server -> {"missing", "without", "with"}]
      /\ UNCHANGED <<pool, result, age, state, history>>
  BY DEF Connect, IsConnected, IInv, TypeOK, manager, world
<1> QED
  BY <1>3, <1>4, <1>5, OthersIInv

\* The four logins, each of which succeeds or is passed over.
LEMMA LoginIInv ==
  ASSUME IInv, NEW p \in Caller, TryAppKey(p) \/ TryServerKey(p) \/ TryFirstKey(p) \/ TryPassword(p)
  PROVE  IInv'
<1>1. /\ call[p].pc \in Login /\ UNCHANGED <<pool, result, age, raised, world, history>>
      /\ call[p].pc \notin {"idle", "pool"}
  BY DEF TryAppKey, TryServerKey, TryFirstKey, TryPassword, At, Login, manager
<1>2. call[p].server \in Server \cup {None}
  BY DEF IInv, TypeOK, Call
<1>3. deployed' \subseteq Server
  <2>1. CASE TryFirstKey(p) /\ deployed' # deployed
    <3>1. KeyAccepted(call[p].server)
      BY <2>1 DEF TryFirstKey
    <3> QED
      BY <2>1, <3>1 DEF TryFirstKey, KeyAccepted, IInv, TypeOK
  <2> QED
    BY <2>1 DEF TryAppKey, TryServerKey, TryFirstKey, TryPassword, manager, IInv, TypeOK
<1>4. CASE \E method \in {"app_key", "server_key", "password"} : LoggedIn(p, method)
  BY <1>1, <1>3, <1>4, LoggedInIInv
<1>5. CASE /\ UNCHANGED state
           /\ Return(p) \/ \E stage \in Pc \ {"pool", "deploy", "run"} : Goto(p, stage)
  BY <1>1, <1>3, <1>5, CallIInv DEF IInv, TypeOK, world
<1> QED
  BY <1>4, <1>5 DEF TryAppKey, TryServerKey, TryFirstKey, TryPassword, Pc, Login

\* A change of pool or clients that is recorded keeps what is said of the cache; where the pool
\* loses its client the entry goes too.
LEMMA RecordIInv ==
  ASSUME IInv, TypeOK', Record(pool', state'),
         \A s \in Server : result'[s] \in {"none", result[s]} /\ age'[s] >= age[s],
         \A s \in Server : pool'[s] = None => pool[s] = None \/ result'[s] = "none"
  PROVE  CacheIsHonest' /\ DisconnectIsSeen' /\ HistoryIsCurrent'
<1>1. \A s \in Server : /\ sinceUp'[s] \in {0, sinceUp[s]} /\ sinceDown'[s] \in {0, sinceDown[s]}
                        /\ IF pool'[s] # None /\ state'[pool'[s]] = "open" THEN sinceUp'[s] = 0
                           ELSE sinceDown'[s] = 0
  BY DEF Record
<1>2. CacheIsHonest'
  BY <1>1 DEF IInv, TypeOK, CacheIsHonest
<1>3. DisconnectIsSeen'
  BY DEF IInv, DisconnectIsSeen
<1>4. HistoryIsCurrent'
  BY <1>1 DEF HistoryIsCurrent, Active
<1> QED
  BY <1>2, <1>3, <1>4

LEMMA DisconnectIInv ==
  ASSUME IInv, NEW s \in Server, Disconnect(s)
  PROVE  IInv'
<1>1. TypeOK'
  BY DEF Disconnect, Record, IInv, TypeOK, world
<1>2. NoLeakedClient'
  BY DEF Disconnect, IInv, TypeOK, NoLeakedClient, At
<1>3. CacheIsHonest' /\ DisconnectIsSeen' /\ HistoryIsCurrent'
  <2>1. \A t \in Server : /\ result'[t] \in {"none", result[t]} /\ age'[t] >= age[t]
                          /\ pool'[t] = None => pool[t] = None \/ result'[t] = "none"
    BY DEF Disconnect, IInv, TypeOK
  <2> QED
    BY <1>1, <2>1, RecordIInv DEF Disconnect
<1>4. PooledWereOpened'
  BY DEF Disconnect, IInv, TypeOK, PooledWereOpened, At
<1> QED
  BY <1>1, <1>2, <1>3, <1>4 DEF IInv

LEMMA LoseIInv ==
  ASSUME IInv, NEW c \in Client, LoseConnection(c)
  PROVE  IInv'
<1>1. TypeOK'
  BY DEF LoseConnection, Record, IInv, TypeOK, manager, world
<1>2. NoLeakedClient'
  BY DEF LoseConnection, IInv, TypeOK, NoLeakedClient, At, manager
<1>3. CacheIsHonest' /\ DisconnectIsSeen' /\ HistoryIsCurrent'
  <2>1. pool' = pool /\ result' = result /\ age' = age /\ Record(pool', state')
    BY DEF LoseConnection, manager
  <2>2. \A s \in Server : /\ result'[s] \in {"none", result[s]} /\ age'[s] >= age[s]
                          /\ pool'[s] = None => pool[s] = None \/ result'[s] = "none"
    BY <2>1 DEF IInv, TypeOK
  <2> QED
    BY <1>1, <2>1, <2>2, RecordIInv
<1>4. PooledWereOpened'
  BY DEF LoseConnection, IInv, TypeOK, PooledWereOpened, At, manager
<1> QED
  BY <1>1, <1>2, <1>3, <1>4 DEF IInv

\* The new client takes the place of the one that is closed.
LEMMA ReplaceIInv ==
  ASSUME IInv, NEW p \in Caller, ReplaceClient(p)
  PROVE  IInv'
<1> DEFINE s == call[p].server
           c == call[p].client
<1>1. /\ call[p].pc = "pool" /\ c \in Client /\ state[c] # "unused" /\ call[p] \in Call
      /\ s \in Server
  BY DEF ReplaceClient, At, IInv, TypeOK, PooledWereOpened, Call
<1>2. /\ pool' = [pool EXCEPT ![s] = c] /\ result' = result /\ age' = age
      /\ state' = [d \in Client |-> IF d = pool[s] THEN "closed" ELSE state[d]]
      /\ Record(pool', state')
  BY DEF ReplaceClient
<1>3. /\ call' \in [Caller -> Call] /\ \A q \in Caller \ {p} : call'[q] = call[q]
      /\ call'[p].pc # "pool" /\ (call'[p].pc \in {"pool", "deploy", "run"} => call'[p].client = c)
  <2>1. CASE Return(p)
    BY <2>1, IdleType DEF Return, IInv, TypeOK
  <2>2. CASE Goto(p, "deploy")
    <3>1. [call[p] EXCEPT !.pc = "deploy"] \in Call /\ [call[p] EXCEPT !.pc = "deploy"].client = c
      BY <1>1 DEF Call, Pc
    <3> QED
      BY <2>2, <3>1 DEF Goto, IInv, TypeOK
  <2> QED
    BY <2>1, <2>2 DEF ReplaceClient
<1> HIDE DEF s, c
<1>4. TypeOK'
  <2>1. /\ pool' \in [Server -> Client \cup {None}]
        /\ state' \in [Client -> {"unused", "open", "lost", "closed"}]
    BY <1>1, <1>2 DEF IInv, TypeOK
  <2>2. sinceUp' \in [Server -> 0 .. Interval] /\ sinceDown' \in [Server -> 0 .. Interval]
    BY <1>2 DEF Record, IInv, TypeOK
  <2>3. \A q \in Caller : call'[q].pc \in {"pool", "deploy", "run"} => call'[q].client \in Client
    BY <1>1, <1>3 DEF IInv, TypeOK
  <2>4. UNCHANGED <<result, age, deployed, raised, reachable, keyFile>>
    BY DEF ReplaceClient, world
  <2> QED
    BY <1>3, <2>1, <2>2, <2>3, <2>4 DEF IInv, TypeOK
<1>5. NoLeakedClient'
  <2> SUFFICES ASSUME NEW d \in Client, state'[d] \in {"open", "lost"}
               PROVE  \/ \E t \in Server : pool'[t] = d
                      \/ \E q \in Caller : call'[q].pc = "pool" /\ call'[q].client = d
    BY DEF NoLeakedClient, At
  <2>1. state[d] \in {"open", "lost"} /\ d # pool[s]
    BY <1>2
  <2>2. CASE \E t \in Server : pool[t] = d
    BY <1>1, <1>2, <2>1, <2>2 DEF IInv, TypeOK
  <2>3. CASE \E q \in Caller : call[q].pc = "pool" /\ call[q].client = d
    BY <1>1, <1>2, <1>3, <2>3 DEF IInv, TypeOK, c
  <2> QED
    BY <2>1, <2>2, <2>3 DEF IInv, NoLeakedClient, At
<1>6. CacheIsHonest' /\ DisconnectIsSeen' /\ HistoryIsCurrent'
  <2>1. \A t \in Server : /\ result'[t] = result[t] /\ age'[t] >= age[t]
                          /\ pool'[t] = None => pool[t] = None
    BY <1>1, <1>2 DEF IInv, TypeOK
  <2> QED
    BY <1>2, <1>4, <2>1, RecordIInv
<1>7. PooledWereOpened'
  BY <1>1, <1>2, <1>3 DEF IInv, TypeOK, PooledWereOpened, At
<1> QED
  BY <1>4, <1>5, <1>6, <1>7 DEF IInv

LEMMA DeployIInv ==
  ASSUME IInv, NEW p \in Caller, DeployKey(p)
  PROVE  IInv'
<1>1. call[p].pc \notin {"idle", "pool"} /\ call[p].server \in Server
  BY DEF DeployKey, At, IInv, TypeOK, Call
<1>2. deployed' \subseteq Server /\ keyFile' \in [Server -> {"missing", "without", "with"}]
  BY <1>1 DEF DeployKey, IInv, TypeOK
<1> QED
  BY <1>1, <1>2, CallIInv DEF DeployKey, IInv, TypeOK

LEMMA AskIInv ==
  ASSUME IInv, NEW p \in Caller, AskCache(p)
  PROVE  IInv'
<1>1. PICK stage \in {"hit", "lock"} : call' = [call EXCEPT ![p].elapsed = 0, ![p].pc = stage]
  BY DEF AskCache
<1> DEFINE r == [call[p] EXCEPT !.elapsed = 0, !.pc = stage]
<1>2. call[p] \in Call /\ call[p].pc = "ask" /\ 0 \in 0 .. Interval
  BY DEF AskCache, At, IInv, TypeOK
<1>3. r \in Call /\ r.pc = stage
  BY <1>2 DEF Call, Pc
<1>4. call' = [call EXCEPT ![p] = r]
  BY <1>1 DEF IInv, TypeOK
<1> HIDE DEF r
<1>5. /\ call' \in [Caller -> Call] /\ call'[p] = r /\ \A q \in Caller \ {p} : call'[q] = call[q]
  BY <1>3, <1>4 DEF IInv, TypeOK
<1>6. /\ \A q \in Caller : call'[q].pc \in {"pool", "deploy", "run"} => call'[q].client \in Client
      /\ \A q \in Caller : "pool" \in {call[q].pc, call'[q].pc} => call'[q] = call[q]
  BY <1>2, <1>3, <1>5 DEF IInv, TypeOK
<1> QED
  BY <1>5, <1>6, OthersIInv DEF AskCache, manager, world, IInv, TypeOK

\* The entry that is read a second time only decides where the caller goes.
LEMMA HitIInv ==
  ASSUME IInv, NEW p \in Caller, CacheHit(p)
  PROVE  IInv'
<1>1. /\ call[p].pc \notin {"idle", "pool"} /\ raised' \subseteq Caller
      /\ Return(p) \/ Goto(p, "client")
  BY DEF CacheHit, Answer, At, IInv, TypeOK
<1>2. UNCHANGED <<pool, result, age, state, history, deployed, reachable, keyFile>>
  BY DEF CacheHit, manager, world
<1> QED
  BY <1>1, <1>2, CallIInv DEF IInv, TypeOK, Pc

\* The entry is dated with the time the call has taken, and the history counts from now.
LEMMA ProbeIInv ==
  ASSUME IInv, NEW p \in Caller, Probe(p)
  PROVE  IInv'
<1> DEFINE s == call[p].server
<1>1. /\ call[p].pc = "lock" /\ call[p] \in Call /\ s \in Server
      /\ call[p].elapsed \in 0 .. Interval
  BY DEF Probe, At, IInv, TypeOK, Call
<1>2. /\ result' = [result EXCEPT ![s] = IF Active(pool[s]) THEN "up" ELSE "down"]
      /\ age' = [age EXCEPT ![s] = call[p].elapsed]
      /\ Return(p) \/ Goto(p, "client")
      /\ UNCHANGED <<pool, deployed, state, raised, reachable, keyFile, sinceUp, sinceDown>>
  BY DEF Probe, Answer, world, history
<1>3. /\ call' \in [Caller -> Call]
      /\ \A q \in Caller : call'[q].pc \in {"pool", "deploy", "run"} => call'[q] = call[q]
      /\ \A q \in Caller \ {p} : call'[q] = call[q]
  BY <1>1, <1>2, CallType DEF IInv, Pc
<1> HIDE DEF s
<1>4. TypeOK'
  <2>1. /\ result' \in [Server -> {"none", "up", "down"}] /\ age' \in [Server -> 0 .. Interval]
    BY <1>1, <1>2 DEF IInv, TypeOK
  <2> QED
    BY <1>2, <1>3, <2>1 DEF IInv, TypeOK
<1>5. NoLeakedClient'
  BY <1>1, <1>2, <1>3 DEF IInv, NoLeakedClient, At
<1>6. CacheIsHonest'
  <2> SUFFICES ASSUME NEW t \in Server
               PROVE  /\ result'[t] = "up" => sinceUp[t] <= age'[t]
                      /\ result'[t] = "down" => sinceDown[t] <= age'[t]
    BY <1>2 DEF CacheIsHonest
  <2>1. CASE t = s
    BY <1>1, <1>2, <2>1 DEF IInv, TypeOK, HistoryIsCurrent
  <2>2. CASE t # s
    BY <1>1, <1>2, <2>2 DEF IInv, TypeOK, CacheIsHonest
  <2> QED
    BY <2>1, <2>2
<1>7. DisconnectIsSeen' /\ HistoryIsCurrent'
  BY <1>1, <1>2 DEF IInv, TypeOK, DisconnectIsSeen, HistoryIsCurrent, Active
<1>8. PooledWereOpened'
  BY <1>1, <1>2, <1>3 DEF IInv, PooledWereOpened, At
<1> QED
  BY <1>4, <1>5, <1>6, <1>7, <1>8 DEF IInv

LEMMA FetchIInv ==
  ASSUME IInv, NEW p \in Caller, FetchClient(p)
  PROVE  IInv'
<1> DEFINE c == pool[call[p].server]
<1>1. /\ call[p].pc = "client" /\ call[p] \in Call /\ c \in Client \cup {None}
  BY DEF FetchClient, At, IInv, TypeOK, Call
<1>2. /\ deployed' \subseteq Server /\ raised' \subseteq Caller /\ reachable' \subseteq Server
      /\ keyFile' \in [Server -> {"missing", "without", "with"}]
      /\ UNCHANGED <<pool, result, age, state, history>>
  BY DEF FetchClient, IInv, TypeOK, manager, world
<1>3. CASE Return(p)
  BY <1>1, <1>2, <1>3, CallIInv
<1>4. CASE c \in Client /\ call' = [call EXCEPT ![p].pc = "run", ![p].client = c]
  <2> DEFINE r == [call[p] EXCEPT !.pc = "run", !.client = c]
  <2>1. r \in Call /\ r.pc = "run" /\ r.client \in Client
    BY <1>1, <1>4 DEF Call, Pc
  <2>2. call' = [call EXCEPT ![p] = r]
    BY <1>4 DEF IInv, TypeOK
  <2> HIDE DEF r
  <2>3. call' \in [Caller -> Call] /\ call'[p] = r /\ \A q \in Caller \ {p} : call'[q] = call[q]
    BY <2>1, <2>2 DEF IInv, TypeOK
  <2>4. /\ \A q \in Caller : call'[q].pc \in {"pool", "deploy", "run"} => call'[q].client \in Client
        /\ \A q \in Caller : "pool" \in {call[q].pc, call'[q].pc} => call'[q] = call[q]
    BY <1>1, <2>1, <2>3 DEF IInv, TypeOK
  <2> QED
    BY <1>2, <2>3, <2>4, OthersIInv
<1> QED
  BY <1>1, <1>3, <1>4 DEF FetchClient

LEMMA OlderBound ==
  ASSUME NEW a \in 0 .. Interval
  PROVE  Older(a) \in 0 .. Interval /\ Older(a) >= a
  BY DEF Older

LEMMA OlderMonotone ==
  ASSUME NEW a \in 0 .. Interval, NEW b \in 0 .. Interval, a <= b
  PROVE  Older(a) <= Older(b)
  BY DEF Older

\* Time passes for the entries and for the history alike.
LEMMA TickIInv ==
  ASSUME IInv, Tick
  PROVE  IInv'
<1>1. /\ age' = [s \in Server |-> Older(age[s])]
      /\ sinceUp' = [s \in Server |-> IF Active(pool[s]) THEN 0 ELSE Older(sinceUp[s])]
      /\ sinceDown' = [s \in Server |-> IF Active(pool[s]) THEN Older(sinceDown[s]) ELSE 0]
      /\ UNCHANGED <<pool, result, deployed, state, raised, reachable, keyFile>>
  BY DEF Tick, world
<1>2. \A q \in Caller : call'[q] \in Call /\ call'[q].pc = call[q].pc /\ call'[q].client = call[q].client
  <2> SUFFICES ASSUME NEW q \in Caller
               PROVE  call'[q] \in Call /\ call'[q].pc = call[q].pc /\ call'[q].client = call[q].client
    OBVIOUS
  <2>1. call[q] \in Call /\ call[q].elapsed \in 0 .. Interval
    BY DEF IInv, TypeOK, Call
  <2>2. Older(call[q].elapsed) \in 0 .. Interval
    BY <2>1, OlderBound
  <2>3. call'[q] \in {call[q], [call[q] EXCEPT !.elapsed = Older(call[q].elapsed)]}
    BY DEF Tick
  <2> QED
    BY <2>1, <2>2, <2>3 DEF Call
<1>3. call' \in [Caller -> Call]
  <2>1. call' = [q \in Caller |-> call'[q]]
    BY DEF Tick
  <2> QED
    BY <1>2, <2>1
<1>4. \A s \in Server : /\ age[s] \in 0 .. Interval /\ sinceUp[s] \in 0 .. Interval
                        /\ sinceDown[s] \in 0 .. Interval
  BY DEF IInv, TypeOK
<1>5. TypeOK'
  <2>1. age' \in [Server -> 0 .. Interval]
    BY <1>1, <1>4, OlderBound
  <2>2. sinceUp' \in [Server -> 0 .. Interval] /\ sinceDown' \in [Server -> 0 .. Interval]
    BY <1>1, <1>4, OlderBound
  <2>3. \A q \in Caller : call'[q].pc \in {"pool", "deploy", "run"} => call'[q].client \in Client
    BY <1>2 DEF IInv, TypeOK
  <2> QED
    BY <1>1, <1>3, <2>1, <2>2, <2>3 DEF IInv, TypeOK
<1>6. NoLeakedClient' /\ PooledWereOpened'
  BY <1>1, <1>2 DEF IInv, NoLeakedClient, PooledWereOpened, At
<1>7. CacheIsHonest'
  <2> SUFFICES ASSUME NEW s \in Server
               PROVE  /\ result[s] = "up" => sinceUp'[s] <= age'[s]
                      /\ result[s] = "down" => sinceDown'[s] <= age'[s]
    BY <1>1 DEF CacheIsHonest
  <2>1. age'[s] = Older(age[s]) /\ Older(age[s]) \in 0 .. Interval
    BY <1>1, <1>4, OlderBound
  <2>2. /\ sinceUp'[s] \in {0, Older(sinceUp[s])}
        /\ sinceDown'[s] \in {0, Older(sinceDown[s])}
    BY <1>1
  <2>3. /\ result[s] = "up" => Older(sinceUp[s]) <= Older(age[s])
        /\ result[s] = "down" => Older(sinceDown[s]) <= Older(age[s])
    BY <1>4, OlderMonotone DEF IInv, CacheIsHonest
  <2> QED
    BY <2>1, <2>2, <2>3
<1>8. DisconnectIsSeen' /\ HistoryIsCurrent'
  BY <1>1 DEF IInv, DisconnectIsSeen, HistoryIsCurrent, Active
<1> QED
  BY <1>5, <1>6, <1>7, <1>8 DEF IInv

LEMMA NextIInv ==
  ASSUME IInv, [Next]_vars
  PROVE  IInv'
<1>1. ASSUME NEW p \in Caller, NEW s \in Server,
             Connect(p, s) \/ IsConnected(p, s, FALSE) \/ IsConnected(p, s, TRUE)
      PROVE  IInv'
  BY <1>1, BeginIInv
<1>2. ASSUME NEW p \in Caller, TryAppKey(p) \/ TryServerKey(p) \/ TryFirstKey(p) \/ TryPassword(p)
      PROVE  IInv'
  BY <1>2, LoginIInv
<1>3. ASSUME NEW p \in Caller,
             ReplaceClient(p) \/ DeployKey(p) \/ AskCache(p) \/ CacheHit(p) \/ Probe(p) \/ FetchClient(p)
      PROVE  IInv'
  BY <1>3, ReplaceIInv, DeployIInv, AskIInv, HitIInv, ProbeIInv, FetchIInv
<1>4. ASSUME NEW p \in Caller, RunCommand(p)
      PROVE  IInv'
  <2>1. call[p].pc \notin {"idle", "pool"}
    BY <1>4 DEF RunCommand, At
  <2> QED
    BY <1>4, <2>1, CallIInv DEF RunCommand, manager, world, IInv, TypeOK
<1>5. ASSUME NEW s \in Server, ReachabilityChanges(s)
      PROVE  IInv'
  <2>1. /\ UNCHANGED <<pool, result, age, deployed, state, call, raised, keyFile, history>>
        /\ reachable' \subseteq Server
    BY <1>5 DEF ReachabilityChanges, manager, IInv, TypeOK
  <2>2. /\ call' \in [Caller -> Call] /\ \A q \in Caller : call'[q] = call[q]
        /\ \A q \in Caller : call'[q].pc \in {"pool", "deploy", "run"} => call'[q].client \in Client
    BY <2>1 DEF IInv, TypeOK
  <2> QED
    BY <2>1, <2>2, OthersIInv DEF IInv, TypeOK
<1>6. CASE UNCHANGED vars
  <2>1. UNCHANGED <<pool, result, age, deployed, state, call, raised, reachable, keyFile, history>>
    BY <1>6 DEF vars, manager, world
  <2>2. /\ call' \in [Caller -> Call] /\ \A q \in Caller : call'[q] = call[q]
        /\ \A q \in Caller : call'[q].pc \in {"pool", "deploy", "run"} => call'[q].client \in Client
    BY <2>1 DEF IInv, TypeOK
  <2> QED
    BY <2>1, <2>2, OthersIInv DEF IInv, TypeOK
<1> QED
  BY <1>1, <1>2, <1>3, <1>4, <1>5, <1>6, DisconnectIInv, LoseIInv, TickIInv DEF Next

LEMMA InvariantHolds == Spec => []IInv
  BY InitIInv, NextIInv, PTL DEF Spec

\* Type correctness, which every other fact rests on.
THEOREM TypeCorrect == Spec => []TypeOK
  BY InvariantHolds, PTL DEF IInv

\* Whatever logins, replacements and disconnects of connect and disconnect overlap, no client
\* that has logged in is forgotten while it is open.
THEOREM NoClientIsLeaked == Spec => []NoLeakedClient
  BY InvariantHolds, PTL DEF IInv

\* An entry of the cache of is_connected is true of a moment no older than the entry says.
THEOREM AnswersAreDated == Spec => []CacheIsHonest
  BY InvariantHolds, PTL DEF IInv

\* No entry of the cache outlives the client that disconnect takes from the pool.
THEOREM DisconnectsAreSeen == Spec => []DisconnectIsSeen
  BY InvariantHolds, PTL DEF IInv

\* Both together: what the cache of is_connected may be trusted with.
THEOREM StatusIsAlwaysHonest == Spec => []StatusIsHonest
  BY AnswersAreDated, DisconnectsAreSeen, PTL DEF StatusIsHonest
-----------------------------------------------------------------------------
(***************************************************************************)
(* The network devices, for any number of devices, hosts, clients and      *)
(* requests.  As long as no two requests about a device overtake each      *)
(* other, at most one of them is on its way to a client, and then nothing  *)
(* is registered; so what is open is what is registered, or what that one  *)
(* request has just opened (DeviceInv).                                    *)
(***************************************************************************)
RequestFields == {"kind", "dev", "host", "at", "client"}

NetTypes ==
  /\ row \in [Device -> Host \cup {Network!Absent}]
  /\ registered \in [Device -> Client \cup {None}]
  /\ link = [c \in Client |-> link[c]] /\ target = [c \in Client |-> target[c]]
  /\ request = [r \in Caller |-> request[r]]
  /\ \A r \in Caller :
       /\ DOMAIN request[r] = RequestFields
       /\ request[r].at # "idle" => request[r].dev \in Device
       /\ request[r].at \in {"check", "look", "open"} => request[r].client = None
       /\ request[r].at = "register" => request[r].client \in Client

DeviceInv(d) ==
  /\ \A r, s \in Network!Connecting(d) : r = s
  /\ Network!Connecting(d) # {} =>
       registered[d] = None /\ Network!Deleting(d) = {} /\ row[d] # Network!Absent
  /\ Network!Deleting(d) # {} \/ row[d] = Network!Absent => registered[d] = None
  /\ Network!OpenFor(d) \subseteq Network!Owned(d)

NetInv == NetTypes /\ \A d \in Device \ overtaken : DeviceInv(d)

LEMMA NetInit == Network!Init => NetInv
<1> SUFFICES ASSUME Network!Init PROVE NetInv
  OBVIOUS
<1>1. /\ row \in [Device -> Host \cup {Network!Absent}]
      /\ registered = [d \in Device |-> None]
      /\ link = [c \in Client |-> "unused"] /\ target = [c \in Client |-> Network!NoTarget]
      /\ request = [r \in Caller |-> Network!Free]
  BY DEF Network!Init
<1>2. DOMAIN Network!Free = RequestFields /\ Network!Free.at = "idle"
  BY DEF Network!Free, RequestFields
<1>3. NetTypes
  BY <1>1, <1>2 DEF NetTypes
<1>4. ASSUME NEW d \in Device PROVE DeviceInv(d)
  <2>1. Network!Connecting(d) = {} /\ Network!Deleting(d) = {} /\ Network!OpenFor(d) = {}
    BY <1>1, <1>2 DEF Network!Connecting, Network!Deleting, Network!OpenFor
  <2> QED
    BY <1>1, <2>1 DEF DeviceInv
<1> QED
  BY <1>3, <1>4 DEF NetInv

\* A step that changes nothing of a device but that connections to it end.
LEMMA DeviceFrame ==
  ASSUME NEW d \in Device, DeviceInv(d), registered'[d] = registered[d],
         row'[d] = Network!Absent => row[d] = Network!Absent,
         Network!Connecting(d)' = Network!Connecting(d), Network!Deleting(d)' \subseteq Network!Deleting(d),
         \A r \in Network!Connecting(d) : request'[r].client = request[r].client,
         Network!OpenFor(d)' \subseteq Network!OpenFor(d)
  PROVE  DeviceInv(d)'
<1>1. Network!Owned(d)' = Network!Owned(d)
  BY DEF Network!Owned
<1> QED
  BY <1>1 DEF DeviceInv

\* One request goes on.
LEMMA RequestGoes ==
  ASSUME NetTypes, NEW r \in Caller, NEW q, request' = [request EXCEPT ![r] = q],
         DOMAIN q = RequestFields, q.at # "idle" => q.dev \in Device,
         q.at \in {"check", "look", "open"} => q.client = None,
         q.at = "register" => q.client \in Client
  PROVE  /\ request' = [s \in Caller |-> request'[s]]
         /\ \A s \in Caller : /\ DOMAIN request'[s] = RequestFields
                              /\ request'[s].at # "idle" => request'[s].dev \in Device
                              /\ request'[s].at \in {"check", "look", "open"} => request'[s].client = None
                              /\ request'[s].at = "register" => request'[s].client \in Client
         /\ \A s \in Caller : request'[s] = IF s = r THEN q ELSE request[s]
  BY DEF NetTypes

\* What is registered for a device and what is open stay, and so does who is on the way to it.
LEMMA QuietKeeps ==
  ASSUME NetInv, UNCHANGED <<registered, target, overtaken>>,
         row' \in [Device -> Host \cup {Network!Absent}],
         \A d \in Device : row'[d] = Network!Absent => row[d] = Network!Absent,
         link' = [c \in Client |-> link'[c]], \A c \in Client : link'[c] = "open" => link[c] = "open",
         \/ request' = request
         \/ \E r \in Caller : \E q :
                                 /\ request' = [request EXCEPT ![r] = q] /\ DOMAIN q = RequestFields
                                 /\ q.at # "idle" => q.dev \in Device
                                 /\ q.at \notin {"open", "register", "forget"}
                                 /\ q.at \in {"check", "look"} => q.client = None
                                 /\ request[r].at \notin {"open", "register"}
  PROVE  NetInv'
<1>1. /\ request' = [r \in Caller |-> request'[r]]
      /\ \A r \in Caller : /\ DOMAIN request'[r] = RequestFields
                           /\ request'[r].at # "idle" => request'[r].dev \in Device
                           /\ request'[r].at \in {"check", "look", "open"} => request'[r].client = None
                           /\ request'[r].at = "register" => request'[r].client \in Client
      /\ \A r \in Caller : \/ request'[r] = request[r]
                           \/ /\ request'[r].at \notin {"open", "register", "forget"}
                              /\ request[r].at \notin {"open", "register"}
  BY RequestGoes DEF NetInv, NetTypes
<1>2. NetTypes'
  BY <1>1 DEF NetInv, NetTypes
<1>3. ASSUME NEW d \in Device \ overtaken PROVE DeviceInv(d)'
  <2>1. Network!Connecting(d)' = Network!Connecting(d)
    BY <1>1 DEF Network!Connecting
  <2>2. Network!Deleting(d)' \subseteq Network!Deleting(d)
    BY <1>1 DEF Network!Deleting
  <2>3. \A r \in Network!Connecting(d) : request'[r].client = request[r].client
    BY <1>1 DEF Network!Connecting
  <2>4. Network!OpenFor(d)' \subseteq Network!OpenFor(d)
    BY DEF Network!OpenFor
  <2> QED
    BY <2>1, <2>2, <2>3, <2>4, DeviceFrame DEF NetInv
<1> QED
  BY <1>2, <1>3 DEF NetInv
\* The rows, the beginning and the end of a request, and connections that are lost.
LEMMA QuietDeviceSteps ==
  ASSUME NetInv,
         \/ \E d \in Device, h \in Host : Network!AddDevice(d, h) \/ Network!EditDevice(d, h)
         \/ \E r \in Caller, d \in Device, kind \in {"connect", "use", "delete"} : Network!Begin(r, d, kind)
         \/ \E r \in Caller : Network!Check(r) \/ Network!Execute(r)
         \/ \E c \in Client : Network!Lose(c)
  PROVE  NetInv'
<1> USE PartsAssumption DEF Network!ConstantsAssumption
<1>1. /\ row \in [Device -> Host \cup {Network!Absent}] /\ link = [c \in Client |-> link[c]]
      /\ \A r \in Caller : /\ DOMAIN request[r] = RequestFields
                           /\ request[r].at # "idle" => request[r].dev \in Device
                           /\ request[r].at = "check" => request[r].client = None
  BY DEF NetInv, NetTypes
<1>2. DOMAIN Network!Free = RequestFields /\ Network!Free.at = "idle"
  BY DEF Network!Free, RequestFields
<1>3. ASSUME NEW d \in Device, NEW h \in Host, Network!AddDevice(d, h) \/ Network!EditDevice(d, h)
      PROVE  NetInv'
  <2>1. /\ UNCHANGED <<registered, target, overtaken, link, request>> /\ row' = [row EXCEPT ![d] = h]
    BY <1>3 DEF Network!AddDevice, Network!EditDevice
  <2>2. row' \in [Device -> Host \cup {Network!Absent}]
        /\ \A e \in Device : row'[e] = Network!Absent => row[e] = Network!Absent
    BY <1>1, <2>1
  <2> QED
    BY <1>1, <2>1, <2>2, QuietKeeps
<1>4. ASSUME NEW r \in Caller, NEW d \in Device, NEW kind \in {"connect", "use", "delete"},
             Network!Begin(r, d, kind)
      PROVE  NetInv'
  <2> DEFINE at == CASE kind = "connect" -> "look" [] kind = "use" -> "check" [] kind = "delete" -> "disconnect"
             q == [kind |-> kind, dev |-> d, host |-> row[d], client |-> None, at |-> at]
  <2>1. /\ UNCHANGED <<registered, target, overtaken, link, row>> /\ request' = [request EXCEPT ![r] = q]
        /\ request[r] = Network!Free
    BY <1>4 DEF Network!Begin
  <2>2. at \in {"look", "check", "disconnect"}
    <3>1. CASE kind = "connect"
      BY <3>1
    <3>2. CASE kind = "use"
      BY <3>2
    <3>3. CASE kind = "delete"
      BY <3>3
    <3> QED
      BY <3>1, <3>2, <3>3
  <2> HIDE DEF at
  <2>3. DOMAIN q = RequestFields /\ q.dev = d /\ q.at = at /\ q.client = None
    BY DEF RequestFields
  <2> HIDE DEF q
  <2> QED
    BY <1>1, <1>2, <2>1, <2>2, <2>3, QuietKeeps
<1>5. ASSUME NEW r \in Caller, Network!Check(r) PROVE NetInv'
  <2>1. PICK at \in {"run", "look"} : request' = [request EXCEPT ![r].at = at]
    BY <1>5 DEF Network!Check, Network!Goto
  <2>2. UNCHANGED <<registered, target, overtaken, link, row>> /\ request[r].at = "check"
    BY <1>5 DEF Network!Check
  <2> DEFINE q == [request[r] EXCEPT !.at = at]
  <2>3. /\ request' = [request EXCEPT ![r] = q] /\ DOMAIN q = RequestFields
        /\ q.dev = request[r].dev /\ q.at = at /\ q.client = request[r].client
    BY <1>1, <2>1 DEF RequestFields
  <2> HIDE DEF q
  <2> QED
    BY <1>1, <2>1, <2>2, <2>3, QuietKeeps
<1>6. ASSUME NEW r \in Caller, Network!Execute(r) PROVE NetInv'
  BY <1>1, <1>2, <1>6, QuietKeeps DEF Network!Execute, Network!Finish
<1>7. ASSUME NEW c \in Client, Network!Lose(c) PROVE NetInv'
  <2>1. UNCHANGED <<registered, target, overtaken, row, request>> /\ link' = [link EXCEPT ![c] = "dead"]
    BY <1>7 DEF Network!Lose
  <2>2. link' = [e \in Client |-> link'[e]] /\ \A e \in Client : link'[e] = "open" => link[e] = "open"
    BY <1>1, <2>1
  <2> QED
    BY <1>1, <2>1, <2>2, QuietKeeps
<1> QED
  BY <1>3, <1>4, <1>5, <1>6, <1>7

\* The first look at what is registered: whoever finds nothing usable goes to connect.
LEMMA LookKeeps == ASSUME NetInv, NEW r \in Caller, Network!Look(r) PROVE NetInv'
<1>1. PICK d : d = request[r].dev /\ d \in Device /\ request[r].at = "look"
  BY DEF Network!Look, NetInv, NetTypes
<1>2. row \in [Device -> Host \cup {Network!Absent}] /\ link = [c \in Client |-> link[c]]
      /\ DOMAIN request[r] = RequestFields /\ UNCHANGED <<row, link, target>>
  BY DEF NetInv, NetTypes, Network!Look
<1>3. CASE Network!Usable(d)
  <2>1. UNCHANGED <<registered, overtaken>>
    BY <1>1, <1>3 DEF Network!Look
  <2>2. CASE request[r].kind = "use"
    <3> DEFINE q == [request[r] EXCEPT !.at = "run"]
    <3>1. request' = [request EXCEPT ![r] = q]
      BY <1>1, <1>3, <2>2 DEF Network!Look, Network!Goto
    <3>2. DOMAIN q = RequestFields /\ q.dev = d /\ q.at = "run"
      BY <1>1, <1>2 DEF RequestFields
    <3> HIDE DEF q
    <3> QED
      BY <1>1, <1>2, <2>1, <3>1, <3>2, QuietKeeps
  <2>3. CASE request[r].kind # "use"
    <3>1. request' = [request EXCEPT ![r] = Network!Free]
      BY <1>1, <1>3, <2>3 DEF Network!Look, Network!Finish
    <3>2. DOMAIN Network!Free = RequestFields /\ Network!Free.at = "idle"
      BY DEF Network!Free, RequestFields
    <3> QED
      BY <1>1, <1>2, <2>1, <3>1, <3>2, QuietKeeps
  <2> QED
    BY <2>2, <2>3
<1>4. CASE ~Network!Usable(d)
  <2> DEFINE q == [request[r] EXCEPT !.at = "open"]
  <2>1. /\ registered' = [registered EXCEPT ![d] = None]
        /\ request' = [request EXCEPT ![r] = q]
        /\ overtaken' = IF Network!Connecting(d) \cup Network!Deleting(d) # {} \/ row[d] = Network!Absent
                        THEN overtaken \cup {d} ELSE overtaken
    BY <1>1, <1>4 DEF Network!Look, Network!Goto
  <2>2. /\ DOMAIN q = RequestFields /\ q.dev = d /\ q.at = "open" /\ q.client = None
    BY <1>1, <1>2 DEF RequestFields, NetInv, NetTypes
  <2> HIDE DEF q
  <2>3. /\ request' = [s \in Caller |-> request'[s]]
        /\ \A s \in Caller : /\ DOMAIN request'[s] = RequestFields
                             /\ request'[s].at # "idle" => request'[s].dev \in Device
                             /\ request'[s].at \in {"check", "look", "open"} => request'[s].client = None
                             /\ request'[s].at = "register" => request'[s].client \in Client
        /\ \A s \in Caller : request'[s] = IF s = r THEN q ELSE request[s]
    BY <1>1, <2>1, <2>2, RequestGoes DEF NetInv
  <2>4. NetTypes'
    BY <1>2, <2>1, <2>3 DEF NetInv, NetTypes
  <2>5. ASSUME NEW e \in Device \ overtaken', e # d PROVE DeviceInv(e)'
    <3>1. Network!Connecting(e)' = Network!Connecting(e) /\ Network!Deleting(e)' = Network!Deleting(e)
          /\ \A s \in Network!Connecting(e) : request'[s].client = request[s].client
      BY <1>1, <2>2, <2>3, <2>5 DEF Network!Connecting, Network!Deleting
    <3>2. Network!OpenFor(e)' = Network!OpenFor(e) /\ registered'[e] = registered[e] /\ row'[e] = row[e]
      BY <1>2, <2>1, <2>5 DEF Network!OpenFor, NetInv, NetTypes
    <3>3. DeviceInv(e)
      BY <2>1, <2>5 DEF NetInv
    <3> QED
      BY <3>1, <3>2, <3>3, DeviceFrame
  <2>6. ASSUME d \notin overtaken' PROVE DeviceInv(d)'
    <3>1. Network!Connecting(d) = {} /\ Network!Deleting(d) = {} /\ row[d] # Network!Absent /\ DeviceInv(d)
      <4>1. ~(Network!Connecting(d) \cup Network!Deleting(d) # {} \/ row[d] = Network!Absent)
        BY <2>1, <2>6
      <4>2. d \notin overtaken
        BY <2>1, <2>6, <4>1
      <4> QED
        BY <1>1, <4>1, <4>2 DEF NetInv
    <3>2. Network!Connecting(d)' = {r} /\ Network!Deleting(d)' = {}
      BY <1>1, <2>2, <2>3, <3>1 DEF Network!Connecting, Network!Deleting
    <3>3. Network!OpenFor(d)' = {}
      <4>1. Network!OpenFor(d) \subseteq {registered[d]}
        BY <3>1 DEF DeviceInv, Network!Owned
      <4>2. registered[d] \notin Network!OpenFor(d)
        BY <1>4, PartsAssumption DEF Network!ConstantsAssumption, Network!OpenFor, Network!Usable, Network!Active
      <4> QED
        BY <1>2, <4>1, <4>2 DEF Network!OpenFor
    <3>4. registered'[d] = None /\ row'[d] # Network!Absent
      BY <1>1, <1>2, <2>1, <3>1 DEF NetInv, NetTypes
    <3> QED
      BY <3>2, <3>3, <3>4 DEF DeviceInv
  <2> QED
    BY <2>4, <2>5, <2>6 DEF NetInv
<1> QED
  BY <1>3, <1>4

\* Of a device that was not overtaken, the request on its way to a client is the only one.
LEMMA OnTheWay ==
  ASSUME NetInv, NEW r \in Caller, NEW d \in Device \ overtaken, r \in Network!Connecting(d)
  PROVE  /\ Network!Connecting(d) = {r} /\ registered[d] = None /\ Network!Deleting(d) = {}
         /\ row[d] # Network!Absent /\ Network!OpenFor(d) \subseteq {request[r].client} \ {None}
<1>1. DeviceInv(d)
  BY DEF NetInv
<1>2. Network!Connecting(d) = {r} /\ registered[d] = None
  BY <1>1 DEF DeviceInv
<1>3. None \notin Network!OpenFor(d)
  BY PartsAssumption DEF Network!ConstantsAssumption, Network!OpenFor
<1> QED
  BY <1>1, <1>2, <1>3 DEF DeviceInv, Network!Owned

\* A client is opened, or cannot be.
LEMMA OpenKeeps == ASSUME NetInv, NEW r \in Caller, Network!Open(r) PROVE NetInv'
<1> USE PartsAssumption DEF Network!ConstantsAssumption
<1>1. PICK d : d = request[r].dev /\ d \in Device /\ request[r].at = "open" /\ r \in Network!Connecting(d)
  BY DEF Network!Open, NetInv, NetTypes, Network!Connecting
<1>2. UNCHANGED <<row, registered, overtaken>> /\ DOMAIN request[r] = RequestFields
  BY DEF Network!Open, NetInv, NetTypes
<1>3. ASSUME NEW c \in Client, link[c] = "unused", link' = [link EXCEPT ![c] = "open"],
             target' = [target EXCEPT ![c] = [dev |-> request[r].dev, host |-> request[r].host]],
             request' = [request EXCEPT ![r].at = "register", ![r].client = c]
      PROVE  NetInv'
  <2> DEFINE q == [request[r] EXCEPT !.at = "register", !.client = c]
  <2>1. request' = [request EXCEPT ![r] = q]
    BY <1>3 DEF NetInv, NetTypes
  <2>2. DOMAIN q = RequestFields /\ q.dev = d /\ q.at = "register" /\ q.client = c
    BY <1>1, <1>2 DEF RequestFields
  <2> HIDE DEF q
  <2>3. /\ request' = [s \in Caller |-> request'[s]]
        /\ \A s \in Caller : /\ DOMAIN request'[s] = RequestFields
                             /\ request'[s].at # "idle" => request'[s].dev \in Device
                             /\ request'[s].at \in {"check", "look", "open"} => request'[s].client = None
                             /\ request'[s].at = "register" => request'[s].client \in Client
        /\ \A s \in Caller : request'[s] = IF s = r THEN q ELSE request[s]
    BY <1>1, <2>1, <2>2, RequestGoes DEF NetInv
  <2>4. /\ link' = [e \in Client |-> link'[e]] /\ target' = [e \in Client |-> target'[e]]
        /\ \A e \in Client \ {c} : link'[e] = link[e] /\ target'[e] = target[e]
        /\ target'[c].dev = d /\ link[c] # "open"
    BY <1>1, <1>3 DEF NetInv, NetTypes
  <2>5. NetTypes'
    BY <1>2, <2>3, <2>4 DEF NetInv, NetTypes
  <2>6. \A e \in Device : Network!Connecting(e)' = Network!Connecting(e) /\ Network!Deleting(e)' = Network!Deleting(e)
    BY <1>1, <2>2, <2>3 DEF Network!Connecting, Network!Deleting
  <2>7. ASSUME NEW e \in Device \ overtaken, e # d PROVE DeviceInv(e)'
    <3>1. Network!OpenFor(e)' \subseteq Network!OpenFor(e)
      BY <2>4, <2>7 DEF Network!OpenFor
    <3>2. \A s \in Network!Connecting(e) : request'[s].client = request[s].client
      BY <1>1, <2>3, <2>7 DEF Network!Connecting
    <3> QED
      BY <1>2, <2>6, <3>1, <3>2, DeviceFrame DEF NetInv
  <2>8. ASSUME d \notin overtaken PROVE DeviceInv(d)'
    <3>1. /\ Network!Connecting(d) = {r} /\ registered[d] = None /\ Network!Deleting(d) = {}
          /\ row[d] # Network!Absent /\ Network!OpenFor(d) = {}
      BY <1>1, <2>8, OnTheWay DEF NetInv, NetTypes
    <3>2. Network!OpenFor(d)' \subseteq {c}
      BY <2>4, <3>1 DEF Network!OpenFor
    <3>3. c \in Network!Owned(d)'
      BY <2>2, <2>3, <2>6, <3>1 DEF Network!Owned
    <3>4. /\ Network!Connecting(d)' = {r} /\ Network!Deleting(d)' = {} /\ registered'[d] = None
          /\ row'[d] # Network!Absent
      BY <1>1, <1>2, <2>6, <3>1
    <3> QED
      BY <3>2, <3>3, <3>4 DEF DeviceInv
  <2> QED
    BY <1>2, <2>5, <2>7, <2>8 DEF NetInv
<1>4. CASE Network!Finish(r) /\ UNCHANGED <<link, target>>
  <2>1. request' = [request EXCEPT ![r] = Network!Free]
    BY <1>4 DEF Network!Finish
  <2>2. DOMAIN Network!Free = RequestFields /\ Network!Free.at = "idle"
    BY DEF Network!Free, RequestFields
  <2>3. /\ request' = [s \in Caller |-> request'[s]]
        /\ \A s \in Caller : /\ DOMAIN request'[s] = RequestFields
                             /\ request'[s].at # "idle" => request'[s].dev \in Device
                             /\ request'[s].at \in {"check", "look", "open"} => request'[s].client = None
                             /\ request'[s].at = "register" => request'[s].client \in Client
        /\ \A s \in Caller : request'[s] = IF s = r THEN Network!Free ELSE request[s]
    BY <1>1, <2>1, <2>2, RequestGoes DEF NetInv
  <2>4. NetTypes'
    BY <1>2, <1>4, <2>3 DEF NetInv, NetTypes
  <2>5. \A e \in Device : /\ Network!OpenFor(e)' = Network!OpenFor(e) /\ Network!Deleting(e)' = Network!Deleting(e)
                          /\ Network!Connecting(e)' = Network!Connecting(e) \ {r}
    BY <1>1, <1>4, <2>2, <2>3 DEF Network!OpenFor, Network!Deleting, Network!Connecting
  <2>6. ASSUME NEW e \in Device \ overtaken PROVE DeviceInv(e)'
    <3>1. CASE r \in Network!Connecting(e)
      <4>1. Network!Connecting(e) = {r} /\ Network!Deleting(e) = {} /\ row[e] # Network!Absent /\ Network!OpenFor(e) = {}
        BY <1>1, <3>1, OnTheWay DEF NetInv, NetTypes
      <4> QED
        BY <1>2, <2>5, <4>1 DEF DeviceInv
    <3>2. CASE r \notin Network!Connecting(e)
      <4>1. Network!Connecting(e)' = Network!Connecting(e)
            /\ \A s \in Network!Connecting(e) : request'[s].client = request[s].client
        BY <2>3, <2>5, <3>2 DEF Network!Connecting
      <4> QED
        BY <1>2, <2>5, <4>1, DeviceFrame DEF NetInv
    <3> QED
      BY <3>1, <3>2
  <2> QED
    BY <1>2, <2>4, <2>6 DEF NetInv
<1> QED
  BY <1>3, <1>4 DEF Network!Open

\* What was opened is registered.
LEMMA RegisterKeeps == ASSUME NetInv, NEW r \in Caller, Network!Register(r) PROVE NetInv'
<1> USE PartsAssumption DEF Network!ConstantsAssumption
<1>1. PICK d : d = request[r].dev /\ d \in Device /\ request[r].at = "register" /\ r \in Network!Connecting(d)
  BY DEF Network!Register, NetInv, NetTypes, Network!Connecting
<1>2. UNCHANGED <<row, link, target, overtaken>> /\ DOMAIN request[r] = RequestFields
      /\ registered' = [registered EXCEPT ![d] = request[r].client]
  BY <1>1 DEF Network!Register, NetInv, NetTypes
<1>3. PICK q : request' = [request EXCEPT ![r] = q] /\ DOMAIN q = RequestFields /\ q.at \in {"run", "idle"}
               /\ (q.at = "run" => q.dev = d)
  <2>1. CASE request[r].kind = "use"
    <3> DEFINE q == [request[r] EXCEPT !.at = "run", !.client = None]
    <3>1. request' = [request EXCEPT ![r] = q]
      BY <2>1 DEF Network!Register, NetInv, NetTypes
    <3>2. DOMAIN q = RequestFields /\ q.dev = d /\ q.at = "run"
      BY <1>1, <1>2 DEF RequestFields
    <3> HIDE DEF q
    <3> QED
      BY <3>1, <3>2
  <2>2. CASE request[r].kind # "use"
    BY <2>2 DEF Network!Register, Network!Finish, Network!Free, RequestFields
  <2> QED
    BY <2>1, <2>2
<1>4. /\ request' = [s \in Caller |-> request'[s]]
      /\ \A s \in Caller : /\ DOMAIN request'[s] = RequestFields
                           /\ request'[s].at # "idle" => request'[s].dev \in Device
                           /\ request'[s].at \in {"check", "look", "open"} => request'[s].client = None
                           /\ request'[s].at = "register" => request'[s].client \in Client
      /\ \A s \in Caller : request'[s] = IF s = r THEN q ELSE request[s]
  BY <1>1, <1>3, RequestGoes DEF NetInv
<1>5. request[r].client \in Client \cup {None}
  BY <1>1 DEF NetInv, NetTypes, Network!Connecting
<1>6. NetTypes'
  BY <1>2, <1>4, <1>5 DEF NetInv, NetTypes
<1>7. \A e \in Device : /\ Network!OpenFor(e)' = Network!OpenFor(e) /\ Network!Deleting(e)' = Network!Deleting(e)
                        /\ Network!Connecting(e)' = Network!Connecting(e) \ {r}
  BY <1>1, <1>2, <1>3, <1>4 DEF Network!OpenFor, Network!Deleting, Network!Connecting
<1>8. ASSUME NEW e \in Device \ overtaken, e # d PROVE DeviceInv(e)'
  <2>1. r \notin Network!Connecting(e) /\ registered'[e] = registered[e]
    BY <1>1, <1>2, <1>8 DEF Network!Connecting, NetInv, NetTypes
  <2>2. Network!Connecting(e)' = Network!Connecting(e)
        /\ \A s \in Network!Connecting(e) : request'[s].client = request[s].client
    BY <1>4, <1>7, <2>1 DEF Network!Connecting
  <2> QED
    BY <1>2, <1>7, <1>8, <2>1, <2>2, DeviceFrame DEF NetInv
<1>9. ASSUME d \notin overtaken PROVE DeviceInv(d)'
  <2>1. /\ Network!Connecting(d) = {r} /\ Network!Deleting(d) = {}
        /\ row[d] # Network!Absent /\ Network!OpenFor(d) \subseteq {request[r].client}
    BY <1>1, <1>9, OnTheWay
  <2>2. Network!Connecting(d)' = {} /\ Network!Deleting(d)' = {} /\ registered'[d] = request[r].client
    BY <1>1, <1>2, <1>7, <2>1 DEF NetInv, NetTypes
  <2>3. request[r].client \in Network!Owned(d)'
    BY <2>2 DEF Network!Owned
  <2>4. row'[d] # Network!Absent /\ Network!OpenFor(d)' \subseteq Network!Owned(d)'
    BY <1>1, <1>2, <1>7, <2>1, <2>3
  <2> QED
    BY <2>2, <2>4 DEF DeviceInv
<1> QED
  BY <1>2, <1>6, <1>8, <1>9 DEF NetInv

\* What is registered for a device is closed; its row is deleted after that.
LEMMA DropKeeps ==
  ASSUME NetInv, \/ \E d \in Device : Network!Disconnect(d)
                 \/ \E r \in Caller : Network!DeleteBegins(r) \/ Network!DeleteEnds(r)
  PROVE  NetInv'
<1> USE PartsAssumption DEF Network!ConstantsAssumption
<1>1. ASSUME NEW d \in Device, Network!DropClient(d), UNCHANGED target
      PROVE  /\ registered' = [registered EXCEPT ![d] = None] /\ link' = [c \in Client |-> link'[c]]
             /\ \A e \in Device : Network!OpenFor(e)' \subseteq Network!OpenFor(e)
             /\ registered[d] \notin Network!OpenFor(d)'
  <2>1. registered' = [registered EXCEPT ![d] = None]
        /\ link' = IF registered[d] = None THEN link ELSE [link EXCEPT ![registered[d]] = "closed"]
    BY <1>1 DEF Network!DropClient
  <2>2. link' = [c \in Client |-> link'[c]] /\ \A c \in Client : link'[c] = "open" => link[c] = "open" /\ c # registered[d]
    BY <2>1 DEF NetInv, NetTypes
  <2> QED
    BY <1>1, <2>1, <2>2 DEF Network!OpenFor
<1>2. ASSUME NEW d \in Device, Network!Disconnect(d) PROVE NetInv'
  <2>1. Network!DropClient(d) /\ UNCHANGED <<row, target, request, overtaken>>
    BY <1>2 DEF Network!Disconnect
  <2>2. NetTypes'
    BY <1>1, <2>1 DEF NetInv, NetTypes
  <2>3. ASSUME NEW e \in Device \ overtaken PROVE DeviceInv(e)'
    <3>1. Network!Connecting(e)' = Network!Connecting(e) /\ Network!Deleting(e)' = Network!Deleting(e)
      BY <2>1 DEF Network!Connecting, Network!Deleting
    <3>2. CASE e # d
      <4>1. registered'[e] = registered[e]
        BY <1>1, <2>1, <3>2 DEF NetInv, NetTypes
      <4> QED
        BY <1>1, <2>1, <3>1, <4>1, DeviceFrame DEF NetInv
    <3>3. CASE e = d
      <4>1. registered'[d] = None /\ DeviceInv(d)
        BY <1>1, <2>1, <2>3, <3>3 DEF NetInv, NetTypes
      <4>2. Network!OpenFor(d)' \subseteq Network!Owned(d) \ {registered[d]}
        BY <1>1, <2>1, <4>1 DEF DeviceInv
      <4>3. Network!Owned(d) \ {registered[d]} \subseteq Network!Owned(d)'
        BY <2>1, <3>1, <3>3 DEF Network!Owned
      <4> QED
        BY <2>1, <3>1, <3>3, <4>1, <4>2, <4>3 DEF DeviceInv
    <3> QED
      BY <3>2, <3>3
  <2> QED
    BY <2>1, <2>2, <2>3 DEF NetInv
<1>3. ASSUME NEW r \in Caller, Network!DeleteBegins(r) PROVE NetInv'
  <2>1. PICK d : d = request[r].dev /\ d \in Device /\ request[r].at = "disconnect"
    BY <1>3 DEF Network!DeleteBegins, NetInv, NetTypes
  <2> DEFINE q == [request[r] EXCEPT !.at = "forget"]
  <2>2. /\ Network!DropClient(d) /\ UNCHANGED <<row, target>> /\ request' = [request EXCEPT ![r] = q]
        /\ overtaken' = IF Network!Connecting(d) # {} THEN overtaken \cup {d} ELSE overtaken
    BY <1>3, <2>1 DEF Network!DeleteBegins, Network!LetGo, Network!Goto
  <2>3. DOMAIN q = RequestFields /\ q.dev = d /\ q.at = "forget"
    BY <2>1 DEF RequestFields, NetInv, NetTypes
  <2> HIDE DEF q
  <2>4. /\ request' = [s \in Caller |-> request'[s]]
        /\ \A s \in Caller : /\ DOMAIN request'[s] = RequestFields
                             /\ request'[s].at # "idle" => request'[s].dev \in Device
                             /\ request'[s].at \in {"check", "look", "open"} => request'[s].client = None
                             /\ request'[s].at = "register" => request'[s].client \in Client
        /\ \A s \in Caller : request'[s] = IF s = r THEN q ELSE request[s]
    BY <2>1, <2>2, <2>3, RequestGoes DEF NetInv
  <2>5. NetTypes'
    BY <1>1, <2>1, <2>2, <2>4 DEF NetInv, NetTypes
  <2>6. \A e \in Device : Network!Connecting(e)' = Network!Connecting(e)
    BY <2>1, <2>3, <2>4 DEF Network!Connecting
  <2>7. ASSUME NEW e \in Device \ overtaken', e # d PROVE DeviceInv(e)'
    <3>1. registered'[e] = registered[e] /\ DeviceInv(e)
      BY <1>1, <2>1, <2>2, <2>7 DEF NetInv, NetTypes
    <3>2. Network!Deleting(e)' \subseteq Network!Deleting(e)
          /\ \A s \in Network!Connecting(e) : request'[s].client = request[s].client
      BY <2>1, <2>3, <2>4, <2>7 DEF Network!Deleting, Network!Connecting
    <3> QED
      BY <1>1, <2>1, <2>2, <2>6, <3>1, <3>2, DeviceFrame
  <2>8. ASSUME d \notin overtaken' PROVE DeviceInv(d)'
    <3>1. Network!Connecting(d) = {} /\ registered'[d] = None /\ DeviceInv(d)
      BY <1>1, <2>1, <2>2, <2>8 DEF NetInv, NetTypes
    <3>2. Network!OpenFor(d)' = {}
      BY <1>1, <2>1, <2>2, <3>1 DEF DeviceInv, Network!Owned
    <3> QED
      BY <2>1, <2>6, <3>1, <3>2 DEF DeviceInv
  <2> QED
    BY <2>5, <2>7, <2>8 DEF NetInv
<1>4. ASSUME NEW r \in Caller, Network!DeleteEnds(r) PROVE NetInv'
  <2>1. PICK d : d = request[r].dev /\ d \in Device /\ request[r].at = "forget" /\ r \in Network!Deleting(d)
    BY <1>4 DEF Network!DeleteEnds, NetInv, NetTypes, Network!Deleting
  <2>2. /\ row' = [row EXCEPT ![d] = Network!Absent] /\ request' = [request EXCEPT ![r] = Network!Free]
        /\ UNCHANGED <<registered, link, target, overtaken>>
    BY <1>4, <2>1 DEF Network!DeleteEnds, Network!Finish
  <2>3. DOMAIN Network!Free = RequestFields /\ Network!Free.at = "idle"
    BY DEF Network!Free, RequestFields
  <2>4. /\ request' = [s \in Caller |-> request'[s]]
        /\ \A s \in Caller : /\ DOMAIN request'[s] = RequestFields
                             /\ request'[s].at # "idle" => request'[s].dev \in Device
                             /\ request'[s].at \in {"check", "look", "open"} => request'[s].client = None
                             /\ request'[s].at = "register" => request'[s].client \in Client
        /\ \A s \in Caller : request'[s] = IF s = r THEN Network!Free ELSE request[s]
    BY <2>2, <2>3, RequestGoes DEF NetInv
  <2>5. NetTypes'
    BY <2>2, <2>4 DEF NetInv, NetTypes
  <2>6. \A e \in Device : /\ Network!OpenFor(e)' = Network!OpenFor(e)
                          /\ Network!Connecting(e)' = Network!Connecting(e)
                          /\ Network!Deleting(e)' \subseteq Network!Deleting(e)
                          /\ \A s \in Network!Connecting(e) : request'[s].client = request[s].client
    BY <2>1, <2>2, <2>3, <2>4 DEF Network!OpenFor, Network!Connecting, Network!Deleting
  <2>7. ASSUME NEW e \in Device \ overtaken PROVE DeviceInv(e)'
    <3>1. CASE e # d
      <4>1. row'[e] = row[e]
        BY <2>2, <3>1 DEF NetInv, NetTypes
      <4> QED
        BY <2>2, <2>6, <4>1, DeviceFrame DEF NetInv
    <3>2. CASE e = d
      <4>1. registered[d] = None /\ Network!Connecting(d) = {} /\ DeviceInv(d)
        BY <2>1, <2>7, <3>2 DEF NetInv, DeviceInv
      <4>2. Network!Connecting(d)' = {} /\ Network!Owned(d) = {None}
        BY <2>1, <2>6, <4>1 DEF Network!Owned
      <4>3. registered'[d] = None /\ Network!Owned(d)' = {None}
        BY <2>2, <4>1, <4>2 DEF Network!Owned
      <4> QED
        BY <2>1, <2>6, <3>2, <4>1, <4>2, <4>3 DEF DeviceInv
    <3> QED
      BY <3>1, <3>2
  <2> QED
    BY <2>2, <2>5, <2>7 DEF NetInv
<1> QED
  BY <1>2, <1>3, <1>4

LEMMA NetNext == ASSUME NetInv, [Network!Next]_(Network!vars) PROVE NetInv'
<1>1. CASE Network!Next
  BY <1>1, QuietDeviceSteps, LookKeeps, OpenKeeps, RegisterKeeps, DropKeeps DEF Network!Next
<1>2. CASE UNCHANGED Network!vars
  <2>1. UNCHANGED <<row, registered, link, target, request, overtaken>>
    BY <1>2 DEF Network!vars
  <2>2. NetTypes'
    BY <2>1 DEF NetInv, NetTypes
  <2>3. ASSUME NEW d \in Device \ overtaken PROVE DeviceInv(d)'
    BY <2>1 DEF NetInv, DeviceInv, Network!Connecting, Network!Deleting, Network!OpenFor, Network!Owned
  <2> QED
    BY <2>1, <2>2, <2>3 DEF NetInv
<1> QED
  BY <1>1, <1>2

LEMMA ConnectionsAreOwned == NetInv => Network!ConnectionsAreOwned
<1> USE PartsAssumption DEF Network!ConstantsAssumption
<1> SUFFICES ASSUME NetInv, NEW d \in Device \ overtaken
             PROVE  /\ Network!Cardinality(Network!OpenFor(d)) <= 1
                    /\ Network!OpenFor(d) \subseteq Network!Owned(d)
                    /\ row[d] = Network!Absent => Network!OpenFor(d) = {}
  BY DEF Network!ConnectionsAreOwned
<1>1. DeviceInv(d) /\ None \notin Network!OpenFor(d)
  BY DEF NetInv, Network!OpenFor
<1>2. PICK x : Network!OpenFor(d) \subseteq {x}
  <2>1. CASE Network!Connecting(d) = {}
    BY <1>1, <2>1 DEF DeviceInv, Network!Owned
  <2>2. ASSUME NEW r \in Network!Connecting(d) PROVE Network!OpenFor(d) \subseteq {request[r].client}
    BY <2>2, OnTheWay DEF Network!Connecting
  <2> QED
    BY <2>1, <2>2
<1>3. Cardinality(Network!OpenFor(d)) <= 1
  <2>1. IsFiniteSet({x}) /\ Cardinality({x}) = 1
    BY FS_Singleton
  <2> QED
    BY <1>2, <2>1, FS_Subset
<1>4. Network!Cardinality(Network!OpenFor(d)) = Cardinality(Network!OpenFor(d))
  BY Zenon DEF Network!Cardinality, Cardinality
<1>5. row[d] = Network!Absent => Network!OpenFor(d) = {}
  BY <1>1 DEF DeviceInv, Network!Owned
<1> QED
  BY <1>1, <1>3, <1>4, <1>5 DEF DeviceInv
-----------------------------------------------------------------------------
(***************************************************************************)
(* The pool of the library, for any number of threads, clients, permits,   *)
(* connects and disconnects.  A connect makes a pool and then a semaphore, *)
(* so Made, the semaphores that are there, may be one less than connects.  *)
(* Permits are counted against Made: each that is taken is a thread's.     *)
(***************************************************************************)
LockInv ==
  \A t \in Thread :
    /\ pc[t] \in {"connecting", "newSemaphore"} => lock = t
    /\ pc[t] = "connecting" => connects < MaxConnects
    /\ pc[t] = "newSemaphore" => connects >= 1

HolderPc == {"lookPool", "take", "run", "putPool", "putSem", "append", "release", "errorSem"}

Made == IF \E t \in Thread : pc[t] = "newSemaphore" THEN connects - 1 ELSE connects

SemaphoreInv ==
  /\ \A g \in Library!Generation : g > Made => permits[g] = 0
  /\ currentSem # None => currentSem <= Made
  /\ \A t \in Thread : sem[t] # None => sem[t] <= Made
  /\ \A t \in Thread : pc[t] \in {"acquire", "lookPool", "take"} => sem[t] # None
  /\ disconnects = 0 =>
       /\ currentSem = None => Made = 0
       /\ currentSem # None => currentSem = Made
       /\ \A t \in Thread : pc[t] \in HolderPc \cup {"acquire"} => currentSem # None
       /\ \A t \in Thread : pc[t] \in {"append", "release"} => sem[t] # None

CountInv ==
  /\ Cardinality(Library!Permits) + Cardinality(Library!Holders) <= PoolSize * Made
  /\ disconnects = 0 => Cardinality(Library!Permits) + Cardinality(Library!Holders) = PoolSize * Made

UserInv ==
  /\ Library!ExclusiveUse
  /\ \A g \in Library!Generation : \A c \in idle[g] : clients[c] # "unused"
  /\ \A t \in Thread : client[t] # None =>
       clients[client[t]] # "unused" /\ pc[t] \in {"run", "putPool", "putSem", "append"}

RoomInv ==
  /\ currentPool # None => currentPool <= connects
  /\ \A t \in Thread : pools[t] # None => pools[t] <= connects
  /\ disconnects = 0 =>
       /\ connects >= 1 => currentPool # None
       /\ \A t \in Thread : pc[t] # "closing" /\ (pc[t] \in {"putSem", "append"} => pools[t] # None)
       /\ connects = 0 => Library!Open = {}
       /\ connects = 1 => /\ Library!Open \subseteq idle[1] \cup Library!InUse
                          /\ IsFiniteSet(idle[1]) /\ Cardinality(idle[1] \cup Library!InUse) <= PoolSize

PoolInv == Library!TypeOK /\ LockInv /\ SemaphoreInv /\ CountInv /\ UserInv /\ RoomInv

-----------------------------------------------------------------------------
LEMMA PoolConstants ==
  /\ PoolSize \in Nat \ {0} /\ MaxConnects \in Nat /\ MaxDisconnects \in Nat
  /\ None \notin Thread /\ None \notin Client /\ None \notin Nat /\ IsFiniteSet(Thread)
<1>1. Library!ConstantsAssumption
  BY PartsAssumption
<1>2. Library!IsFiniteSet(Thread) => IsFiniteSet(Thread)
  BY Zenon DEF Library!IsFiniteSet, IsFiniteSet
<1> QED
  BY <1>1, <1>2 DEF Library!ConstantsAssumption

\* The permits that a table of semaphores has.
PermitsOf(p) == UNION {{g} \X (1 .. p[g]) : g \in Library!Generation}

LEMMA PermitsFinite ==
  ASSUME NEW p \in [Library!Generation -> Nat]
  PROVE  IsFiniteSet(PermitsOf(p))
<1>1. IsFiniteSet(Library!Generation)
  BY PoolConstants, FS_Interval DEF Library!Generation
<1> DEFINE Mine(g) == {g} \X (1 .. p[g])
           All == {Mine(g) : g \in Library!Generation}
<1>2. ASSUME NEW g \in Library!Generation PROVE IsFiniteSet(Mine(g))
  <2>1. p[g] \in Int /\ 1 \in Int
    OBVIOUS
  <2>2. IsFiniteSet({g}) /\ IsFiniteSet(1 .. p[g])
    BY <2>1, FS_Singleton, FS_Interval
  <2> QED
    BY <2>2, FS_Product
<1>3. IsFiniteSet(All)
  <2> DEFINE f == [g \in Library!Generation |-> Mine(g)]
  <2>1. f \in Surjection(Library!Generation, All)
    BY DEF Surjection
  <2> QED
    BY <1>1, <2>1, FS_Surjection
<1> QED
  BY <1>2, <1>3, FS_UNION DEF PermitsOf

\* A semaphore without permits gets some.
LEMMA PermitsAre ==
  ASSUME NEW p \in [Library!Generation -> Nat], NEW g \in Library!Generation, NEW k \in Nat, NEW q,
         q = [p EXCEPT ![g] = p[g] + k]
  PROVE  /\ q \in [Library!Generation -> Nat] /\ IsFiniteSet(PermitsOf(p)) /\ IsFiniteSet(PermitsOf(q))
         /\ Cardinality(PermitsOf(p)) \in Nat
         /\ Cardinality(PermitsOf(q)) = Cardinality(PermitsOf(p)) + k
<1>1. q \in [Library!Generation -> Nat] /\ q[g] = p[g] + k /\ \A h \in Library!Generation \ {g} : q[h] = p[h]
  OBVIOUS
<1>2. IsFiniteSet(PermitsOf(p)) /\ IsFiniteSet(PermitsOf(q))
  BY <1>1, PermitsFinite
<1> DEFINE new == {g} \X (p[g] + 1 .. p[g] + k)
<1>3. IsFiniteSet(new) /\ Cardinality(new) = k
  <2> DEFINE T == p[g] + 1 .. p[g] + k
  <2>1. p[g] + 1 \in Int /\ p[g] + k \in Int
    OBVIOUS
  <2>2. IsFiniteSet(T) /\ Cardinality(T) = k
    <3> DEFINE a == p[g] + 1
               b == p[g] + k
    <3>1. IsFiniteSet(T) /\ Cardinality(T) = IF a > b THEN 0 ELSE b - a + 1
      BY <2>1, FS_Interval
    <3>2. (IF a > b THEN 0 ELSE b - a + 1) = k
      OBVIOUS
    <3> QED
      BY <3>1, <3>2
  <2>3. IsFiniteSet({g}) /\ Cardinality({g}) = 1
    BY FS_Singleton
  <2>4. new = {g} \X T
    OBVIOUS
  <2> HIDE DEF T
  <2>5. IsFiniteSet({g} \X T) /\ Cardinality({g} \X T) = Cardinality({g}) * Cardinality(T)
    BY <2>2, <2>3, FS_Product
  <2> HIDE DEF new
  <2> QED
    BY <2>2, <2>3, <2>4, <2>5
<1>4. PermitsOf(q) = PermitsOf(p) \cup new
  <2>1. \A x : x \in PermitsOf(p) <=> \E h \in Library!Generation : x \in {h} \X (1 .. p[h])
    BY DEF PermitsOf
  <2>2. \A x : x \in PermitsOf(q) <=> \E h \in Library!Generation : x \in {h} \X (1 .. q[h])
    BY DEF PermitsOf
  <2>3. \A x : x \in {g} \X (1 .. q[g]) <=> x \in {g} \X (1 .. p[g]) \/ x \in new
    BY <1>1
  <2> HIDE DEF new
  <2>4. ASSUME NEW x PROVE x \in PermitsOf(q) <=> x \in PermitsOf(p) \/ x \in new
    <3>1. ASSUME NEW h \in Library!Generation, x \in {h} \X (1 .. q[h]) PROVE x \in PermitsOf(p) \/ x \in new
      BY <1>1, <2>1, <2>3, <3>1
    <3>2. ASSUME NEW h \in Library!Generation, x \in {h} \X (1 .. p[h]) PROVE x \in PermitsOf(q)
      BY <1>1, <2>2, <2>3, <3>2
    <3>3. x \in new => x \in PermitsOf(q)
      BY <2>2, <2>3
    <3> QED
      BY <2>1, <2>2, <3>1, <3>2, <3>3
  <2> QED
    BY <2>4
<1>5. PermitsOf(p) \cap new = {}
  <2>1. ASSUME NEW x \in new, NEW h \in Library!Generation, x \in {h} \X (1 .. p[h]) PROVE FALSE
    BY <2>1
  <2> QED
    BY <2>1 DEF PermitsOf
<1> HIDE DEF new
<1>6. Cardinality(PermitsOf(p) \cup new) =
        Cardinality(PermitsOf(p)) + Cardinality(new) - Cardinality(PermitsOf(p) \cap new)
  BY <1>2, <1>3, FS_Union
<1>7. Cardinality(PermitsOf(p) \cap new) = 0 /\ Cardinality(PermitsOf(p)) \in Nat
  BY <1>2, <1>5, FS_EmptySet, FS_CardinalityType
<1>8. Cardinality(PermitsOf(q)) = Cardinality(PermitsOf(p) \cup new)
  BY <1>4
<1>9. Cardinality(PermitsOf(q)) = Cardinality(PermitsOf(p)) + k
  BY <1>3, <1>6, <1>7, <1>8
<1> QED
  BY <1>1, <1>2, <1>7, <1>9

LEMMA PermitUp ==
  ASSUME NEW p \in [Library!Generation -> Nat], NEW g \in Library!Generation
  PROVE  /\ [p EXCEPT ![g] = @ + 1] \in [Library!Generation -> Nat]
         /\ Cardinality(PermitsOf([p EXCEPT ![g] = @ + 1])) = Cardinality(PermitsOf(p)) + 1
  BY PermitsAre

LEMMA PermitDown ==
  ASSUME NEW p \in [Library!Generation -> Nat], NEW g \in Library!Generation, p[g] > 0
  PROVE  /\ [p EXCEPT ![g] = @ - 1] \in [Library!Generation -> Nat]
         /\ Cardinality(PermitsOf(p)) = Cardinality(PermitsOf([p EXCEPT ![g] = @ - 1])) + 1
<1> DEFINE q == [p EXCEPT ![g] = @ - 1]
<1>1. q \in [Library!Generation -> Nat]
  OBVIOUS
<1>2. p = [q EXCEPT ![g] = q[g] + 1]
  <2>1. q[g] = p[g] - 1 /\ \A h \in Library!Generation \ {g} : q[h] = p[h]
    OBVIOUS
  <2>2. \A h \in Library!Generation : [q EXCEPT ![g] = q[g] + 1][h] = p[h]
    BY <1>1, <2>1
  <2> HIDE DEF q
  <2> QED
    BY <1>1, <2>2
<1> HIDE DEF q
<1>3. Cardinality(PermitsOf(p)) = Cardinality(PermitsOf(q)) + 1
  BY <1>1, <1>2, PermitsAre
<1> QED
  BY <1>1, <1>3 DEF q
\* What both counts of a state are: the permits of a table, the threads of a set.
LEMMA CountsAre ==
  ASSUME Library!TypeOK
  PROVE  /\ Library!Permits = PermitsOf(permits) /\ permits \in [Library!Generation -> Nat]
         /\ Cardinality(Library!Permits) \in Nat
         /\ IsFiniteSet(Library!Holders) /\ Cardinality(Library!Holders) \in Nat
         /\ Library!Holders = {t \in Thread : pc[t] \in HolderPc}
<1>1. Library!Permits = PermitsOf(permits)
  BY DEF Library!Permits, PermitsOf
<1>2. permits \in [Library!Generation -> Nat]
  BY DEF Library!TypeOK
<1>3. Library!Holders = {t \in Thread : pc[t] \in HolderPc}
  BY DEF Library!Holders, HolderPc
<1>4. IsFiniteSet(Library!Holders)
  BY <1>3, PoolConstants, FS_Subset
<1> QED
  BY <1>1, <1>2, <1>3, <1>4, PermitsFinite, FS_CardinalityType

\* A thread takes, keeps or gives back: how many threads hold a permit then.
LEMMA HoldersGo ==
  ASSUME Library!TypeOK, Library!TypeOK', NEW t \in Thread, NEW x, pc' = [pc EXCEPT ![t] = x]
  PROVE  Cardinality(Library!Holders)' =
           Cardinality(Library!Holders) + (IF x \in HolderPc THEN 1 ELSE 0) - (IF pc[t] \in HolderPc THEN 1 ELSE 0)
<1>1. \A u \in Thread : pc'[u] = IF u = t THEN x ELSE pc[u]
  BY DEF Library!TypeOK
<1>2. /\ Library!Holders = {u \in Thread : pc[u] \in HolderPc} /\ IsFiniteSet(Library!Holders)
      /\ Cardinality(Library!Holders) \in Nat
  BY CountsAre
<1>3. Library!Holders' = {u \in Thread : pc'[u] \in HolderPc}
  BY DEF Library!Holders, HolderPc
<1>4. PICK H, G : H = Library!Holders /\ G = Library!Holders'
  OBVIOUS
<1>5. CASE x \in HolderPc /\ pc[t] \in HolderPc
  <2>1. G = H
    BY <1>1, <1>2, <1>3, <1>4, <1>5
  <2> QED
    BY <1>2, <1>4, <1>5, <2>1
<1>6. CASE x \notin HolderPc /\ pc[t] \notin HolderPc
  <2>1. G = H
    BY <1>1, <1>2, <1>3, <1>4, <1>6
  <2> QED
    BY <1>2, <1>4, <1>6, <2>1
<1>7. CASE x \in HolderPc /\ pc[t] \notin HolderPc
  <2>1. G = H \cup {t} /\ t \notin H
    BY <1>1, <1>2, <1>3, <1>4, <1>7
  <2>2. Cardinality(G) = Cardinality(H) + 1
    BY <1>2, <1>4, <2>1, FS_AddElement
  <2> QED
    BY <1>2, <1>4, <1>7, <2>2
<1>8. CASE x \notin HolderPc /\ pc[t] \in HolderPc
  <2>1. G = H \ {t} /\ t \in H
    BY <1>1, <1>2, <1>3, <1>4, <1>8
  <2>2. IsFiniteSet(H)
    BY <1>2, <1>4
  <2>3. Cardinality(H \ {t}) = Cardinality(H) - 1
    BY <2>1, <2>2, FS_RemoveElement
  <2> QED
    BY <1>2, <1>4, <1>8, <2>1, <2>3
<1> QED
  BY <1>5, <1>6, <1>7, <1>8

-----------------------------------------------------------------------------
LEMMA PoolInit == Library!Init => PoolInv
<1> SUFFICES ASSUME Library!Init PROVE PoolInv
  OBVIOUS
<1> USE PoolConstants DEF Library!Init
<1>1. Library!TypeOK
  <2>1. configured \in BOOLEAN
    OBVIOUS
  <2>3. /\ currentPool = None /\ currentSem = None /\ lock = None
        /\ idle \in [Library!Generation -> SUBSET Client] /\ permits \in [Library!Generation -> Nat]
    OBVIOUS
  <2>4. connects \in 0 .. MaxConnects /\ disconnects \in 0 .. MaxDisconnects
    OBVIOUS
  <2>2. /\ clients \in [Client -> {"unused", "open", "lost", "closed"}] /\ pc \in [Thread -> Library!Pc]
        /\ client \in [Thread -> Client \cup {None}] /\ pools \in [Thread -> Library!Generation \cup {None}]
        /\ sem \in [Thread -> Library!Generation \cup {None}] /\ \A t \in Thread : pc[t] = "idle"
    BY DEF Library!Pc
  <2> QED
    BY <2>1, <2>2, <2>3, <2>4 DEF Library!TypeOK
<1>2. LockInv
  BY DEF LockInv
<1>3. Made = 0
  BY DEF Made
<1>4. SemaphoreInv
  BY <1>3 DEF SemaphoreInv, HolderPc
<1>5. Library!Permits = {} /\ Library!Holders = {}
  BY DEF Library!Permits, Library!Holders
<1>6. CountInv
  BY <1>3, <1>5, FS_EmptySet DEF CountInv
<1>7. UserInv
  BY DEF UserInv, Library!ExclusiveUse
<1>8. RoomInv
  BY DEF RoomInv, Library!Open
<1> QED
  BY <1>1, <1>2, <1>4, <1>6, <1>7, <1>8 DEF PoolInv

\* The types, and who holds the lock.
LEMMA PoolTypes ==
  ASSUME Library!TypeOK, LockInv, Library!Next
  PROVE  Library!TypeOK' /\ LockInv'
<1> USE PoolConstants DEF Library!TypeOK, LockInv, Library!Goto, Library!Return, Library!Forget, Library!Pc,
        Library!server, Library!local, Library!counters
<1>1. ASSUME NEW t \in Thread, Library!Connect(t) PROVE Library!TypeOK' /\ LockInv'
  BY <1>1 DEF Library!Connect
<1>2. ASSUME NEW t \in Thread, Library!Execute(t) PROVE Library!TypeOK' /\ LockInv'
  BY <1>2 DEF Library!Execute
<1>3. ASSUME NEW t \in Thread, Library!Disconnect(t) PROVE Library!TypeOK' /\ LockInv'
  <2>1. Library!TypeOK'
    <3>1. /\ pc' = [pc EXCEPT ![t] = "closing"] /\ pools' = [pools EXCEPT ![t] = currentPool]
          /\ configured' = FALSE /\ currentPool' = None /\ currentSem' = None
          /\ disconnects' = disconnects + 1 /\ disconnects < MaxDisconnects /\ currentPool # None
          /\ UNCHANGED <<idle, permits, clients, lock, client, sem, connects>>
      BY <1>3 DEF Library!Disconnect
    <3>2. disconnects' \in 0 .. MaxDisconnects
      BY <3>1
    <3>3. configured' \in BOOLEAN
      BY <3>1
    <3>4. pc' \in [Thread -> Library!Pc] /\ pools' \in [Thread -> Library!Generation \cup {None}]
      BY <3>1
    <3>5. \A u \in Thread : /\ pc'[u] \in {"take", "closing"} => pools'[u] # None
                            /\ pc'[u] \in {"run", "putPool", "putSem", "append"} => client'[u] # None
      BY <3>1
    <3> QED
      BY <3>1, <3>2, <3>3, <3>4, <3>5
  <2>2. LockInv'
    BY <1>3 DEF Library!Disconnect
  <2> QED
    BY <2>1, <2>2
<1>4. ASSUME NEW t \in Thread, Library!ConnectFails(t) PROVE Library!TypeOK' /\ LockInv'
  BY <1>4 DEF Library!ConnectFails
<1>5. ASSUME NEW t \in Thread, Library!NewPool(t) PROVE Library!TypeOK' /\ LockInv'
  BY <1>5 DEF Library!NewPool, Library!Generation
<1>6. ASSUME NEW t \in Thread, Library!NewSemaphore(t) PROVE Library!TypeOK' /\ LockInv'
  BY <1>6 DEF Library!NewSemaphore, Library!Generation
<1>7. ASSUME NEW t \in Thread, Library!LookUpSemaphore(t) PROVE Library!TypeOK' /\ LockInv'
  BY <1>7 DEF Library!LookUpSemaphore
<1>8. ASSUME NEW t \in Thread, Library!AcquirePermit(t) PROVE Library!TypeOK' /\ LockInv'
  <2>1. Library!TypeOK'
    <3>1. /\ pc' = [pc EXCEPT ![t] = "lookPool"] /\ permits' = [permits EXCEPT ![sem[t]] = @ - 1]
          /\ permits[sem[t]] > 0
          /\ UNCHANGED <<configured, currentPool, currentSem, idle, clients, lock, client, pools, sem, connects,
                         disconnects>>
      BY <1>8 DEF Library!AcquirePermit
    <3>2. permits' \in [Library!Generation -> Nat]
      <4>1. CASE sem[t] \in Library!Generation
        BY <3>1, <4>1, PermitDown
      <4>2. CASE sem[t] \notin Library!Generation
        <5>1. permits' = permits
          BY <3>1, <4>2
        <5> QED
          BY <5>1
      <4> QED
        BY <4>1, <4>2
    <3> QED
      BY <3>1, <3>2
  <2>2. LockInv'
    BY <1>8 DEF Library!AcquirePermit
  <2> QED
    BY <2>1, <2>2
<1>9. ASSUME NEW t \in Thread, Library!LookUpPool(t) PROVE Library!TypeOK' /\ LockInv'
  BY <1>9 DEF Library!LookUpPool
<1>10. ASSUME NEW t \in Thread, Library!TakeIdle(t) PROVE Library!TypeOK' /\ LockInv'
  BY <1>10 DEF Library!TakeIdle
<1>11. ASSUME NEW t \in Thread, Library!CreateClient(t) PROVE Library!TypeOK' /\ LockInv'
  <2>1. Library!TypeOK'
    <3>1. /\ pc[t] = "take" /\ pools[t] \in Library!Generation
          /\ idle' = [idle EXCEPT ![pools[t]] = {}]
          /\ UNCHANGED <<configured, currentPool, currentSem, lock, connects, disconnects>>
      BY <1>11 DEF Library!CreateClient
    <3>2. /\ idle' \in [Library!Generation -> SUBSET Client]
          /\ clients' \in [Client -> {"unused", "open", "lost", "closed"}]
      <4>1. PICK closed : /\ closed = [d \in Client |-> IF d \in idle[pools[t]] THEN "closed" ELSE clients[d]]
                          /\ clients' = closed \/ \E c \in Client : clients' = [closed EXCEPT ![c] = "open"]
        BY <1>11 DEF Library!CreateClient
      <4>2. closed \in [Client -> {"unused", "open", "lost", "closed"}]
        BY <4>1
      <4> QED
        BY <3>1, <4>1, <4>2
    <3>3. /\ permits' \in [Library!Generation -> Nat] /\ pc' \in [Thread -> Library!Pc]
          /\ client' \in [Thread -> Client \cup {None}] /\ pools' \in [Thread -> Library!Generation \cup {None}]
          /\ sem' \in [Thread -> Library!Generation \cup {None}]
      BY <1>11, <3>1 DEF Library!CreateClient
    <3>4. \A u \in Thread : /\ pc'[u] \in {"take", "closing"} => pools'[u] # None
                            /\ pc'[u] \in {"run", "putPool", "putSem", "append"} => client'[u] # None
      BY <1>11, <3>1 DEF Library!CreateClient
    <3> QED
      BY <3>1, <3>2, <3>3, <3>4
  <2>2. LockInv'
    BY <1>11 DEF Library!CreateClient
  <2> QED
    BY <2>1, <2>2
<1>12. ASSUME NEW t \in Thread, Library!Run(t) PROVE Library!TypeOK' /\ LockInv'
  BY <1>12 DEF Library!Run
<1>13. ASSUME NEW t \in Thread, Library!PutPool(t) PROVE Library!TypeOK' /\ LockInv'
  BY <1>13 DEF Library!PutPool
<1>14. ASSUME NEW t \in Thread, Library!PutSemaphore(t) PROVE Library!TypeOK' /\ LockInv'
  BY <1>14 DEF Library!PutSemaphore
<1>15. ASSUME NEW t \in Thread, Library!Append(t) PROVE Library!TypeOK' /\ LockInv'
  BY <1>15 DEF Library!Append
<1>16. ASSUME NEW t \in Thread, Library!ErrorSemaphore(t) PROVE Library!TypeOK' /\ LockInv'
  BY <1>16 DEF Library!ErrorSemaphore
<1>17. ASSUME NEW t \in Thread, Library!ReleasePermit(t) PROVE Library!TypeOK' /\ LockInv'
  BY <1>17 DEF Library!ReleasePermit
<1>18. ASSUME NEW t \in Thread, Library!CloseClients(t) PROVE Library!TypeOK' /\ LockInv'
  BY <1>18 DEF Library!CloseClients
<1>19. ASSUME NEW c \in Client, Library!LoseConnection(c) PROVE Library!TypeOK' /\ LockInv'
  BY <1>19 DEF Library!LoseConnection
<1> QED
  BY <1>1, <1>2, <1>3, <1>4, <1>5, <1>6, <1>7, <1>8, <1>9, <1>10, <1>11, <1>12, <1>13, <1>14, <1>15, <1>16,
     <1>17, <1>18, <1>19 DEF Library!Next, Library!Step
-----------------------------------------------------------------------------
LEMMA MadeIs ==
  ASSUME Library!TypeOK, LockInv
  PROVE  /\ Made \in Nat /\ Made <= connects /\ connects \in Nat /\ disconnects \in Nat
         /\ \A t \in Thread : pc[t] = "connecting" => Made = connects
         /\ \A t \in Thread : pc[t] = "newSemaphore" => Made = connects - 1
  BY PoolConstants DEF Made, LockInv, Library!TypeOK

LEMMA MadeStays ==
  ASSUME Library!TypeOK, NEW t \in Thread, NEW x, pc' = [pc EXCEPT ![t] = x], connects' = connects,
         pc[t] # "newSemaphore", x # "newSemaphore"
  PROVE  Made' = Made
  BY DEF Made, Library!TypeOK

\* What a step does to the permits it does to the threads that hold one; only after a disconnect
\* is one lost.
LEMMA CountsGo ==
  ASSUME Library!TypeOK, Library!TypeOK', LockInv, CountInv, Made' = Made,
         NEW t \in Thread, NEW x, pc' = [pc EXCEPT ![t] = x], disconnects' = 0 => disconnects = 0,
         \/ permits' = permits /\ (x \in HolderPc <=> pc[t] \in HolderPc)
         \/ \E g \in Library!Generation : permits' = [permits EXCEPT ![g] = @ + 1] /\ x \notin HolderPc /\ pc[t] \in HolderPc
         \/ \E g \in Library!Generation : /\ permits[g] > 0 /\ permits' = [permits EXCEPT ![g] = @ - 1]
                                          /\ x \in HolderPc /\ pc[t] \notin HolderPc
         \/ permits' = permits /\ disconnects' # 0 /\ x \notin HolderPc
  PROVE  CountInv'
<1>1. PICK p, h, q, i, m : /\ p = Cardinality(Library!Permits) /\ h = Cardinality(Library!Holders)
                           /\ q = Cardinality(Library!Permits)' /\ i = Cardinality(Library!Holders)'
                           /\ m = PoolSize * Made
  OBVIOUS
<1>2. p \in Nat /\ h \in Nat /\ m \in Nat /\ p + h <= m /\ (disconnects = 0 => p + h = m)
  BY <1>1, CountsAre, MadeIs, PoolConstants DEF CountInv
<1>3. i = h + (IF x \in HolderPc THEN 1 ELSE 0) - (IF pc[t] \in HolderPc THEN 1 ELSE 0)
  BY <1>1, HoldersGo
<1>4. PoolSize * Made' = m
  BY <1>1
<1>5. permits \in [Library!Generation -> Nat] /\ Library!Permits = PermitsOf(permits)
  BY CountsAre
<1>6. Library!Permits' = PermitsOf(permits')
  BY DEF Library!Permits, PermitsOf
<1>7. CASE permits' = permits /\ (x \in HolderPc <=> pc[t] \in HolderPc)
  <2>1. q = p /\ i = h
    BY <1>1, <1>2, <1>3, <1>5, <1>6, <1>7
  <2> QED
    BY <1>1, <1>2, <1>4, <2>1 DEF CountInv
<1>8. ASSUME NEW g \in Library!Generation, permits' = [permits EXCEPT ![g] = @ + 1],
             x \notin HolderPc, pc[t] \in HolderPc
      PROVE  CountInv'
  <2>1. q = p + 1
    BY <1>1, <1>5, <1>6, <1>8, PermitUp
  <2>2. i = h - 1
    BY <1>2, <1>3, <1>8
  <2> QED
    BY <1>1, <1>2, <1>4, <2>1, <2>2 DEF CountInv
<1>9. ASSUME NEW g \in Library!Generation, permits[g] > 0, permits' = [permits EXCEPT ![g] = @ - 1],
             x \in HolderPc, pc[t] \notin HolderPc
      PROVE  CountInv'
  <2>1. p = q + 1
    BY <1>1, <1>5, <1>6, <1>9, PermitDown
  <2>2. i = h + 1 /\ q \in Nat
    <3>1. q \in Nat
      BY <1>1, <1>5, <1>6, <1>9, PermitDown, PermitsFinite, FS_CardinalityType
    <3> QED
      BY <1>2, <1>3, <1>9, <3>1
  <2> QED
    BY <1>1, <1>2, <1>4, <2>1, <2>2 DEF CountInv
<1>10. CASE permits' = permits /\ disconnects' # 0 /\ x \notin HolderPc
  <2>1. q = p /\ (i = h \/ i = h - 1)
    BY <1>1, <1>2, <1>3, <1>5, <1>6, <1>10
  <2> QED
    BY <1>1, <1>2, <1>4, <1>10, <2>1 DEF CountInv
<1> QED
  BY <1>7, <1>8, <1>9, <1>10

\* A new semaphore has its permits, and nothing had been put into it before.
LEMMA NewSemaphoreKeeps ==
  ASSUME Library!TypeOK, Library!TypeOK', LockInv, LockInv', SemaphoreInv, CountInv,
         NEW t \in Thread, Library!NewSemaphore(t)
  PROVE  SemaphoreInv' /\ CountInv'
<1> USE PoolConstants
<1>1. /\ pc[t] = "newSemaphore" /\ pc' = [pc EXCEPT ![t] = "idle"] /\ currentSem' = connects
      /\ permits' = [permits EXCEPT ![connects] = PoolSize]
      /\ UNCHANGED <<connects, disconnects, sem>>
  BY DEF Library!NewSemaphore, Library!Return, Library!Goto, Library!local, Library!counters
<1>2. connects \in Library!Generation /\ connects \in Nat /\ Made = connects - 1 /\ disconnects \in Nat
  BY <1>1, MadeIs DEF Library!TypeOK, Library!Generation, LockInv
<1>3. Made' = connects
  <2>1. \A u \in Thread : pc'[u] # "newSemaphore"
    BY <1>1 DEF Library!TypeOK, LockInv
  <2> QED
    BY <1>1, <2>1 DEF Made
<1>4. permits[connects] = 0
  BY <1>2 DEF SemaphoreInv, Library!Generation
<1>5. SemaphoreInv'
  <2>1. \A g \in Library!Generation : g > connects => permits'[g] = 0
    BY <1>1, <1>2 DEF SemaphoreInv, Library!Generation, Library!TypeOK
  <2>2. \A u \in Thread : sem'[u] # None => sem'[u] <= connects
    BY <1>1, <1>2 DEF SemaphoreInv, Library!Generation, Library!TypeOK
  <2>3. \A u \in Thread : pc'[u] = pc[u] \/ pc'[u] = "idle"
    BY <1>1 DEF Library!TypeOK
  <2>4. currentSem' # None
    BY <1>1, <1>2
  <2>5. \A u \in Thread : pc'[u] \in {"acquire", "lookPool", "take"} => sem'[u] # None
    BY <1>1, <2>3 DEF SemaphoreInv
  <2>6. disconnects' = 0 => \A u \in Thread : pc'[u] \in {"append", "release"} => sem'[u] # None
    BY <1>1, <2>3 DEF SemaphoreInv
  <2> QED
    BY <1>1, <1>2, <1>3, <2>1, <2>2, <2>4, <2>5, <2>6 DEF SemaphoreInv
<1>6. CountInv'
  <2>1. permits' = [permits EXCEPT ![connects] = permits[connects] + PoolSize]
    BY <1>1, <1>4
  <2>2. Cardinality(PermitsOf(permits')) = Cardinality(PermitsOf(permits)) + PoolSize
        /\ Library!Permits = PermitsOf(permits) /\ Cardinality(Library!Permits) \in Nat
        /\ Cardinality(Library!Holders) \in Nat
    BY <1>2, <2>1, PermitsAre, CountsAre
  <2>3. Library!Permits' = PermitsOf(permits')
    BY DEF Library!Permits, PermitsOf
  <2>4. Cardinality(Library!Holders)' = Cardinality(Library!Holders)
    <3>1. "idle" \notin HolderPc /\ pc[t] \notin HolderPc
      BY <1>1 DEF HolderPc
    <3>2. Cardinality(Library!Holders)' =
            Cardinality(Library!Holders) + (IF "idle" \in HolderPc THEN 1 ELSE 0) - (IF pc[t] \in HolderPc THEN 1 ELSE 0)
      BY <1>1, HoldersGo
    <3> QED
      BY <2>2, <3>1, <3>2
  <2>5. PoolSize * connects = PoolSize * (connects - 1) + PoolSize
    BY <1>2
  <2>6. PICK m, n, p, h : /\ m = PoolSize * (connects - 1) /\ n = PoolSize * connects
                          /\ p = Cardinality(Library!Permits) /\ h = Cardinality(Library!Holders)
    OBVIOUS
  <2>7. m \in Nat /\ n = m + PoolSize
    BY <1>2, <1>1, <2>5, <2>6 DEF LockInv
  <2>8. p + h <= m /\ (disconnects = 0 => p + h = m) /\ p \in Nat /\ h \in Nat
    BY <1>2, <2>2, <2>6 DEF CountInv
  <2>9. Cardinality(Library!Permits)' = p + PoolSize /\ Cardinality(Library!Holders)' = h
    BY <2>2, <2>3, <2>4, <2>6
  <2> QED
    BY <1>1, <1>3, <2>6, <2>7, <2>8, <2>9 DEF CountInv
<1> QED
  BY <1>5, <1>6
\* Every other step.
LEMMA SemaphoresKeep ==
  ASSUME Library!TypeOK, Library!TypeOK', LockInv, LockInv', SemaphoreInv, CountInv,
         Library!Next, \A t \in Thread : ~Library!NewSemaphore(t)
  PROVE  SemaphoreInv' /\ CountInv'
<1> USE PoolConstants
<1>1. Made \in Nat /\ connects \in Nat /\ disconnects \in Nat
  BY MadeIs
<1>2. ASSUME NEW t \in Thread, Library!NewPool(t) PROVE SemaphoreInv' /\ CountInv'
  <2>1. /\ pc[t] = "connecting" /\ pc' = [pc EXCEPT ![t] = "newSemaphore"] /\ connects' = connects + 1
        /\ UNCHANGED <<currentSem, permits, sem, disconnects>>
    BY <1>2 DEF Library!NewPool, Library!Goto, Library!local
  <2>2. Made' = Made
    <3>1. pc'[t] = "newSemaphore"
      BY <2>1 DEF Library!TypeOK
    <3>2. Made' = connects' - 1
      BY <3>1 DEF Made
    <3> QED
      BY <1>1, <2>1, <3>2, MadeIs
  <2>3. SemaphoreInv'
    BY <2>1, <2>2 DEF SemaphoreInv, HolderPc, Library!TypeOK
  <2>4. "newSemaphore" \notin HolderPc /\ pc[t] \notin HolderPc
    BY <2>1 DEF HolderPc
  <2> QED
    BY <2>1, <2>2, <2>3, <2>4, CountsGo
<1>3. ASSUME NEW t \in Thread, NEW x, pc' = [pc EXCEPT ![t] = x], UNCHANGED <<permits, connects, disconnects>>,
             x # "newSemaphore", pc[t] # "newSemaphore", x \in HolderPc <=> pc[t] \in HolderPc,
             currentSem' = currentSem,
             \A u \in Thread : sem'[u] = sem[u] \/ (u = t /\ sem'[u] \in {None, currentSem}),
             x \in {"acquire", "lookPool", "take"} => sem'[t] # None,
             x = "acquire" => currentSem # None,
             x \in {"append", "release"} => sem'[t] # None \/ disconnects # 0
      PROVE  SemaphoreInv' /\ CountInv'
  <2>1. Made' = Made
    BY <1>3, MadeStays
  <2>2. \A u \in Thread : u # t => pc'[u] = pc[u] /\ sem'[u] = sem[u]
    BY <1>3 DEF Library!TypeOK
  <2>3. pc'[t] = x
    BY <1>3 DEF Library!TypeOK
  <2>4. \A u \in Thread : sem'[u] # None => sem'[u] <= Made
    BY <1>3 DEF SemaphoreInv
  <2>5. \A u \in Thread : pc'[u] \in {"acquire", "lookPool", "take"} => sem'[u] # None
    BY <1>3, <2>2, <2>3 DEF SemaphoreInv
  <2>6. disconnects = 0 => \A u \in Thread : pc'[u] \in HolderPc \cup {"acquire"} => currentSem # None
    BY <1>3, <2>2, <2>3 DEF SemaphoreInv
  <2>7. disconnects = 0 => \A u \in Thread : pc'[u] \in {"append", "release"} => sem'[u] # None
    BY <1>3, <2>2, <2>3 DEF SemaphoreInv
  <2>8. SemaphoreInv'
    BY <1>3, <2>1, <2>4, <2>5, <2>6, <2>7 DEF SemaphoreInv
  <2> QED
    BY <1>3, <2>1, <2>8, CountsGo
\* a permit is taken or given back
<1>4. ASSUME NEW t \in Thread, NEW x, pc' = [pc EXCEPT ![t] = x], UNCHANGED <<connects, disconnects, currentSem>>,
             NEW g \in Library!Generation, g <= Made,
             \/ permits' = [permits EXCEPT ![g] = @ + 1] /\ x = "idle" /\ pc[t] \in HolderPc /\ sem' = [sem EXCEPT ![t] = None]
             \/ /\ permits[g] > 0 /\ permits' = [permits EXCEPT ![g] = @ - 1]
                /\ x = "lookPool" /\ pc[t] = "acquire" /\ sem' = sem
      PROVE  SemaphoreInv' /\ CountInv'
  <2>1. Made' = Made
    BY <1>4, MadeStays DEF HolderPc
  <2>2. \A h \in Library!Generation : h > Made => permits'[h] = 0
    BY <1>1, <1>4 DEF SemaphoreInv, Library!TypeOK, Library!Generation
  <2>3. \A u \in Thread : u # t => pc'[u] = pc[u] /\ sem'[u] = sem[u]
    BY <1>4 DEF Library!TypeOK
  <2>4. pc'[t] = x /\ (x = "lookPool" => sem'[t] = sem[t]) /\ (x = "idle" => sem'[t] = None)
    BY <1>4 DEF Library!TypeOK
  <2>5. \A u \in Thread : sem'[u] # None => sem'[u] <= Made
    BY <1>4, <2>3, <2>4 DEF SemaphoreInv
  <2>6. \A u \in Thread : pc'[u] \in {"acquire", "lookPool", "take"} => sem'[u] # None
    BY <1>4, <2>3, <2>4 DEF SemaphoreInv
  <2>7. disconnects = 0 => \A u \in Thread : pc'[u] \in HolderPc \cup {"acquire"} => currentSem # None
    BY <1>4, <2>3, <2>4 DEF SemaphoreInv, HolderPc
  <2>8. disconnects = 0 => \A u \in Thread : pc'[u] \in {"append", "release"} => sem'[u] # None
    BY <1>4, <2>3, <2>4 DEF SemaphoreInv
  <2>9. SemaphoreInv'
    BY <1>4, <2>1, <2>2, <2>5, <2>6, <2>7, <2>8 DEF SemaphoreInv
  <2>10. "idle" \notin HolderPc /\ "lookPool" \in HolderPc /\ "acquire" \notin HolderPc
    BY DEF HolderPc
  <2> QED
    BY <1>4, <2>1, <2>9, <2>10, CountsGo
<1> USE DEF Library!Goto, Library!Return, Library!Forget, Library!server, Library!local, Library!counters
<1>5. ASSUME NEW t \in Thread, Library!Disconnect(t) PROVE SemaphoreInv' /\ CountInv'
  <2>1. /\ pc[t] = "idle" /\ pc' = [pc EXCEPT ![t] = "closing"] /\ currentSem' = None
        /\ disconnects' = disconnects + 1 /\ UNCHANGED <<permits, sem, connects>>
    BY <1>5 DEF Library!Disconnect
  <2>2. Made' = Made
    BY <2>1, MadeStays
  <2>3. disconnects' # 0
    BY <1>1, <2>1
  <2>4. SemaphoreInv'
    BY <2>1, <2>2, <2>3 DEF SemaphoreInv, Library!TypeOK
  <2>5. "closing" \notin HolderPc /\ pc[t] \notin HolderPc
    BY <2>1 DEF HolderPc
  <2> QED
    BY <2>1, <2>2, <2>3, <2>4, <2>5, CountsGo
<1>6. ASSUME NEW t \in Thread, Library!AcquirePermit(t) PROVE SemaphoreInv' /\ CountInv'
  <2>1. sem[t] \in Library!Generation /\ sem[t] <= Made
    BY <1>6 DEF Library!AcquirePermit, SemaphoreInv, Library!TypeOK
  <2> QED
    BY <1>4, <1>6, <2>1 DEF Library!AcquirePermit
<1>7. ASSUME NEW t \in Thread, Library!LookUpPool(t) PROVE SemaphoreInv' /\ CountInv'
  <2>1. sem[t] \in Library!Generation /\ sem[t] <= Made /\ sem[t] # None
    BY <1>7 DEF Library!LookUpPool, SemaphoreInv, Library!TypeOK
  <2>2. pc[t] = "lookPool" /\ "lookPool" \in HolderPc /\ "take" \in HolderPc
    BY <1>7 DEF Library!LookUpPool, HolderPc
  <2>3. CASE currentPool = None
    BY <1>4, <1>7, <2>1, <2>2, <2>3 DEF Library!LookUpPool
  <2>4. CASE currentPool # None
    <3>1. pc' = [pc EXCEPT ![t] = "take"] /\ UNCHANGED <<permits, connects, disconnects, currentSem, sem>>
      BY <1>7, <2>4 DEF Library!LookUpPool
    <3> QED
      BY <1>3, <2>1, <2>2, <3>1
  <2> QED
    BY <2>3, <2>4
<1>8. ASSUME NEW t \in Thread, Library!CreateClient(t) PROVE SemaphoreInv' /\ CountInv'
  <2>1. sem[t] \in Library!Generation /\ sem[t] <= Made /\ sem[t] # None
    BY <1>8 DEF Library!CreateClient, SemaphoreInv, Library!TypeOK
  <2>2. pc[t] = "take" /\ "take" \in HolderPc /\ "run" \in HolderPc
    BY <1>8 DEF Library!CreateClient, HolderPc
  <2>3. \/ pc' = [pc EXCEPT ![t] = "run"] /\ UNCHANGED <<permits, sem>>
        \/ /\ permits' = [permits EXCEPT ![sem[t]] = @ + 1] /\ pc' = [pc EXCEPT ![t] = "idle"]
           /\ sem' = [sem EXCEPT ![t] = None]
    BY <1>8 DEF Library!CreateClient
  <2>4. UNCHANGED <<connects, disconnects, currentSem>>
    BY <1>8 DEF Library!CreateClient
  <2> QED
    BY <1>3, <1>4, <2>1, <2>2, <2>3, <2>4
<1>9. ASSUME NEW t \in Thread, Library!ReleasePermit(t) PROVE SemaphoreInv' /\ CountInv'
  <2>1. /\ pc[t] = "release" /\ pc' = [pc EXCEPT ![t] = "idle"] /\ sem' = [sem EXCEPT ![t] = None]
        /\ UNCHANGED <<connects, disconnects, currentSem>>
        /\ permits' = IF sem[t] = None THEN permits ELSE [permits EXCEPT ![sem[t]] = @ + 1]
    BY <1>9 DEF Library!ReleasePermit
  <2>2. "release" \in HolderPc /\ "idle" \notin HolderPc
    BY DEF HolderPc
  <2>3. CASE sem[t] # None
    <3>1. sem[t] \in Library!Generation /\ sem[t] <= Made
      BY <2>3 DEF SemaphoreInv, Library!TypeOK
    <3> QED
      BY <1>4, <2>1, <2>2, <2>3, <3>1
  <2>4. CASE sem[t] = None
    <3>1. disconnects # 0 /\ permits' = permits /\ Made' = Made
      BY <2>1, <2>4, MadeStays DEF SemaphoreInv
    <3>2. \A u \in Thread : (u # t => pc'[u] = pc[u] /\ sem'[u] = sem[u]) /\ (u = t => pc'[u] = "idle" /\ sem'[u] = None)
      BY <2>1 DEF Library!TypeOK
    <3>3. SemaphoreInv'
      BY <2>1, <3>1, <3>2 DEF SemaphoreInv
    <3> QED
      BY <2>1, <2>2, <3>1, <3>3, CountsGo
  <2> QED
    BY <2>3, <2>4
<1>10. ASSUME NEW t \in Thread, Library!LookUpSemaphore(t) PROVE SemaphoreInv' /\ CountInv'
  <2>1. /\ pc[t] = "lookSem" /\ sem' = [sem EXCEPT ![t] = currentSem]
        /\ pc' = [pc EXCEPT ![t] = IF currentSem = None THEN "idle" ELSE "acquire"]
        /\ UNCHANGED <<permits, connects, disconnects, currentSem>>
    BY <1>10 DEF Library!LookUpSemaphore
  <2>2. "lookSem" \notin HolderPc /\ "idle" \notin HolderPc /\ "acquire" \notin HolderPc
    BY DEF HolderPc
  <2>3. \A u \in Thread : sem'[u] = IF u = t THEN currentSem ELSE sem[u]
    BY <2>1 DEF Library!TypeOK
  <2> QED
    BY <1>3, <2>1, <2>2, <2>3
<1>11. ASSUME NEW t \in Thread, Library!PutSemaphore(t) \/ Library!ErrorSemaphore(t) PROVE SemaphoreInv' /\ CountInv'
  <2>1. PICK x \in {"append", "release"} :
           /\ pc[t] \in {"putSem", "errorSem"} /\ sem' = [sem EXCEPT ![t] = currentSem]
           /\ pc' = [pc EXCEPT ![t] = x] /\ UNCHANGED <<permits, connects, disconnects, currentSem>>
    BY <1>11 DEF Library!PutSemaphore, Library!ErrorSemaphore
  <2>2. x \in HolderPc /\ pc[t] \in HolderPc
    BY <2>1 DEF HolderPc
  <2>3. \A u \in Thread : sem'[u] = IF u = t THEN currentSem ELSE sem[u]
    BY <2>1 DEF Library!TypeOK
  <2>4. disconnects = 0 => currentSem # None
    BY <2>2 DEF SemaphoreInv
  <2> QED
    BY <1>3, <2>1, <2>2, <2>3, <2>4
<1>12. ASSUME NEW t \in Thread, Library!TakeIdle(t) \/ Library!Run(t) \/ Library!PutPool(t) \/ Library!Append(t)
       PROVE  SemaphoreInv' /\ CountInv'
  <2>1. PICK x \in HolderPc \ {"lookPool", "take"} :
           /\ pc[t] \in HolderPc /\ pc' = [pc EXCEPT ![t] = x] /\ UNCHANGED <<permits, connects, disconnects, currentSem, sem>>
           /\ x = "release" => pc[t] = "append"
           /\ x # "append"
    BY <1>12 DEF Library!TakeIdle, Library!Run, Library!PutPool, Library!Append, HolderPc
  <2>2. x \notin {"newSemaphore", "acquire"} /\ pc[t] # "newSemaphore"
    BY <2>1 DEF HolderPc
  <2>3. x = "release" => sem[t] # None \/ disconnects # 0
    BY <2>1 DEF SemaphoreInv
  <2> QED
    BY <1>3, <2>1, <2>2, <2>3
<1>13. ASSUME NEW t \in Thread,
              Library!Connect(t) \/ Library!Execute(t) \/ Library!ConnectFails(t)
       PROVE  SemaphoreInv' /\ CountInv'
  <2>1. PICK x \in {"connecting", "lookSem", "idle"} :
           /\ pc[t] \in {"idle", "connecting"} /\ pc' = [pc EXCEPT ![t] = x]
           /\ UNCHANGED <<permits, connects, disconnects, currentSem, sem>>
    BY <1>13 DEF Library!Connect, Library!Execute, Library!ConnectFails
  <2>2. x \notin HolderPc /\ pc[t] \notin HolderPc
    BY <2>1 DEF HolderPc
  <2> QED
    BY <1>3, <2>1, <2>2
<1>14. ASSUME NEW t \in Thread, Library!CloseClients(t) PROVE SemaphoreInv' /\ CountInv'
  <2>1. /\ pc[t] = "closing" /\ pc' = [pc EXCEPT ![t] = "idle"] /\ sem' = [sem EXCEPT ![t] = None]
        /\ UNCHANGED <<permits, connects, disconnects, currentSem>>
    BY <1>14 DEF Library!CloseClients
  <2>2. "closing" \notin HolderPc /\ "idle" \notin HolderPc
    BY DEF HolderPc
  <2>3. \A u \in Thread : sem'[u] = IF u = t THEN None ELSE sem[u]
    BY <2>1 DEF Library!TypeOK
  <2> QED
    BY <1>3, <2>1, <2>2, <2>3
<1>15. ASSUME NEW c \in Client, Library!LoseConnection(c) PROVE SemaphoreInv' /\ CountInv'
  <2>1. UNCHANGED <<pc, permits, connects, disconnects, currentSem, sem>>
    BY <1>15 DEF Library!LoseConnection
  <2>2. Made' = Made /\ Library!Permits' = Library!Permits /\ Library!Holders' = Library!Holders
    BY <2>1 DEF Made, Library!Permits, Library!Holders
  <2> QED
    BY <2>1, <2>2 DEF SemaphoreInv, CountInv
<1> QED
  BY <1>2, <1>5, <1>6, <1>7, <1>8, <1>9, <1>10, <1>11, <1>12, <1>13, <1>14, <1>15 DEF Library!Next, Library!Step-----------------------------------------------------------------------------
UserPc == {"run", "putPool", "putSem", "append"}

\* Who uses what, client by client.
Used(use, free) ==
  /\ \A t, u \in Thread : use[t] = use[u] /\ use[t] # None => t = u
  /\ \A g, h \in Library!Generation : \A c \in Client : c \in free[g] /\ c \in free[h] => g = h
  /\ \A g \in Library!Generation : \A t \in Thread : use[t] # None => use[t] \notin free[g]

LEMMA UserIs ==
  /\ Library!TypeOK /\ UserInv =>
       /\ Used(client, idle)
       /\ \A g \in Library!Generation : \A c \in idle[g] : clients[c] # "unused"
       /\ \A t \in Thread : client[t] # None => clients[client[t]] # "unused" /\ pc[t] \in UserPc
  /\ Library!TypeOK' /\ Used(client', idle')
     /\ (\A g \in Library!Generation : \A c \in idle'[g] : clients'[c] # "unused")
     /\ (\A t \in Thread : client'[t] # None => clients'[client'[t]] # "unused" /\ pc'[t] \in UserPc)
       => UserInv'
<1>1. ASSUME Library!TypeOK, UserInv PROVE Used(client, idle)
  <2>1. \A t \in Thread : client[t] # None => client[t] \in Library!InUse
    BY DEF Library!InUse
  <2> QED
    BY <1>1, <2>1 DEF UserInv, Library!ExclusiveUse, Used
<1>2. ASSUME Library!TypeOK', Used(client', idle') PROVE Library!ExclusiveUse'
  <2>1. \A g \in Library!Generation : idle'[g] \subseteq Client
    BY <1>2 DEF Library!TypeOK
  <2>2. ASSUME NEW g \in Library!Generation, NEW c, c \in idle'[g], c \in Library!InUse' PROVE FALSE
    <3>1. PICK t \in Thread : c = client'[t] /\ c # None
      BY <2>2 DEF Library!InUse
    <3> QED
      BY <1>2, <2>2, <3>1 DEF Used
  <2>3. \A g, h \in Library!Generation : g # h => idle'[g] \cap idle'[h] = {}
    BY <1>2, <2>1 DEF Used
  <2>4. \A t, u \in Thread : client'[t] = client'[u] /\ client'[t] # None => t = u
    BY <1>2 DEF Used
  <2>5. \A g \in Library!Generation : idle'[g] \cap Library!InUse' = {}
    BY <2>2
  <2> QED
    BY <2>3, <2>4, <2>5 DEF Library!ExclusiveUse
<1> QED
  BY <1>1, <1>2 DEF UserInv, UserPc

LEMMA UsersKeep ==
  ASSUME Library!TypeOK, Library!TypeOK', UserInv, Library!Next
  PROVE  UserInv'
<1> DEFINE Used0 == /\ Used(client, idle)
                    /\ \A g \in Library!Generation : \A c \in idle[g] : clients[c] # "unused"
                    /\ \A t \in Thread : client[t] # None => clients[client[t]] # "unused" /\ pc[t] \in UserPc
<1>1. Used0
  BY UserIs
<1> USE PoolConstants
<1>2. ASSUME \A c \in Client : clients[c] # "unused" => clients'[c] # "unused",
             \A g \in Library!Generation : idle'[g] \subseteq idle[g],
             \A u \in Thread : client'[u] \in {client[u], None},
             \A u \in Thread : client'[u] # None => pc'[u] \in UserPc
      PROVE  UserInv'
  <2>1. Used(client', idle')
    BY <1>1, <1>2 DEF Used
  <2>2. \A g \in Library!Generation : \A c \in idle'[g] : clients'[c] # "unused"
    BY <1>1, <1>2 DEF Library!TypeOK
  <2>3. \A u \in Thread : client'[u] # None => clients'[client'[u]] # "unused" /\ pc'[u] \in UserPc
    BY <1>1, <1>2 DEF Library!TypeOK
  <2> QED
    BY <2>1, <2>2, <2>3, UserIs
\* A client begins to be used: it is nobody's, and leaves its pool.
<1>3. ASSUME NEW t \in Thread, NEW c \in Client, client' = [client EXCEPT ![t] = c], pc'[t] \in UserPc,
             \A u \in Thread : u # t => pc'[u] = pc[u],
             \A d \in Client : clients[d] # "unused" => clients'[d] # "unused", clients'[c] # "unused",
             \A g \in Library!Generation : idle'[g] \subseteq idle[g] /\ c \notin idle'[g],
             \A u \in Thread : client[u] # c
      PROVE  UserInv'
  <2>1. \A u \in Thread : client'[u] = IF u = t THEN c ELSE client[u]
    BY <1>3 DEF Library!TypeOK
  <2>2. Used(client', idle')
    BY <1>1, <1>3, <2>1 DEF Used
  <2>3. \A g \in Library!Generation : \A d \in idle'[g] : clients'[d] # "unused"
    BY <1>1, <1>3 DEF Library!TypeOK
  <2>4. \A u \in Thread : client'[u] # None => clients'[client'[u]] # "unused" /\ pc'[u] \in UserPc
    BY <1>1, <1>3, <2>1 DEF Library!TypeOK
  <2> QED
    BY <2>2, <2>3, <2>4, UserIs
<1> USE DEF Library!Goto, Library!Return, Library!Forget, Library!server, Library!local, Library!counters
<1>4. ASSUME NEW t \in Thread,
             \/ Library!Connect(t) \/ Library!Execute(t) \/ Library!Disconnect(t) \/ Library!ConnectFails(t)
             \/ Library!NewSemaphore(t) \/ Library!LookUpSemaphore(t) \/ Library!AcquirePermit(t)
             \/ Library!PutPool(t) \/ Library!PutSemaphore(t) \/ Library!ErrorSemaphore(t)
      PROVE  UserInv'
  <2>1. UNCHANGED <<idle, clients, client>>
    BY <1>4 DEF Library!Connect, Library!Execute, Library!Disconnect, Library!ConnectFails, Library!NewSemaphore,
       Library!LookUpSemaphore, Library!AcquirePermit, Library!PutPool, Library!PutSemaphore, Library!ErrorSemaphore
  <2>2. PICK x : pc' = [pc EXCEPT ![t] = x] /\ (pc[t] \in UserPc => x \in UserPc)
    BY <1>4 DEF Library!Connect, Library!Execute, Library!Disconnect, Library!ConnectFails, Library!NewSemaphore, UserPc,
       Library!LookUpSemaphore, Library!AcquirePermit, Library!PutPool, Library!PutSemaphore, Library!ErrorSemaphore
  <2>3. \A u \in Thread : client[u] # None => pc'[u] \in UserPc
    BY <1>1, <2>2 DEF Library!TypeOK
  <2> QED
    BY <1>2, <2>1, <2>3
<1>5. ASSUME NEW t \in Thread, Library!LookUpPool(t) \/ Library!ReleasePermit(t) PROVE UserInv'
  <2>1. UNCHANGED <<idle, clients>> /\ (client' = client \/ client' = [client EXCEPT ![t] = None])
    BY <1>5 DEF Library!LookUpPool, Library!ReleasePermit
  <2>2. pc[t] \notin UserPc /\ \E x : pc' = [pc EXCEPT ![t] = x]
    BY <1>5 DEF Library!LookUpPool, Library!ReleasePermit, UserPc
  <2>3. \A u \in Thread : client'[u] \in {client[u], None} /\ (client'[u] # None => pc'[u] \in UserPc)
    BY <1>1, <2>1, <2>2 DEF Library!TypeOK
  <2> QED
    BY <1>2, <2>1, <2>3
<1>6. ASSUME NEW t \in Thread, Library!CloseClients(t) PROVE UserInv'
  <2>1. /\ idle' = idle /\ client' = [client EXCEPT ![t] = None] /\ pc' = [pc EXCEPT ![t] = "idle"]
        /\ clients' = [c \in Client |-> IF c \in idle[pools[t]] THEN "closed" ELSE clients[c]]
    BY <1>6 DEF Library!CloseClients
  <2>2. \A u \in Thread : client'[u] \in {client[u], None} /\ (client'[u] # None => pc'[u] \in UserPc)
    BY <1>1, <2>1 DEF Library!TypeOK
  <2> QED
    BY <1>2, <2>1, <2>2
<1>7. ASSUME NEW c \in Client, Library!LoseConnection(c) PROVE UserInv'
  BY <1>1, <1>2, <1>7 DEF Library!LoseConnection, Library!TypeOK
<1>8. ASSUME NEW t \in Thread, Library!Run(t) PROVE UserInv'
  <2>1. pc[t] = "run" /\ idle' = idle
    BY <1>8 DEF Library!Run
  <2>2. CASE pc' = [pc EXCEPT ![t] = "putPool"] /\ UNCHANGED <<clients, client>>
    BY <1>1, <1>2, <2>1, <2>2 DEF Library!TypeOK, UserPc
  <2>3. CASE /\ pc' = [pc EXCEPT ![t] = "errorSem"] /\ clients' = [clients EXCEPT ![client[t]] = "closed"]
             /\ client' = [client EXCEPT ![t] = None]
    BY <1>1, <1>2, <2>1, <2>3 DEF Library!TypeOK
  <2> QED
    BY <1>8, <2>2, <2>3 DEF Library!Run
<1>9. ASSUME NEW t \in Thread, Library!NewPool(t) PROVE UserInv'
  <2>1. PICK c \in Client : /\ clients[c] = "unused" /\ clients' = [clients EXCEPT ![c] = "open"]
                            /\ idle' = [idle EXCEPT ![connects + 1] = {c}]
    BY <1>9 DEF Library!NewPool
  <2>2. client' = client /\ pc[t] = "connecting" /\ pc' = [pc EXCEPT ![t] = "newSemaphore"]
    BY <1>9 DEF Library!NewPool
  <2>3. \A g \in Library!Generation : idle'[g] = IF g = connects + 1 THEN {c} ELSE idle[g]
    BY <2>1 DEF Library!TypeOK
  <2>4. \A d \in Client : clients'[d] = IF d = c THEN "open" ELSE clients[d]
    BY <2>1 DEF Library!TypeOK
  <2>5. Used(client', idle')
    BY <1>1, <2>1, <2>2, <2>3 DEF Used
  <2>6. \A g \in Library!Generation : \A d \in idle'[g] : clients'[d] # "unused"
    BY <1>1, <2>3, <2>4 DEF Library!TypeOK
  <2>7. \A u \in Thread : client'[u] # None => clients'[client'[u]] # "unused" /\ pc'[u] \in UserPc
    BY <1>1, <2>2, <2>4 DEF Library!TypeOK, UserPc
  <2> QED
    BY <2>5, <2>6, <2>7, UserIs
<1>10. ASSUME NEW t \in Thread, Library!TakeIdle(t) PROVE UserInv'
  <2>1. PICK c \in idle[pools[t]], dead \in SUBSET idle[pools[t]] :
           /\ client' = [client EXCEPT ![t] = c] /\ idle' = [idle EXCEPT ![pools[t]] = @ \ (dead \cup {c})]
           /\ clients' = [d \in Client |-> IF d \in dead THEN "closed" ELSE clients[d]]
    BY <1>10 DEF Library!TakeIdle
  <2>2. pc[t] = "take" /\ pc' = [pc EXCEPT ![t] = "run"] /\ pools[t] \in Library!Generation
    BY <1>10 DEF Library!TakeIdle, Library!TypeOK
  <2>3. c \in Client /\ \A u \in Thread : client[u] # c
    BY <1>1, <2>1, <2>2 DEF Used, Library!TypeOK
  <2>4. \A g \in Library!Generation : idle'[g] = IF g = pools[t] THEN idle[g] \ (dead \cup {c}) ELSE idle[g]
    BY <2>1, <2>2 DEF Library!TypeOK
  <2>5. \A g \in Library!Generation : idle'[g] \subseteq idle[g] /\ c \notin idle'[g]
    BY <1>1, <2>1, <2>2, <2>3, <2>4 DEF Used
  <2>6. pc'[t] \in UserPc /\ \A u \in Thread : u # t => pc'[u] = pc[u]
    BY <2>2 DEF UserPc, Library!TypeOK
  <2>7. clients'[c] # "unused" /\ \A d \in Client : clients[d] # "unused" => clients'[d] # "unused"
    BY <1>1, <2>1, <2>2, <2>3
  <2> QED
    BY <1>3, <2>1, <2>3, <2>5, <2>6, <2>7
<1>11. ASSUME NEW t \in Thread, Library!CreateClient(t) PROVE UserInv'
  <2>1. PICK closed : closed = [d \in Client |-> IF d \in idle[pools[t]] THEN "closed" ELSE clients[d]]
    OBVIOUS
  <2>2. pc[t] = "take" /\ pools[t] \in Library!Generation /\ idle' = [idle EXCEPT ![pools[t]] = {}]
    BY <1>11 DEF Library!CreateClient, Library!TypeOK
  <2>3. \A g \in Library!Generation : idle'[g] \subseteq idle[g]
    BY <2>2 DEF Library!TypeOK
  <2>4. ASSUME NEW c \in Client, clients[c] = "unused", clients' = [closed EXCEPT ![c] = "open"],
               client' = [client EXCEPT ![t] = c], pc' = [pc EXCEPT ![t] = "run"]
        PROVE  UserInv'
    <3>1. \A u \in Thread : client[u] # c
      BY <1>1, <2>4
    <3>2. \A g \in Library!Generation : c \notin idle'[g]
      BY <1>1, <2>3, <2>4
    <3>3. pc'[t] \in UserPc /\ \A u \in Thread : u # t => pc'[u] = pc[u]
      BY <2>4 DEF UserPc, Library!TypeOK
    <3>4. clients'[c] # "unused" /\ \A d \in Client : clients[d] # "unused" => clients'[d] # "unused"
      BY <2>1, <2>4
    <3> QED
      BY <1>3, <2>3, <2>4, <3>1, <3>2, <3>3, <3>4
  <2>5. CASE clients' = closed /\ pc' = [pc EXCEPT ![t] = "idle"] /\ client' = [client EXCEPT ![t] = None]
    <3>1. \A u \in Thread : client'[u] \in {client[u], None} /\ (client'[u] # None => pc'[u] \in UserPc)
      BY <1>1, <2>5 DEF Library!TypeOK
    <3> QED
      BY <1>2, <2>1, <2>3, <2>5, <3>1
  <2> QED
    BY <1>11, <2>1, <2>4, <2>5 DEF Library!CreateClient
<1>12. ASSUME NEW t \in Thread, Library!Append(t) PROVE UserInv'
  <2>1. /\ pc[t] = "append" /\ pc' = [pc EXCEPT ![t] = "release"] /\ client' = [client EXCEPT ![t] = None]
        /\ clients' = clients
        /\ idle' = IF pools[t] = None THEN idle ELSE [idle EXCEPT ![pools[t]] = @ \cup {client[t]}]
    BY <1>12 DEF Library!Append
  <2>2. client[t] \in Client
    BY <2>1 DEF Library!TypeOK
  <2>3. \A g \in Library!Generation : idle'[g] = idle[g] \/ (g = pools[t] /\ idle'[g] = idle[g] \cup {client[t]})
    BY <2>1 DEF Library!TypeOK
  <2>4. \A u \in Thread : client'[u] = IF u = t THEN None ELSE client[u]
    BY <2>1 DEF Library!TypeOK
  <2>5. Used(client', idle')
    <3>1. \A g \in Library!Generation : client[t] \notin idle[g]
      BY <1>1, <2>2 DEF Used
    <3> QED
      BY <1>1, <2>2, <2>3, <2>4, <3>1 DEF Used
  <2>6. \A g \in Library!Generation : \A d \in idle'[g] : clients'[d] # "unused"
    BY <1>1, <2>1, <2>2, <2>3
  <2>7. \A u \in Thread : client'[u] # None => clients'[client'[u]] # "unused" /\ pc'[u] \in UserPc
    BY <1>1, <2>1, <2>4 DEF Library!TypeOK
  <2> QED
    BY <2>5, <2>6, <2>7, UserIs
<1> QED
  BY <1>4, <1>5, <1>6, <1>7, <1>8, <1>9, <1>10, <1>11, <1>12 DEF Library!Next, Library!Step-----------------------------------------------------------------------------
\* The clients in use, or soon in use, are as many as the permits of one connect.
LEMMA UsersFit ==
  ASSUME Library!TypeOK, LockInv, CountInv, connects = 1,
         NEW f, \A u \in Thread : f[u] # None => pc[u] \in HolderPc
  PROVE  LET users == {f[u] : u \in Thread} \ {None}
         IN  IsFiniteSet(users) /\ Cardinality(users) <= PoolSize
<1> DEFINE users == {f[u] : u \in Thread} \ {None}
           Busy == {u \in Thread : f[u] # None}
           g == [u \in Busy |-> f[u]]
<1>1. Busy \subseteq Library!Holders /\ IsFiniteSet(Library!Holders) /\ Cardinality(Library!Holders) \in Nat
  BY CountsAre
<1>2. IsFiniteSet(Busy) /\ Cardinality(Busy) <= Cardinality(Library!Holders)
  BY <1>1, FS_Subset
<1>3. g \in Surjection(Busy, users)
  BY DEF Surjection
<1>4. IsFiniteSet(users) /\ Cardinality(users) <= Cardinality(Busy)
  <2> HIDE DEF g, users, Busy
  <2> QED
    BY <1>2, <1>3, FS_Surjection
<1>5. Cardinality(Library!Holders) <= PoolSize
  <2>1. Cardinality(Library!Permits) \in Nat
    BY CountsAre
  <2>2. Made \in {0, 1}
    BY MadeIs
  <2>3. PoolSize * Made <= PoolSize
    BY <2>2, PoolConstants
  <2>4. PICK p, h, m : p = Cardinality(Library!Permits) /\ h = Cardinality(Library!Holders) /\ m = PoolSize * Made
    OBVIOUS
  <2>5. p + h <= m /\ m <= PoolSize /\ p \in Nat /\ h \in Nat /\ m \in Nat
    BY <1>1, <2>1, <2>2, <2>3, <2>4, PoolConstants DEF CountInv
  <2>6. h <= PoolSize
    BY <2>5, PoolConstants
  <2> QED
    BY <2>4, <2>6
<1>6. Cardinality(Busy) \in Nat /\ Cardinality(users) \in Nat
  <2> HIDE DEF users, Busy
  <2> QED
    BY <1>2, <1>4, FS_CardinalityType
<1> HIDE DEF users, Busy
<1>7. IsFiniteSet(users) /\ Cardinality(users) <= PoolSize
  BY <1>1, <1>2, <1>4, <1>5, <1>6, PoolConstants
<1> QED
  BY <1>7 DEF users

\* Before a disconnect, who has a semaphore or a permit found a connect.
LEMMA ConnectedBefore ==
  ASSUME Library!TypeOK, LockInv, SemaphoreInv, disconnects = 0,
         NEW t \in Thread, pc[t] \in HolderPc \cup {"acquire"}
  PROVE  connects >= 1
  BY MadeIs, PoolConstants DEF SemaphoreInv, Library!TypeOK, Library!Generation

LEMMA RoomKeeps ==
  ASSUME Library!TypeOK, Library!TypeOK', LockInv, SemaphoreInv, CountInv, UserInv, RoomInv, Library!Next
  PROVE  RoomInv'
<1> USE PoolConstants
<1>1. connects \in Nat /\ disconnects \in Nat
  BY MadeIs
<1>2. ASSUME UNCHANGED <<currentPool, connects, disconnects>>,
             \A u \in Thread : pools'[u] \in {pools[u], None, currentPool},
             \A u \in Thread : pc'[u] = "closing" => pc[u] = "closing",
             disconnects = 0 => \A u \in Thread : pc'[u] \in {"putSem", "append"} => pools'[u] # None,
             connects = 0 => Library!Open' \subseteq Library!Open,
             connects = 1 /\ disconnects = 0 =>
                  /\ Library!Open' \subseteq idle'[1] \cup Library!InUse'
                  /\ IsFiniteSet(idle'[1]) /\ Cardinality(idle'[1] \cup Library!InUse') <= PoolSize
      PROVE  RoomInv'
  <2>1. \A u \in Thread : pools'[u] # None => pools'[u] <= connects'
    BY <1>2 DEF RoomInv
  <2>2. ASSUME disconnects = 0, NEW u \in Thread
        PROVE  pc'[u] # "closing" /\ (pc'[u] \in {"putSem", "append"} => pools'[u] # None)
    BY <1>2, <2>2 DEF RoomInv
  <2>3. connects = 0 /\ disconnects = 0 => Library!Open' = {}
    BY <1>2 DEF RoomInv
  <2> QED
    BY <1>2, <2>1, <2>2, <2>3 DEF RoomInv
<1>20. ASSUME UNCHANGED <<currentPool, connects, disconnects>>,
             \A u \in Thread : pools'[u] \in {pools[u], None, currentPool},
             \A u \in Thread : pc'[u] \in {"closing", "putSem", "append"} => pc'[u] = pc[u] /\ pools'[u] = pools[u],
             Library!Open' \subseteq Library!Open \/ connects # 0,
             connects = 1 /\ disconnects = 0 =>
                  /\ Library!Open' \subseteq idle'[1] \cup Library!InUse'
                  /\ IsFiniteSet(idle'[1]) /\ Cardinality(idle'[1] \cup Library!InUse') <= PoolSize
      PROVE  RoomInv'
  <2>1. \A u \in Thread : pc'[u] = "closing" => pc[u] = "closing"
    BY <1>20
  <2>2. disconnects = 0 => \A u \in Thread : pc'[u] \in {"putSem", "append"} => pools'[u] # None
    BY <1>20 DEF RoomInv
  <2> QED
    BY <1>2, <1>20, <2>1, <2>2
\* The clients that are there, in the pool or in use, become no more.
<1>3. ASSUME connects = 1, disconnects = 0, idle'[1] \cup Library!InUse' \subseteq idle[1] \cup Library!InUse,
             \A c \in Library!Open' : c \in Library!Open /\ (c \in idle[1] \cup Library!InUse => c \in idle'[1] \cup Library!InUse')
      PROVE  /\ Library!Open' \subseteq idle'[1] \cup Library!InUse'
             /\ IsFiniteSet(idle'[1]) /\ Cardinality(idle'[1] \cup Library!InUse') <= PoolSize
  <2>1. PICK S, T : S = idle[1] \cup Library!InUse /\ T = idle'[1] \cup Library!InUse'
    OBVIOUS
  <2>2. Library!Open' \subseteq T
    BY <1>3, <2>1 DEF RoomInv
  <2>3. IsFiniteSet(idle[1]) /\ Cardinality(S) <= PoolSize
    BY <1>3, <2>1 DEF RoomInv
  <2>4. IsFiniteSet(Library!InUse)
    <3>1. \A u \in Thread : client[u] # None => pc[u] \in HolderPc
      BY DEF UserInv, HolderPc
    <3> QED
      BY <1>3, <3>1, UsersFit DEF Library!InUse
  <2>5. IsFiniteSet(S)
    BY <2>1, <2>3, <2>4, FS_Union
  <2>6. IsFiniteSet(T) /\ Cardinality(T) <= Cardinality(S)
    BY <1>3, <2>1, <2>5, FS_Subset
  <2>7. IsFiniteSet(idle'[1])
    BY <2>1, <2>6, FS_Subset
  <2>8. Cardinality(T) \in Nat /\ Cardinality(S) \in Nat
    BY <2>5, <2>6, FS_CardinalityType
  <2>9. Cardinality(T) <= PoolSize
    BY <2>3, <2>6, <2>8
  <2> QED
    BY <2>1, <2>2, <2>7, <2>9
<1>4. connects = 1 => 1 \in Library!Generation
  BY DEF Library!TypeOK, Library!Generation
<1>5. \A t \in Thread : pc[t] = "take" => pools[t] \in Library!Generation /\ connects >= 1 /\ (connects = 1 => pools[t] = 1)
  BY <1>1 DEF Library!TypeOK, Library!Generation, RoomInv
<1> USE DEF Library!Goto, Library!Return, Library!Forget, Library!server, Library!local, Library!counters
<1>6. ASSUME NEW t \in Thread,
             \/ Library!Connect(t) \/ Library!Execute(t) \/ Library!ConnectFails(t)
             \/ Library!NewSemaphore(t) \/ Library!LookUpSemaphore(t) \/ Library!AcquirePermit(t)
             \/ Library!PutPool(t) \/ Library!PutSemaphore(t) \/ Library!ErrorSemaphore(t)
      PROVE  RoomInv'
  <2>1. UNCHANGED <<idle, clients, client, currentPool, connects, disconnects>>
        /\ (pools' = pools \/ (pc[t] = "putPool" /\ pools' = [pools EXCEPT ![t] = currentPool]))
    BY <1>6 DEF Library!Connect, Library!Execute, Library!ConnectFails, Library!NewSemaphore,
       Library!LookUpSemaphore, Library!AcquirePermit, Library!PutPool, Library!PutSemaphore, Library!ErrorSemaphore
  <2>2. PICK x : /\ pc' = [pc EXCEPT ![t] = x] /\ x # "closing" /\ (x = "append" => pc[t] = "putSem")
                 /\ (x = "putSem" => pc[t] = "putPool" /\ pools' = [pools EXCEPT ![t] = currentPool])
                 /\ (x # "putSem" => pools' = pools)
    BY <1>6 DEF Library!Connect, Library!Execute, Library!ConnectFails, Library!NewSemaphore,
       Library!LookUpSemaphore, Library!AcquirePermit, Library!PutPool, Library!PutSemaphore, Library!ErrorSemaphore
  <2>3. Library!Open' = Library!Open /\ Library!InUse' = Library!InUse
    BY <2>1 DEF Library!Open, Library!InUse
  <2>4. \A u \in Thread : /\ pools'[u] \in {pools[u], None, currentPool}
                          /\ u # t => pc'[u] = pc[u] /\ pools'[u] = pools[u]
                          /\ u = t => pc'[u] = x /\ (x = "putSem" => pools'[u] = currentPool)
    BY <2>1, <2>2 DEF Library!TypeOK
  <2>5. connects = 1 /\ disconnects = 0 =>
                  /\ Library!Open' \subseteq idle'[1] \cup Library!InUse'
                  /\ IsFiniteSet(idle'[1]) /\ Cardinality(idle'[1] \cup Library!InUse') <= PoolSize
    BY <1>1, <2>1, <2>3 DEF RoomInv
  <2>6. /\ \A u \in Thread : u # t => pc'[u] = pc[u] /\ pools'[u] = pools[u]
        /\ pc'[t] \notin {"closing", "putSem", "append"} \/ (pc'[t] = "append" /\ pc[t] = "putSem" /\ pools'[t] = pools[t])
             \/ (pc'[t] = "putSem" /\ pc[t] = "putPool" /\ pools'[t] = currentPool)
    BY <2>2, <2>4
  <2>7. pc[t] = "putPool" /\ disconnects = 0 => connects >= 1
    BY ConnectedBefore DEF HolderPc
  <2>8. disconnects = 0 => \A u \in Thread : pc'[u] \in {"putSem", "append"} => pools'[u] # None
    BY <2>6, <2>7 DEF RoomInv
  <2>9. \A u \in Thread : pc'[u] = "closing" => pc[u] = "closing"
    BY <2>6
  <2>10. \A u \in Thread : pools'[u] \in {pools[u], None, currentPool}
    BY <2>4
  <2>11. connects = 0 => Library!Open' \subseteq Library!Open
    BY <2>3
  <2> QED
    BY <1>2, <2>1, <2>5, <2>8, <2>9, <2>10, <2>11
<1>7. ASSUME NEW t \in Thread, Library!Disconnect(t) PROVE RoomInv'
  <2>1. /\ pools' = [pools EXCEPT ![t] = currentPool] /\ currentPool' = None /\ connects' = connects
        /\ disconnects' = disconnects + 1
    BY <1>7 DEF Library!Disconnect
  <2>2. disconnects' # 0 /\ \A u \in Thread : pools'[u] \in {pools[u], currentPool}
    BY <1>1, <2>1 DEF Library!TypeOK
  <2> QED
    BY <2>1, <2>2 DEF RoomInv
<1>8. ASSUME NEW t \in Thread, Library!LookUpPool(t) PROVE RoomInv'
  <2>1. /\ UNCHANGED <<idle, clients, currentPool, connects, disconnects>>
        /\ \/ client' = [client EXCEPT ![t] = None] /\ pc' = [pc EXCEPT ![t] = "idle"] /\ pools' = [pools EXCEPT ![t] = None]
           \/ client' = client /\ pc' = [pc EXCEPT ![t] = "take"] /\ pools' = [pools EXCEPT ![t] = currentPool]
    BY <1>8 DEF Library!LookUpPool
  <2>2. pc[t] = "lookPool" /\ client[t] = None
    BY <1>8 DEF Library!LookUpPool, UserInv, Library!TypeOK
  <2>3. \A u \in Thread : client'[u] = client[u]
    BY <2>1, <2>2 DEF Library!TypeOK
  <2>4. Library!Open' = Library!Open /\ Library!InUse' = Library!InUse
    BY <2>1, <2>3 DEF Library!Open, Library!InUse
  <2>5. \A u \in Thread : /\ pools'[u] \in {pools[u], None, currentPool}
                          /\ pc'[u] \in {"closing", "putSem", "append"} => pc'[u] = pc[u] /\ pools'[u] = pools[u]
    BY <2>1 DEF Library!TypeOK
  <2>6. connects = 1 /\ disconnects = 0 =>
                  /\ Library!Open' \subseteq idle'[1] \cup Library!InUse'
                  /\ IsFiniteSet(idle'[1]) /\ Cardinality(idle'[1] \cup Library!InUse') <= PoolSize
    BY <1>1, <2>1, <2>4 DEF RoomInv
  <2> QED
    BY <1>20, <2>1, <2>4, <2>5, <2>6
<1>9. ASSUME NEW c \in Client, Library!LoseConnection(c) PROVE RoomInv'
  <2>1. UNCHANGED <<idle, client, pc, pools, currentPool, connects, disconnects>>
    BY <1>9 DEF Library!LoseConnection
  <2>2. Library!Open' = Library!Open
    BY <1>9 DEF Library!LoseConnection, Library!TypeOK, Library!Open
  <2>3. Library!InUse' = Library!InUse
    BY <2>1 DEF Library!InUse
  <2> QED
    BY <2>1, <2>2, <2>3 DEF RoomInv
<1>10. ASSUME NEW t \in Thread, Library!ReleasePermit(t) \/ Library!CloseClients(t) PROVE RoomInv'
  <2>1. /\ UNCHANGED <<idle, currentPool, connects, disconnects>> /\ pc' = [pc EXCEPT ![t] = "idle"]
        /\ pools' = [pools EXCEPT ![t] = None] /\ client' = [client EXCEPT ![t] = None]
        /\ pc[t] \in {"release", "closing"}
        /\ pc[t] = "release" => clients' = clients
        /\ clients' = clients \/ clients' = [c \in Client |-> IF c \in idle[pools[t]] THEN "closed" ELSE clients[c]]
    BY <1>10 DEF Library!ReleasePermit, Library!CloseClients
  <2>2. client[t] = None
    BY <2>1 DEF UserInv, Library!TypeOK
  <2>3. \A u \in Thread : client'[u] = client[u]
    BY <2>1, <2>2 DEF Library!TypeOK
  <2>4. Library!Open' \subseteq Library!Open /\ Library!InUse' = Library!InUse
    BY <2>1, <2>3 DEF Library!Open, Library!InUse
  <2>5. \A u \in Thread : /\ pools'[u] \in {pools[u], None, currentPool}
                          /\ pc'[u] \in {"closing", "putSem", "append"} => pc'[u] = pc[u] /\ pools'[u] = pools[u]
    BY <2>1 DEF Library!TypeOK
  <2>6. connects = 1 /\ disconnects = 0 =>
                  /\ Library!Open' \subseteq idle'[1] \cup Library!InUse'
                  /\ IsFiniteSet(idle'[1]) /\ Cardinality(idle'[1] \cup Library!InUse') <= PoolSize
    BY <1>1, <2>1, <2>4 DEF RoomInv
  <2> QED
    BY <1>20, <2>1, <2>4, <2>5, <2>6
<1>11. ASSUME NEW t \in Thread, Library!Run(t) PROVE RoomInv'
  <2>1. pc[t] = "run" /\ UNCHANGED <<idle, currentPool, connects, disconnects, pools>>
    BY <1>11 DEF Library!Run
  <2>2. CASE pc' = [pc EXCEPT ![t] = "putPool"] /\ UNCHANGED <<clients, client>>
    <3>1. Library!Open' = Library!Open /\ Library!InUse' = Library!InUse
      BY <2>2 DEF Library!Open, Library!InUse
    <3>2. \A u \in Thread : pc'[u] \in {"closing", "putSem", "append"} => pc'[u] = pc[u]
      BY <2>2 DEF Library!TypeOK
    <3> QED
      BY <2>1, <3>1, <3>2 DEF RoomInv
  <2>3. CASE /\ pc' = [pc EXCEPT ![t] = "errorSem"] /\ clients' = [clients EXCEPT ![client[t]] = "closed"]
             /\ client' = [client EXCEPT ![t] = None]
    <3>1. client[t] \in Client
      BY <2>1 DEF Library!TypeOK
    <3>2. \A c \in Library!Open' : c \in Library!Open /\ c # client[t]
      BY <2>3, <3>1 DEF Library!Open, Library!TypeOK
    <3>3. Library!InUse' = Library!InUse \ {client[t]}
      <4>1. \A u \in Thread : client'[u] = IF u = t THEN None ELSE client[u]
        BY <2>3 DEF Library!TypeOK
      <4>2. \A u \in Thread : u # t /\ client[u] # None => client[u] # client[t]
        BY DEF UserInv, Library!ExclusiveUse
      <4> QED
        BY <3>1, <4>1, <4>2 DEF Library!InUse
    <3>4. \A u \in Thread : pc'[u] \in {"closing", "putSem", "append"} => pc'[u] = pc[u]
      BY <2>3 DEF Library!TypeOK
    <3>5. connects = 1 /\ disconnects = 0 =>
                  /\ Library!Open' \subseteq idle'[1] \cup Library!InUse'
                  /\ IsFiniteSet(idle'[1]) /\ Cardinality(idle'[1] \cup Library!InUse') <= PoolSize
      BY <1>3, <2>1, <3>2, <3>3
    <3>6. Library!Open' \subseteq Library!Open
      BY <3>2
    <3> QED
      BY <1>20, <2>1, <3>4, <3>5, <3>6
  <2> QED
    BY <1>11, <2>2, <2>3 DEF Library!Run
<1>12. ASSUME NEW t \in Thread, Library!NewPool(t) PROVE RoomInv'
  <2>1. PICK c \in Client : /\ clients[c] = "unused" /\ clients' = [clients EXCEPT ![c] = "open"]
                            /\ idle' = [idle EXCEPT ![connects + 1] = {c}]
    BY <1>12 DEF Library!NewPool
  <2>2. /\ UNCHANGED <<client, pools, disconnects>> /\ pc' = [pc EXCEPT ![t] = "newSemaphore"]
        /\ connects' = connects + 1 /\ currentPool' = connects + 1
    BY <1>12 DEF Library!NewPool
  <2>3. connects + 1 # None /\ connects + 1 >= 1 /\ connects + 1 # 0
    BY <1>1
  <2>4. \A u \in Thread : pc'[u] \in {"closing", "putSem", "append"} => pc'[u] = pc[u]
    BY <2>2 DEF Library!TypeOK
  <2>5. ASSUME NEW u \in Thread, pools'[u] # None PROVE pools'[u] <= connects'
    <3>1. pools[u] <= connects /\ pools[u] \in Library!Generation
      BY <2>2, <2>5 DEF RoomInv, Library!TypeOK
    <3>2. pools[u] \in Nat
      BY <3>1 DEF Library!Generation
    <3> QED
      BY <1>1, <2>2, <3>1, <3>2
  <2>6. ASSUME connects' = 1, disconnects = 0
        PROVE  /\ Library!Open' \subseteq idle'[1] \cup Library!InUse'
               /\ IsFiniteSet(idle'[1]) /\ Cardinality(idle'[1] \cup Library!InUse') <= PoolSize
    <3>1. connects = 0 /\ Library!Open = {}
      BY <1>1, <2>2, <2>6 DEF RoomInv
    <3>2. \A u \in Thread : client[u] = None
      BY <2>6, <3>1, ConnectedBefore DEF UserInv, HolderPc
    <3>3. Library!InUse' = {}
      BY <2>2, <3>2 DEF Library!InUse
    <3>4. idle'[1] = {c}
      BY <2>1, <2>2, <2>6, <3>1 DEF Library!TypeOK, Library!Generation
    <3>5. Library!Open' \subseteq {c}
      BY <2>1, <3>1 DEF Library!Open, Library!TypeOK
    <3>6. IsFiniteSet({c}) /\ Cardinality({c}) = 1
      BY FS_Singleton
    <3>7. idle'[1] \cup Library!InUse' = {c}
      BY <3>3, <3>4
    <3>8. Cardinality(idle'[1] \cup Library!InUse') <= PoolSize
      BY <3>6, <3>7
    <3> QED
      BY <3>4, <3>5, <3>6, <3>7, <3>8
  <2> QED
    BY <2>2, <2>3, <2>4, <2>5, <2>6 DEF RoomInv
<1>13. ASSUME NEW t \in Thread, Library!TakeIdle(t) PROVE RoomInv'
  <2>1. PICK c \in idle[pools[t]], dead \in SUBSET idle[pools[t]] :
           /\ clients[c] = "open" /\ \A d \in dead : clients[d] # "open"
           /\ client' = [client EXCEPT ![t] = c] /\ idle' = [idle EXCEPT ![pools[t]] = @ \ (dead \cup {c})]
           /\ clients' = [d \in Client |-> IF d \in dead THEN "closed" ELSE clients[d]]
    BY <1>13 DEF Library!TakeIdle
  <2>2. /\ pc[t] = "take" /\ pc' = [pc EXCEPT ![t] = "run"] /\ UNCHANGED <<pools, currentPool, connects, disconnects>>
    BY <1>13 DEF Library!TakeIdle
  <2>3. client[t] = None /\ pools[t] \in Library!Generation /\ c \in Client
    BY <1>5, <2>1, <2>2 DEF UserInv, Library!TypeOK
  <2>4. Library!InUse' = Library!InUse \cup {c}
    <3>1. \A u \in Thread : client'[u] = IF u = t THEN c ELSE client[u]
      BY <2>1 DEF Library!TypeOK
    <3> QED
      BY <2>3, <3>1 DEF Library!InUse
  <2>5. \A d \in Library!Open' : d \in Library!Open /\ d \notin dead
    BY <2>1 DEF Library!Open
  <2>6. \A u \in Thread : pc'[u] \in {"closing", "putSem", "append"} => pc'[u] = pc[u]
    BY <2>2 DEF Library!TypeOK
  <2>7. ASSUME connects = 1, disconnects = 0
        PROVE  /\ Library!Open' \subseteq idle'[1] \cup Library!InUse'
               /\ IsFiniteSet(idle'[1]) /\ Cardinality(idle'[1] \cup Library!InUse') <= PoolSize
    <3>1. pools[t] = 1
      BY <1>5, <2>2, <2>7
    <3>2. idle'[1] = idle[1] \ (dead \cup {c})
      BY <1>4, <2>1, <2>7, <3>1 DEF Library!TypeOK
    <3> QED
      BY <1>3, <2>1, <2>4, <2>5, <2>7, <3>1, <3>2
  <2>8. Library!Open' \subseteq Library!Open
    BY <2>5
  <2> QED
    BY <1>20, <2>2, <2>6, <2>7, <2>8
<1>14. ASSUME NEW t \in Thread, Library!CreateClient(t) PROVE RoomInv'
  <2>1. PICK closed : closed = [d \in Client |-> IF d \in idle[pools[t]] THEN "closed" ELSE clients[d]]
    OBVIOUS
  <2>2. /\ pc[t] = "take" /\ idle' = [idle EXCEPT ![pools[t]] = {}] /\ UNCHANGED <<currentPool, connects, disconnects>>
    BY <1>14 DEF Library!CreateClient
  <2>3. client[t] = None /\ pools[t] \in Library!Generation /\ connects # 0
    BY <1>1, <1>5, <2>2 DEF UserInv, Library!TypeOK
  <2>4. connects = 1 => idle'[1] = {} /\ pools[t] = 1
    BY <1>4, <1>5, <2>2, <2>3 DEF Library!TypeOK
  <2>5. ASSUME NEW c \in Client, clients' = [closed EXCEPT ![c] = "open"], UNCHANGED pools,
               client' = [client EXCEPT ![t] = c], pc' = [pc EXCEPT ![t] = "run"]
        PROVE  RoomInv'
    <3>1. \A u \in Thread : client'[u] = IF u = t THEN c ELSE client[u]
      BY <2>5 DEF Library!TypeOK
    <3>2. \A u \in Thread : pc'[u] \in {"closing", "putSem", "append"} => pc'[u] = pc[u]
      BY <2>5 DEF Library!TypeOK
    <3>3. Library!InUse' = Library!InUse \cup {c}
      BY <2>3, <3>1 DEF Library!InUse
    <3>4. ASSUME connects = 1, disconnects = 0
          PROVE  /\ Library!Open' \subseteq idle'[1] \cup Library!InUse'
                 /\ IsFiniteSet(idle'[1]) /\ Cardinality(idle'[1] \cup Library!InUse') <= PoolSize
      <4>1. \A u \in Thread : client'[u] # None => pc[u] \in HolderPc
        BY <2>2, <3>1 DEF UserInv, HolderPc
      <4>2. IsFiniteSet(Library!InUse') /\ Cardinality(Library!InUse') <= PoolSize
        BY <3>4, <4>1, UsersFit DEF Library!InUse
      <4>3. \A d \in Library!Open' : d = c \/ (d \in Library!Open /\ d \notin idle[1])
        BY <2>1, <2>4, <2>5, <3>4 DEF Library!Open
      <4>4. Library!Open \subseteq idle[1] \cup Library!InUse
        BY <3>4 DEF RoomInv
      <4>5. idle'[1] = {} /\ idle'[1] \cup Library!InUse' = Library!InUse'
        BY <2>4, <3>4
      <4>6. IsFiniteSet(idle'[1])
        BY <4>5, FS_EmptySet
      <4>7. Library!Open' \subseteq Library!InUse'
        BY <3>3, <4>3, <4>4
      <4> QED
        BY <4>2, <4>5, <4>6, <4>7
    <3> QED
      BY <1>20, <2>2, <2>3, <2>5, <3>2, <3>4
  <2>6. ASSUME clients' = closed, pc' = [pc EXCEPT ![t] = "idle"], client' = [client EXCEPT ![t] = None],
               pools' = [pools EXCEPT ![t] = None]
        PROVE  RoomInv'
    <3>1. \A u \in Thread : client'[u] = client[u]
      BY <2>3, <2>6 DEF Library!TypeOK
    <3>2. \A u \in Thread : /\ pools'[u] \in {pools[u], None, currentPool}
                            /\ pc'[u] \in {"closing", "putSem", "append"} => pc'[u] = pc[u] /\ pools'[u] = pools[u]
      BY <2>6 DEF Library!TypeOK
    <3>3. Library!InUse' = Library!InUse
      BY <3>1 DEF Library!InUse
    <3>4. \A d \in Library!Open' : d \in Library!Open /\ d \notin idle[pools[t]]
      BY <2>1, <2>6 DEF Library!Open
    <3>5. connects = 1 /\ disconnects = 0 =>
                  /\ Library!Open' \subseteq idle'[1] \cup Library!InUse'
                  /\ IsFiniteSet(idle'[1]) /\ Cardinality(idle'[1] \cup Library!InUse') <= PoolSize
      BY <1>3, <2>4, <3>3, <3>4
    <3>6. Library!Open' \subseteq Library!Open
      BY <3>4
    <3> QED
      BY <1>20, <2>2, <3>2, <3>5, <3>6
  <2> QED
    BY <1>14, <2>1, <2>5, <2>6 DEF Library!CreateClient
<1>15. ASSUME NEW t \in Thread, Library!Append(t) PROVE RoomInv'
  <2>1. /\ pc[t] = "append" /\ pc' = [pc EXCEPT ![t] = "release"] /\ client' = [client EXCEPT ![t] = None]
        /\ UNCHANGED <<clients, pools, currentPool, connects, disconnects>>
        /\ idle' = IF pools[t] = None THEN idle ELSE [idle EXCEPT ![pools[t]] = @ \cup {client[t]}]
    BY <1>15 DEF Library!Append
  <2>2. client[t] \in Client
    BY <2>1 DEF Library!TypeOK
  <2>3. Library!InUse' = Library!InUse \ {client[t]} /\ client[t] \in Library!InUse
    <3>1. \A u \in Thread : client'[u] = IF u = t THEN None ELSE client[u]
      BY <2>1 DEF Library!TypeOK
    <3>2. \A u \in Thread : u # t /\ client[u] # None => client[u] # client[t]
      BY DEF UserInv, Library!ExclusiveUse
    <3> QED
      BY <2>2, <3>1, <3>2 DEF Library!InUse
  <2>4. \A u \in Thread : pc'[u] \in {"closing", "putSem", "append"} => pc'[u] = pc[u]
    BY <2>1 DEF Library!TypeOK
  <2>5. Library!Open' = Library!Open
    BY <2>1 DEF Library!Open
  <2>6. ASSUME connects = 1, disconnects = 0
        PROVE  /\ Library!Open' \subseteq idle'[1] \cup Library!InUse'
               /\ IsFiniteSet(idle'[1]) /\ Cardinality(idle'[1] \cup Library!InUse') <= PoolSize
    <3>1. pools[t] # None
      BY <2>1, <2>6 DEF RoomInv
    <3>2. pools[t] = 1
      BY <1>1, <2>6, <3>1 DEF RoomInv, Library!TypeOK, Library!Generation
    <3>3. idle'[1] = idle[1] \cup {client[t]}
      BY <1>4, <2>1, <2>6, <3>1, <3>2 DEF Library!TypeOK
    <3> QED
      BY <1>3, <2>3, <2>5, <2>6, <3>3
  <2> QED
    BY <1>20, <2>1, <2>4, <2>5, <2>6
<1> QED
  BY <1>6, <1>7, <1>8, <1>9, <1>10, <1>11, <1>12, <1>13, <1>14, <1>15 DEF Library!Next, Library!Step

LEMMA PoolStep ==
  ASSUME PoolInv, Library!Next
  PROVE  PoolInv'
<1>1. Library!TypeOK' /\ LockInv'
  BY PoolTypes DEF PoolInv
<1>2. SemaphoreInv' /\ CountInv'
  <2>1. CASE \E t \in Thread : Library!NewSemaphore(t)
    BY <1>1, <2>1, NewSemaphoreKeeps DEF PoolInv
  <2>2. CASE \A t \in Thread : ~Library!NewSemaphore(t)
    BY <1>1, <2>2, SemaphoresKeep DEF PoolInv
  <2> QED
    BY <2>1, <2>2
<1>3. UserInv'
  BY <1>1, UsersKeep DEF PoolInv
<1>4. RoomInv'
  BY <1>1, RoomKeeps DEF PoolInv
<1> QED
  BY <1>1, <1>2, <1>3, <1>4 DEF PoolInv

LEMMA PoolStutter ==
  ASSUME PoolInv, UNCHANGED libraryVars
  PROVE  PoolInv'
<1> USE DEF libraryVars
<1>1. Library!TypeOK' /\ LockInv'
  BY DEF PoolInv, Library!TypeOK, LockInv
<1>2. Made' = Made /\ Library!Permits' = Library!Permits /\ Library!Holders' = Library!Holders
  BY DEF Made, Library!Permits, Library!Holders
<1>3. SemaphoreInv' /\ CountInv'
  BY <1>2 DEF PoolInv, SemaphoreInv, CountInv
<1>4. Library!InUse' = Library!InUse /\ Library!Open' = Library!Open
  BY DEF Library!InUse, Library!Open
<1>5. UserInv'
  BY <1>4 DEF PoolInv, UserInv, Library!ExclusiveUse
<1>6. RoomInv'
  BY <1>4 DEF PoolInv, RoomInv
<1> QED
  BY <1>1, <1>3, <1>5, <1>6 DEF PoolInv

\* What the counts are worth: PermitsBound.
LEMMA PermitsAreBounded == PoolInv => Library!PermitsBound
<1> SUFFICES ASSUME PoolInv PROVE Library!PermitsAreKept /\ Library!BoundedUntilReconnect
  BY DEF Library!PermitsBound
<1> USE PoolConstants
<1>1. /\ Library!Cardinality(Library!Permits) = Cardinality(Library!Permits)
      /\ Library!Cardinality(Library!Holders) = Cardinality(Library!Holders)
      /\ Library!Cardinality(Library!Open) = Cardinality(Library!Open)
  BY Zenon DEF Library!Cardinality, Cardinality
<1>2. /\ Cardinality(Library!Permits) \in Nat /\ Cardinality(Library!Holders) \in Nat
      /\ Made \in Nat /\ Made <= connects /\ connects \in Nat /\ disconnects \in Nat
  BY CountsAre, MadeIs DEF PoolInv
<1>3. Library!PermitsAreKept
  <2>1. PICK p, h, m : p = Cardinality(Library!Permits) /\ h = Cardinality(Library!Holders) /\ m = Made
    OBVIOUS
  <2>2. p \in Nat /\ h \in Nat /\ m \in Nat /\ m <= connects /\ p + h <= PoolSize * m
    BY <1>2, <2>1 DEF PoolInv, CountInv
  <2>3. PoolSize * m <= PoolSize * connects
    <3>1. connects - m \in Nat
      BY <1>2, <2>2
    <3>2. PoolSize * (connects - m) \in Nat
      BY <3>1
    <3>3. PoolSize * connects = PoolSize * m + PoolSize * (connects - m)
      BY <1>2, <2>2
    <3>4. PoolSize * m \in Nat
      BY <2>2
    <3> QED
      BY <3>2, <3>3, <3>4
  <2>4. PoolSize * m \in Nat /\ PoolSize * connects \in Nat
    BY <1>2, <2>2
  <2>5. p + h <= PoolSize * connects
    BY <2>2, <2>3, <2>4
  <2>6. disconnects = 0 /\ currentSem # None => p + h = PoolSize * currentSem
    BY <2>1 DEF PoolInv, SemaphoreInv, CountInv
  <2> QED
    BY <1>1, <2>1, <2>5, <2>6 DEF Library!PermitsAreKept
<1>4. Library!BoundedUntilReconnect
  <2> SUFFICES ASSUME connects <= 1, disconnects = 0 PROVE Cardinality(Library!Open) <= PoolSize
    BY <1>1 DEF Library!BoundedUntilReconnect
  <2>1. CASE connects = 0
    <3>1. Library!Open = {}
      BY <2>1 DEF PoolInv, RoomInv
    <3>2. Cardinality(Library!Open) = 0
      BY <3>1, FS_EmptySet
    <3> QED
      BY <3>2
  <2>2. CASE connects = 1
    <3>1. PICK S : S = idle[1] \cup Library!InUse
      OBVIOUS
    <3>2. Library!Open \subseteq S /\ IsFiniteSet(idle[1]) /\ Cardinality(S) <= PoolSize
      BY <2>2, <3>1 DEF PoolInv, RoomInv
    <3>3. IsFiniteSet(Library!InUse)
      <4>1. \A u \in Thread : client[u] # None => pc[u] \in HolderPc
        BY DEF PoolInv, UserInv, HolderPc
      <4> QED
        BY <2>2, <4>1, UsersFit DEF PoolInv, Library!InUse
    <3>4. IsFiniteSet(S)
      BY <3>1, <3>2, <3>3, FS_Union
    <3>5. Cardinality(Library!Open) <= Cardinality(S) /\ IsFiniteSet(Library!Open)
      BY <3>2, <3>4, FS_Subset
    <3>6. Cardinality(Library!Open) \in Nat /\ Cardinality(S) \in Nat
      BY <3>4, <3>5, FS_CardinalityType
    <3> QED
      BY <3>2, <3>5, <3>6
  <2> QED
    BY <1>2, <2>1, <2>2
<1> QED
  BY <1>3, <1>4

\* Whatever connects, disconnects and fails meanwhile, no client of the library is used twice,
\* its permits stay as many as its pools were made for, and the connections to a device are its
\* row's (ssh.py _acquire_client, _release_client; network_manager.py connect, disconnect):
\* for any number of threads, clients, permits, connects and disconnects, devices and requests.
THEOREM PoolSound == SSHSpec => []PoolIsSound
<1>1. SSHInit => PoolInv /\ NetInv
  BY PoolInit, NetInit DEF SSHInit
<1>2. PoolInv /\ NetInv /\ [SSHNext]_<<part, vars, libraryVars, deviceVars>> => PoolInv' /\ NetInv'
  <2> SUFFICES ASSUME PoolInv, NetInv, [SSHNext]_<<part, vars, libraryVars, deviceVars>>
               PROVE  PoolInv' /\ NetInv'
    OBVIOUS
  <2>1. /\ Library!Next \/ UNCHANGED libraryVars
        /\ Network!Next \/ UNCHANGED deviceVars
    BY DEF SSHNext
  <2>2. PoolInv'
    BY <2>1, PoolStep, PoolStutter
  <2>3. UNCHANGED deviceVars => UNCHANGED Network!vars
    BY DEF deviceVars, Network!vars
  <2>4. NetInv'
    BY <2>1, <2>3, NetNext
  <2> QED
    BY <2>2, <2>4
<1>3. PoolInv /\ NetInv => PoolIsSound
  BY PermitsAreBounded, ConnectionsAreOwned DEF PoolIsSound, PoolInv, UserInv
<1> QED
  BY <1>1, <1>2, <1>3, PTL DEF SSHSpec
=============================================================================
