------------------------------ MODULE SSHManager ------------------------------
(***************************************************************************)
(* The SSH connection manager of the panel (ssh_manager.py): one client    *)
(* per server in a pool, a cache that saves is_connected from probing a    *)
(* transport more than once per _CHECK_INTERVAL, and the application key   *)
(* that a password login leaves on the server for the next logins.         *)
(*                                                                         *)
(* Requests, scheduler jobs and watcher threads call the one shared        *)
(* instance concurrently.  _lock covers the pool and the writes of the     *)
(* cache; the cache is read, the logins are tried and the key is deployed  *)
(* outside it.  disconnect_all and get_connected_count have no caller.     *)
(***************************************************************************)
EXTENDS Naturals

CONSTANTS
    Server,     \* servers of the panel
    PemServer,  \* those that have a key of their own (ssh_key_pem)
    Caller,     \* concurrent callers of the manager
    Client,     \* SSHClient objects: bounds the number of logins
    None,       \* no client, no server
    Interval    \* _CHECK_INTERVAL, in ticks of the clock

ASSUME PemAssumption == PemServer \subseteq Server
ASSUME IntervalAssumption == Interval \in Nat \ {0}
ASSUME NoneAssumption == None \notin Server \cup Client

VARIABLES
    pool,        \* _connections
    result,      \* _last_check_result: "none" when there is no entry
    age,         \* time since _last_check, Interval when that long or never
    deployed,    \* _key_deployed
    state,       \* the life of each client
    call,        \* what each caller is doing
    raised,      \* the callers whose last call ended in a KeyError
    reachable,   \* servers that accept connections
    keyFile,     \* ~/.ssh/authorized_keys of each server
    sinceUp,     \* history: time since the server had a live client in the pool
    sinceDown    \* history: time since it had none

manager == <<pool, result, age, deployed>>
world == <<reachable, keyFile>>
history == <<sinceUp, sinceDown>>
vars == <<manager, state, call, raised, world, history>>

Login == {"appKey", "serverKey", "firstKey", "password"}
Pc == {"idle", "pool", "deploy", "ask", "hit", "lock", "client", "run"} \cup Login

Begun(pc, s, execute) ==
    [pc |-> pc, server |-> s, client |-> None, method |-> "none", elapsed |-> 0, execute |-> execute]
Idle == Begun("idle", None, FALSE)

Init ==
    /\ pool = [s \in Server |-> None]
    /\ result = [s \in Server |-> "none"]
    /\ age = [s \in Server |-> Interval]
    /\ deployed = {}
    /\ state = [c \in Client |-> "unused"]
    /\ call = [p \in Caller |-> Idle]
    /\ raised = {}
    /\ reachable = Server
    /\ keyFile \in [Server -> {"missing", "without", "with"}]
    /\ sinceUp = [s \in Server |-> Interval]
    /\ sinceDown = [s \in Server |-> 0]

At(p, pc) == call[p].pc = pc
Goto(p, pc) == call' = [call EXCEPT ![p].pc = pc]
Return(p) == call' = [call EXCEPT ![p] = Idle]

\* transport.is_active(): a lost connection has been noticed by paramiko.
Active(c) == c # None /\ state[c] = "open"

\* A probe or a change of the pool is recorded in the history.
Record(pool1, state1) ==
    LET Live(s) == pool1[s] # None /\ state1[pool1[s]] = "open"
    IN  /\ sinceUp' = [s \in Server |-> IF Live(s) THEN 0 ELSE sinceUp[s]]
        /\ sinceDown' = [s \in Server |-> IF Live(s) THEN sinceDown[s] ELSE 0]

(***************************************************************************)
(* connect                                                                 *)
(***************************************************************************)
Connect(p, s) ==
    /\ At(p, "idle")
    /\ call' = [call EXCEPT ![p] = Begun("appKey", s, FALSE)]
    /\ raised' = raised \ {p}
    /\ UNCHANGED <<manager, state, world, history>>

\* A login that succeeds opens a client and goes on to the pool.
LoggedIn(p, method) ==
    \E c \in Client :
        /\ state[c] = "unused"
        /\ state' = [state EXCEPT ![c] = "open"]
        /\ call' = [call EXCEPT ![p].pc = "pool", ![p].client = c, ![p].method = method]

KeyAccepted(s) == s \in reachable /\ keyFile[s] = "with"

\* 1) the application key, when it has been deployed before
TryAppKey(p) ==
    /\ At(p, "appKey")
    /\ \/ /\ call[p].server \in deployed
          /\ KeyAccepted(call[p].server)
          /\ LoggedIn(p, "app_key")
       \/ /\ call[p].server \in deployed => ~KeyAccepted(call[p].server)
          /\ Goto(p, "serverKey")
          /\ UNCHANGED state
    /\ UNCHANGED <<manager, raised, world, history>>

\* 2) the server's own key
TryServerKey(p) ==
    /\ At(p, "serverKey")
    /\ \/ /\ call[p].server \in PemServer \cap reachable
          /\ LoggedIn(p, "server_key")
       \/ /\ Goto(p, "firstKey")
          /\ UNCHANGED state
    /\ UNCHANGED <<manager, raised, world, history>>

\* 3) the application key, when the panel does not know that the server has it
TryFirstKey(p) ==
    /\ At(p, "firstKey")
    /\ \/ /\ call[p].server \notin deployed
          /\ KeyAccepted(call[p].server)
          /\ LoggedIn(p, "app_key")
          /\ deployed' = deployed \cup {call[p].server}
       \/ /\ call[p].server \notin deployed => ~KeyAccepted(call[p].server)
          /\ Goto(p, "password")
          /\ UNCHANGED <<state, deployed>>
    /\ UNCHANGED <<pool, result, age, raised, world, history>>

\* 4) the password; a refusal or an unreachable server ends the call
TryPassword(p) ==
    /\ At(p, "password")
    /\ \/ /\ call[p].server \in reachable
          /\ LoggedIn(p, "password")
       \/ /\ Return(p)
          /\ UNCHANGED state
    /\ UNCHANGED <<manager, raised, world, history>>

\* Mutant of ReplaceClient: the client it replaces stays open.
BugReplaceClient(p) ==
    /\ At(p, "pool")
    /\ pool' = [pool EXCEPT ![call[p].server] = call[p].client]
    /\ IF call[p].method = "password" THEN Goto(p, "deploy") ELSE Return(p)
    /\ Record(pool', state)
    /\ UNCHANGED <<result, age, deployed, state, raised, world>>

\* Under the lock: the client that was in the pool is closed and replaced.
ReplaceClient(p) ==
    LET s == call[p].server
    IN  /\ At(p, "pool")
        /\ state' = [c \in Client |-> IF c = pool[s] THEN "closed" ELSE state[c]]
        /\ pool' = [pool EXCEPT ![s] = call[p].client]
        /\ IF call[p].method = "password" THEN Goto(p, "deploy") ELSE Return(p)
        /\ Record(pool', state')
        /\ UNCHANGED <<result, age, deployed, raised, world>>

\* What "grep -c <marker> authorized_keys || echo 0" prints: grep prints its count of 0
\* and fails, so that echo prints another one, unless the file cannot be read at all.
MarkerCount(file) ==
    CASE file = "missing" -> <<0>>
      [] file = "without" -> <<0, 0>>
      [] file = "with" -> <<1>>

\* _deploy_key_to_server, outside the lock: the client may have been closed meanwhile.
\* The file is created without waiting for it ("made"); the key is appended only when
\* the count reads 0, and any other output is taken for a key that is already there.
DeployKey(p) ==
    LET s == call[p].server
    IN  /\ At(p, "deploy")
        /\ \/ /\ ~Active(call[p].client)
              /\ UNCHANGED <<keyFile, deployed>>
           \/ /\ Active(call[p].client)
              /\ \E made \in BOOLEAN :
                    LET file == IF made /\ keyFile[s] = "missing" THEN "without" ELSE keyFile[s]
                    IN  IF MarkerCount(file) # <<0>>
                        THEN /\ keyFile' = [keyFile EXCEPT ![s] = file]
                             /\ deployed' = deployed \cup {s}
                        ELSE \/ /\ keyFile' = [keyFile EXCEPT ![s] = "with"]
                                /\ deployed' = deployed \cup {s}
                             \/ UNCHANGED <<keyFile, deployed>>
        /\ Return(p)
        /\ UNCHANGED <<pool, result, age, state, raised, reachable, history>>

(***************************************************************************)
(* disconnect                                                              *)
(***************************************************************************)
\* Mutant of Disconnect: the cache is not cleared.
BugDisconnect(s) ==
    /\ pool[s] # None
    /\ state' = [c \in Client |-> IF c = pool[s] THEN "closed" ELSE state[c]]
    /\ pool' = [pool EXCEPT ![s] = None]
    /\ Record(pool', state')
    /\ UNCHANGED <<result, age, deployed, call, raised, world>>

Disconnect(s) ==
    /\ pool[s] # None \/ result[s] # "none"
    /\ state' = [c \in Client |-> IF c = pool[s] THEN "closed" ELSE state[c]]
    /\ pool' = [pool EXCEPT ![s] = None]
    /\ result' = [result EXCEPT ![s] = "none"]
    /\ age' = [age EXCEPT ![s] = Interval]
    /\ Record(pool', state')
    /\ UNCHANGED <<deployed, call, raised, world>>

(***************************************************************************)
(* is_connected, on its own or as the first step of execute_command        *)
(***************************************************************************)
IsConnected(p, s, execute) ==
    /\ At(p, "idle")
    /\ call' = [call EXCEPT ![p] = Begun("ask", s, execute)]
    /\ raised' = raised \ {p}
    /\ UNCHANGED <<manager, state, world, history>>

Answer(p, connected) ==
    IF call[p].execute /\ connected THEN Goto(p, "client") ELSE Return(p)

\* The unlocked look: the time is taken, and the cache has a young entry or it has not.
AskCache(p) ==
    LET s == call[p].server
    IN  /\ At(p, "ask")
        /\ call' = [call EXCEPT ![p].elapsed = 0,
                      ![p].pc = IF age[s] < Interval /\ result[s] # "none" THEN "hit" ELSE "lock"]
        /\ UNCHANGED <<manager, state, raised, world, history>>

\* The entry is read a second time; disconnect may have removed it in between.
CacheHit(p) ==
    LET s == call[p].server
    IN  /\ At(p, "hit")
        /\ \/ /\ result[s] # "none"
              /\ Answer(p, result[s] = "up")
              /\ UNCHANGED raised
           \/ /\ result[s] = "none"
              /\ Return(p)
              /\ raised' = raised \cup {p}
        /\ UNCHANGED <<manager, state, world, history>>

\* Mutant of Probe: a client in the pool is taken for a connection.
BugProbe(p) ==
    LET s == call[p].server
    IN  /\ At(p, "lock")
        /\ result' = [result EXCEPT ![s] = IF pool[s] # None THEN "up" ELSE "down"]
        /\ age' = [age EXCEPT ![s] = call[p].elapsed]
        /\ Answer(p, pool[s] # None)
        /\ UNCHANGED <<pool, deployed, state, raised, world, history>>

\* Under the lock: the transport is probed and the answer is dated with the time at
\* which the call began.
Probe(p) ==
    LET s == call[p].server
    IN  /\ At(p, "lock")
        /\ result' = [result EXCEPT ![s] = IF Active(pool[s]) THEN "up" ELSE "down"]
        /\ age' = [age EXCEPT ![s] = call[p].elapsed]
        /\ Answer(p, Active(pool[s]))
        /\ UNCHANGED <<pool, deployed, state, raised, world, history>>

(***************************************************************************)
(* The rest of execute_command: the client is fetched without the lock,    *)
(* a missing one or any error of its channel is a failed command.          *)
(***************************************************************************)
FetchClient(p) ==
    LET c == pool[call[p].server]
    IN  /\ At(p, "client")
        /\ IF c = None THEN Return(p)
           ELSE call' = [call EXCEPT ![p].pc = "run", ![p].client = c]
        /\ UNCHANGED <<manager, state, raised, world, history>>

RunCommand(p) ==
    /\ At(p, "run")
    /\ Return(p)
    /\ UNCHANGED <<manager, state, raised, world, history>>

(***************************************************************************)
(* The environment                                                         *)
(***************************************************************************)
\* A connection is lost, with or without its server becoming unreachable.
LoseConnection(c) ==
    /\ state[c] = "open"
    /\ state' = [state EXCEPT ![c] = "lost"]
    /\ Record(pool, state')
    /\ UNCHANGED <<manager, call, raised, world>>

ReachabilityChanges(s) ==
    /\ reachable' = IF s \in reachable THEN reachable \ {s} ELSE reachable \cup {s}
    /\ UNCHANGED <<manager, state, call, raised, keyFile, history>>

Older(a) == IF a < Interval THEN a + 1 ELSE a

Tick ==
    /\ age' = [s \in Server |-> Older(age[s])]
    /\ call' = [p \in Caller |->
                  IF call[p].pc \in {"hit", "lock"}
                  THEN [call[p] EXCEPT !.elapsed = Older(@)] ELSE call[p]]
    /\ sinceUp' = [s \in Server |-> IF Active(pool[s]) THEN 0 ELSE Older(sinceUp[s])]
    /\ sinceDown' = [s \in Server |-> IF Active(pool[s]) THEN Older(sinceDown[s]) ELSE 0]
    /\ UNCHANGED <<pool, result, deployed, state, raised, world>>

Next ==
    \/ \E p \in Caller :
        \/ \E s \in Server : Connect(p, s) \/ IsConnected(p, s, FALSE) \/ IsConnected(p, s, TRUE)
        \/ TryAppKey(p) \/ TryServerKey(p) \/ TryFirstKey(p) \/ TryPassword(p)
        \/ ReplaceClient(p) \/ DeployKey(p)
        \/ AskCache(p) \/ CacheHit(p) \/ Probe(p) \/ FetchClient(p) \/ RunCommand(p)
    \/ \E s \in Server : Disconnect(s) \/ ReachabilityChanges(s)
    \/ \E c \in Client : LoseConnection(c)
    \/ Tick

Spec == Init /\ [][Next]_vars

-----------------------------------------------------------------------------
Call == {c \in [pc : Pc, server : Server \cup {None}, client : Client \cup {None},
                 method : {"none", "app_key", "server_key", "password"},
                 elapsed : 0 .. Interval, execute : BOOLEAN] : c.pc # "idle" => c.server # None}

TypeOK ==
    /\ pool \in [Server -> Client \cup {None}]
    /\ result \in [Server -> {"none", "up", "down"}]
    /\ age \in [Server -> 0 .. Interval]
    /\ deployed \subseteq Server
    /\ state \in [Client -> {"unused", "open", "lost", "closed"}]
    /\ call \in [Caller -> Call]
    /\ \A p \in Caller : call[p].pc \in {"pool", "deploy", "run"} => call[p].client \in Client
    /\ raised \subseteq Caller
    /\ reachable \subseteq Server
    /\ keyFile \in [Server -> {"missing", "without", "with"}]
    /\ sinceUp \in [Server -> 0 .. Interval]
    /\ sinceDown \in [Server -> 0 .. Interval]

\* Every client that has logged in and has not been closed can still be closed: it is in
\* the pool of one server, or a connect that will put it there holds it.  However the
\* logins and disconnects of a server interleave, no connection is leaked.
NoLeakedClient ==
    \A c \in Client : state[c] \in {"open", "lost"} =>
        \/ \E s \in Server : pool[s] = c
        \/ \E p \in Caller : At(p, "pool") /\ call[p].client = c

\* An answer of the cache is never staler than the age it claims, whenever the calls that
\* wrote it waited for the lock: "up" means that the pooled client was alive, and "down"
\* that it was not, at some moment no longer ago than that.
CacheIsHonest ==
    \A s \in Server :
        /\ result[s] = "up" => sinceUp[s] <= age[s]
        /\ result[s] = "down" => sinceDown[s] <= age[s]

\* Once a server has been disconnected nobody is told any more that it is connected,
\* not even by a probe that was under way.
DisconnectIsSeen == \A s \in Server : pool[s] = None => result[s] # "up"

\* What is_connected answers from its cache was true when it claims to have been, and is not
\* answered any more once the server has been disconnected.
StatusIsHonest == CacheIsHonest /\ DisconnectIsSeen

\* The history is that of the pool: it reads no time while the state it counts from lasts.
HistoryIsCurrent ==
    \A s \in Server : IF Active(pool[s]) THEN sinceUp[s] = 0 ELSE sinceDown[s] = 0

\* Only clients that have logged in get into the pool.
PooledWereOpened ==
    /\ \A s \in Server : pool[s] # None => state[pool[s]] # "unused"
    /\ \A p \in Caller : At(p, "pool") => state[call[p].client] # "unused"

\* The inductive invariant behind the three properties.
IInv ==
    /\ TypeOK /\ NoLeakedClient /\ CacheIsHonest /\ DisconnectIsSeen
    /\ HistoryIsCurrent /\ PooledWereOpened

\* "Bagli SSH client uzerinden public key'i sunucuya yukler" (ssh_manager.py:59): a server
\* that the manager counts as having the application key has it.
DeployedKeyIsThere == \A s \in deployed : keyFile[s] = "with"

\* "Thread-safe connection pool" (Emarecloud hafiza.md:499): no call of is_connected
\* raises a KeyError.
NoCallRaises == raised = {}
=============================================================================
