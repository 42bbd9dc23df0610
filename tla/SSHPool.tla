------------------------------- MODULE SSHPool -------------------------------
(***************************************************************************)
(* The connection pool of the firewall library (emarefirewall/ssh.py,      *)
(* ParamikoExecutor), for one server.  connect makes a pool with a first   *)
(* client and a semaphore of _pool_size permits; execute takes a permit    *)
(* and a client, runs a command and gives both back; disconnect drops the  *)
(* pool and its semaphore.                                                 *)
(*                                                                         *)
(* _connect_lock covers connect, the taking and the putting back of a      *)
(* client; the dictionaries _pools and _locks are read outside it, so that *)
(* a thread may hold the semaphore of one connect and the pool of another. *)
(* Pools and semaphores are numbered by the connect that made them.        *)
(***************************************************************************)
EXTENDS Naturals, FiniteSets

CONSTANTS
    Thread,         \* callers of the executor
    Client,         \* SSHClient objects: bounds how many are created
    None,           \* no thread, no client, no pool
    PoolSize,       \* _pool_size
    MaxConnects,    \* bound: successful connects
    MaxDisconnects  \* bound: disconnects

ConstantsAssumption ==
    /\ PoolSize \in Nat \ {0}
    /\ MaxConnects \in Nat /\ MaxDisconnects \in Nat
    /\ None \notin Thread \cup Client \cup Nat
    /\ IsFiniteSet(Thread)

VARIABLES
    configured,  \* the server is in _servers
    currentPool, \* _pools.get(server_id)
    currentSem,  \* _locks.get(server_id)
    idle,        \* the clients in each pool
    permits,     \* the value of each semaphore
    state,       \* the life of each client
    lock,        \* the holder of _connect_lock
    pc,          \* where each thread stands
    client,      \* the client each thread uses
    pool,        \* the pool each thread looked up
    sem,         \* the semaphore each thread looked up
    connects,    \* connects that succeeded, which numbers pools and semaphores
    disconnects

server == <<configured, currentPool, currentSem>>
local == <<client, pool, sem>>
counters == <<connects, disconnects>>
vars == <<server, idle, permits, state, lock, pc, local, counters>>

Generation == 1 .. MaxConnects
Pc == {"idle", "connecting", "newSemaphore", "lookSem", "acquire", "lookPool", "take", "run",
       "putPool", "putSem", "append", "release", "errorSem", "closing"}

Init ==
    /\ configured = FALSE
    /\ currentPool = None
    /\ currentSem = None
    /\ idle = [g \in Generation |-> {}]
    /\ permits = [g \in Generation |-> 0]
    /\ state = [c \in Client |-> "unused"]
    /\ lock = None
    /\ pc = [t \in Thread |-> "idle"]
    /\ client = [t \in Thread |-> None]
    /\ pool = [t \in Thread |-> None]
    /\ sem = [t \in Thread |-> None]
    /\ connects = 0
    /\ disconnects = 0

Goto(t, from, to) == pc[t] = from /\ pc' = [pc EXCEPT ![t] = to]
Return(t, from) == Goto(t, from, "idle")
Forget(t) ==
    /\ client' = [client EXCEPT ![t] = None]
    /\ pool' = [pool EXCEPT ![t] = None]
    /\ sem' = [sem EXCEPT ![t] = None]

(***************************************************************************)
(* connect, under _connect_lock from beginning to end                      *)
(***************************************************************************)
Connect(t) ==
    /\ connects < MaxConnects
    /\ lock = None
    /\ lock' = t
    /\ Goto(t, "idle", "connecting")
    /\ configured' = TRUE
    /\ UNCHANGED <<currentPool, currentSem, idle, permits, state, local, counters>>

\* _create_client raises: the new configuration stays.
ConnectFails(t) ==
    /\ Return(t, "connecting")
    /\ lock' = None
    /\ UNCHANGED <<server, idle, permits, state, local, counters>>

\* The first client is put in a new pool, which replaces the old one as it is.
NewPool(t) ==
    /\ Goto(t, "connecting", "newSemaphore")
    /\ connects' = connects + 1
    /\ \E c \in Client :
        /\ state[c] = "unused"
        /\ state' = [state EXCEPT ![c] = "open"]
        /\ idle' = [idle EXCEPT ![connects + 1] = {c}]
    /\ currentPool' = connects + 1
    /\ UNCHANGED <<configured, currentSem, permits, lock, local, disconnects>>

NewSemaphore(t) ==
    /\ Return(t, "newSemaphore")
    /\ currentSem' = connects
    /\ permits' = [permits EXCEPT ![connects] = PoolSize]
    /\ lock' = None
    /\ UNCHANGED <<configured, currentPool, idle, state, local, counters>>

(***************************************************************************)
(* execute, which begins with _acquire_client                              *)
(***************************************************************************)
Execute(t) ==
    /\ configured
    /\ Goto(t, "idle", "lookSem")
    /\ UNCHANGED <<server, idle, permits, state, lock, local, counters>>

LookUpSemaphore(t) ==
    /\ pc[t] = "lookSem"
    /\ sem' = [sem EXCEPT ![t] = currentSem]
    /\ pc' = [pc EXCEPT ![t] = IF currentSem = None THEN "idle" ELSE "acquire"]
    /\ UNCHANGED <<server, idle, permits, state, lock, client, pool, counters>>

\* sem.acquire() has no timeout.
AcquirePermit(t) ==
    /\ Goto(t, "acquire", "lookPool")
    /\ permits[sem[t]] > 0
    /\ permits' = [permits EXCEPT ![sem[t]] = @ - 1]
    /\ UNCHANGED <<server, idle, state, lock, local, counters>>

LookUpPool(t) ==
    /\ pc[t] = "lookPool"
    /\ IF currentPool = None
       THEN /\ pc' = [pc EXCEPT ![t] = "idle"]
            /\ permits' = [permits EXCEPT ![sem[t]] = @ + 1]
            /\ Forget(t)
       ELSE /\ pc' = [pc EXCEPT ![t] = "take"]
            /\ pool' = [pool EXCEPT ![t] = currentPool]
            /\ UNCHANGED <<permits, client, sem>>
    /\ UNCHANGED <<server, idle, state, lock, counters>>

\* Mutant of TakeIdle: the client is looked at, not popped.
BugTakeIdle(t) ==
    /\ Goto(t, "take", "run")
    /\ lock = None
    /\ \E c \in idle[pool[t]] :
        /\ state[c] = "open"
        /\ client' = [client EXCEPT ![t] = c]
    /\ UNCHANGED <<server, idle, permits, state, lock, pool, sem, counters>>

\* Clients are popped until one is active; the others are closed.
TakeIdle(t) ==
    /\ Goto(t, "take", "run")
    /\ lock = None
    /\ \E c \in idle[pool[t]], dead \in SUBSET idle[pool[t]] :
        /\ state[c] = "open"
        /\ \A d \in dead : state[d] # "open"
        /\ client' = [client EXCEPT ![t] = c]
        /\ idle' = [idle EXCEPT ![pool[t]] = @ \ (dead \cup {c})]
        /\ state' = [d \in Client |-> IF d \in dead THEN "closed" ELSE state[d]]
    /\ UNCHANGED <<server, permits, lock, pool, sem, counters>>

\* No active client is left in the pool: all are closed and one is created, if the
\* server is still configured and accepts it.
CreateClient(t) ==
    /\ pc[t] = "take"
    /\ lock = None
    /\ \A c \in idle[pool[t]] : state[c] # "open"
    /\ idle' = [idle EXCEPT ![pool[t]] = {}]
    /\ LET closed == [d \in Client |-> IF d \in idle[pool[t]] THEN "closed" ELSE state[d]]
       IN  \/ /\ configured
              /\ \E c \in Client :
                    /\ state[c] = "unused"
                    /\ state' = [closed EXCEPT ![c] = "open"]
                    /\ client' = [client EXCEPT ![t] = c]
              /\ pc' = [pc EXCEPT ![t] = "run"]
              /\ UNCHANGED <<permits, pool, sem>>
           \/ /\ state' = closed
              /\ permits' = [permits EXCEPT ![sem[t]] = @ + 1]
              /\ pc' = [pc EXCEPT ![t] = "idle"]
              /\ Forget(t)
    /\ UNCHANGED <<server, lock, counters>>

\* Mutant of Run: a client whose connection failed is dropped without being closed.
BugRun(t) ==
    /\ pc[t] = "run"
    /\ \/ /\ state[client[t]] = "open"
          /\ pc' = [pc EXCEPT ![t] = "putPool"]
          /\ UNCHANGED client
       \/ /\ pc' = [pc EXCEPT ![t] = "errorSem"]
          /\ client' = [client EXCEPT ![t] = None]
    /\ UNCHANGED <<server, idle, permits, state, lock, pool, sem, counters>>

\* The command ends, or its connection fails and the client is closed.
Run(t) ==
    /\ pc[t] = "run"
    /\ \/ /\ state[client[t]] = "open"
          /\ pc' = [pc EXCEPT ![t] = "putPool"]
          /\ UNCHANGED <<state, client>>
       \/ /\ pc' = [pc EXCEPT ![t] = "errorSem"]
          /\ state' = [state EXCEPT ![client[t]] = "closed"]
          /\ client' = [client EXCEPT ![t] = None]
    /\ UNCHANGED <<server, idle, permits, lock, pool, sem, counters>>

(***************************************************************************)
(* _release_client: the pool and the semaphore are looked up again         *)
(***************************************************************************)
PutPool(t) ==
    /\ Goto(t, "putPool", "putSem")
    /\ pool' = [pool EXCEPT ![t] = currentPool]
    /\ UNCHANGED <<server, idle, permits, state, lock, client, sem, counters>>

PutSemaphore(t) ==
    /\ Goto(t, "putSem", "append")
    /\ sem' = [sem EXCEPT ![t] = currentSem]
    /\ UNCHANGED <<server, idle, permits, state, lock, client, pool, counters>>

\* Without a pool to go back to, the client is left open with nobody to close it.
Append(t) ==
    /\ Goto(t, "append", "release")
    /\ IF pool[t] = None
       THEN UNCHANGED idle
       ELSE lock = None /\ idle' = [idle EXCEPT ![pool[t]] = @ \cup {client[t]}]
    /\ client' = [client EXCEPT ![t] = None]
    /\ UNCHANGED <<server, permits, state, lock, pool, sem, counters>>

ErrorSemaphore(t) ==
    /\ Goto(t, "errorSem", "release")
    /\ sem' = [sem EXCEPT ![t] = currentSem]
    /\ UNCHANGED <<server, idle, permits, state, lock, client, pool, counters>>

ReleasePermit(t) ==
    /\ Return(t, "release")
    /\ IF sem[t] = None
       THEN UNCHANGED permits
       ELSE permits' = [permits EXCEPT ![sem[t]] = @ + 1]
    /\ Forget(t)
    /\ UNCHANGED <<server, idle, state, lock, counters>>

(***************************************************************************)
(* disconnect: the entries go under the lock, the clients are closed after *)
(***************************************************************************)
Disconnect(t) ==
    /\ disconnects < MaxDisconnects
    /\ lock = None
    /\ currentPool # None
    /\ Goto(t, "idle", "closing")
    /\ pool' = [pool EXCEPT ![t] = currentPool]
    /\ configured' = FALSE
    /\ currentPool' = None
    /\ currentSem' = None
    /\ disconnects' = disconnects + 1
    /\ UNCHANGED <<idle, permits, state, lock, client, sem, connects>>

CloseClients(t) ==
    /\ Return(t, "closing")
    /\ state' = [c \in Client |-> IF c \in idle[pool[t]] THEN "closed" ELSE state[c]]
    /\ Forget(t)
    /\ UNCHANGED <<server, idle, permits, lock, counters>>

\* The network drops a connection.
LoseConnection(c) ==
    /\ state[c] = "open"
    /\ state' = [state EXCEPT ![c] = "lost"]
    /\ UNCHANGED <<server, idle, permits, lock, pc, local, counters>>

Step(t) ==
    \/ ConnectFails(t) \/ NewPool(t) \/ NewSemaphore(t)
    \/ LookUpSemaphore(t) \/ AcquirePermit(t) \/ LookUpPool(t) \/ TakeIdle(t) \/ CreateClient(t)
    \/ Run(t) \/ PutPool(t) \/ PutSemaphore(t) \/ Append(t) \/ ErrorSemaphore(t) \/ ReleasePermit(t)
    \/ CloseClients(t)

Next ==
    \/ \E t \in Thread : Connect(t) \/ Execute(t) \/ Disconnect(t) \/ Step(t)
    \/ \E c \in Client : LoseConnection(c)

\* A thread in the middle of a call is scheduled; when several compete for a lock or a
\* permit each of them gets it in the end.  Nobody has to begin a call.
Spec == Init /\ [][Next]_vars /\ \A t \in Thread : SF_vars(Step(t))

-----------------------------------------------------------------------------
\* The threads that hold a permit, taken from some semaphore and not yet given back.
Holders ==
    {t \in Thread : pc[t] \in {"lookPool", "take", "run", "putPool", "putSem", "append",
                               "release", "errorSem"}}

\* The permits that nobody holds, each semaphore's numbered from 1.
Permits == UNION {{g} \X (1 .. permits[g]) : g \in Generation}

InUse == {client[t] : t \in Thread} \ {None}
Open == {c \in Client : state[c] \in {"open", "lost"}}

TypeOK ==
    /\ configured \in BOOLEAN
    /\ currentPool \in Generation \cup {None}
    /\ currentSem \in Generation \cup {None}
    /\ idle \in [Generation -> SUBSET Client]
    /\ permits \in [Generation -> Nat]
    /\ state \in [Client -> {"unused", "open", "lost", "closed"}]
    /\ lock \in Thread \cup {None}
    /\ pc \in [Thread -> Pc]
    /\ client \in [Thread -> Client \cup {None}]
    /\ pool \in [Thread -> Generation \cup {None}]
    /\ sem \in [Thread -> Generation \cup {None}]
    /\ connects \in 0 .. MaxConnects
    /\ disconnects \in 0 .. MaxDisconnects
    /\ \A t \in Thread : pc[t] \in {"take", "closing"} => pool[t] # None
    /\ \A t \in Thread : pc[t] \in {"run", "putPool", "putSem", "append"} => client[t] # None

\* Two commands never share a client, and a client in use is in no pool: whatever pool it
\* was taken from and whatever pool it is put back into after a reconnect.
ExclusiveUse ==
    /\ \A t, u \in Thread : client[t] = client[u] /\ client[t] # None => t = u
    /\ \A g, h \in Generation : g # h => idle[g] \cap idle[h] = {}
    /\ \A g \in Generation : idle[g] \cap InUse = {}

\* Permits move from one semaphore to another, but are never made: together with the threads
\* that hold one there are at most PoolSize of them for each connect.  And as long as nobody
\* disconnects none is lost, whichever semaphore a thread finds at the end of its command,
\* and whether the command failed or not: a thread that waits waits for one that has a permit.
PermitsAreKept ==
    /\ Cardinality(Permits) + Cardinality(Holders) <= PoolSize * connects
    /\ disconnects = 0 /\ currentSem # None
         => Cardinality(Permits) + Cardinality(Holders) = PoolSize * currentSem

\* As long as a server has been connected once and never disconnected, it has no more open
\* connections than the pool allows.
BoundedUntilReconnect ==
    connects <= 1 /\ disconnects = 0 => Cardinality(Open) <= PoolSize

\* The permits, and through them the connections, are as many as the pool was made for.
PermitsBound == PermitsAreKept /\ BoundedUntilReconnect

\* "pool_size=N -> Sunucu basina N baglanti havuzu" (ssh.py:38): N connections per server.
PoolSizeIsRespected == Cardinality(InUse) <= PoolSize

\* Every command that has been begun returns.
CommandsReturn == \A t \in Thread : (pc[t] = "acquire") ~> (pc[t] = "idle")
=============================================================================
