----------------------------- MODULE SharedCache -----------------------------
(***************************************************************************)
(* The cache that the processes of the firewall service share              *)
(* (emarefirewall/cache.py) and its two users: the rate limiter, a counter *)
(* for each address (routes.py), and the cached status of a server         *)
(* (manager.py).  One address and one server are modelled.                 *)
(*                                                                         *)
(* A RedisCache keeps a DictCache of its own process to fall back on.  A   *)
(* command to Redis may fail before it is executed, or its answer may be   *)
(* lost; after some failures the circuit is open and Redis is left alone   *)
(* for a while.  A process serves one request at a time.                   *)
(***************************************************************************)
EXTENDS Integers, FiniteSets, FiniteSetsExt

CONSTANTS
    Process,
    Limit,          \* rate_limit_per_minute
    Ttl,            \* the minute, and the time a status is cached
    Threshold,      \* _circuit_threshold
    Reset,          \* _circuit_reset_secs
    Longest,        \* a status is read from its server within this time
    MaxNow,         \* bound: the clock
    MaxWorld,       \* bound: changes of the server
    MaxRestarts,    \* bound: restarts of processes
    None

ConstantsAssumption ==
    /\ IsFiniteSet(Process)
    /\ {Limit, Ttl, Threshold} \subseteq Nat \ {0}
    /\ {Reset, Longest, MaxNow, MaxWorld, MaxRestarts} \subseteq Nat

VARIABLES
    clock,
    redis, local,   \* the keys "count" and "status": None or value and end of life
    fails, openUntil,
    world,          \* how often the server was changed
    changed,        \* when it was last changed
    reading,        \* of each process: the status it has read and not cached yet, and when
    deleting,       \* the processes that have changed the server and not deleted its status yet
    passed,         \* how many requests were let through at each time
    restarts

keys == <<redis, local>>
circuit == <<fails, openUntil>>
server == <<world, changed, reading, deleting>>
vars == <<clock, keys, circuit, server, passed, restarts>>

Forever == MaxNow + Ttl + 1
Empty == [count |-> None, status |-> None]

Init ==
    /\ clock = 0
    /\ redis = Empty
    /\ local = [p \in Process |-> Empty]
    /\ fails \in [Process -> {0, Threshold}]
    /\ openUntil = [p \in Process |-> 0]
    /\ world = 0 /\ changed = [v \in 0 .. MaxWorld |-> 0]
    /\ reading = [p \in Process |-> None]
    /\ deleting = {}
    /\ passed = [t \in 0 .. MaxNow |-> 0]
    /\ restarts = 0

-----------------------------------------------------------------------------
\* A half-open circuit lets the next command through.
CircuitOpen(p) == fails[p] >= Threshold /\ clock <= openUntil[p]

\* Below the threshold nobody looks at openUntil.
RecordSuccess(p) ==
    /\ fails' = [fails EXCEPT ![p] = 0]
    /\ openUntil' = [openUntil EXCEPT ![p] = 0]

RecordFailure(p) ==
    /\ fails' = [fails EXCEPT ![p] = IF @ < Threshold THEN @ + 1 ELSE @]
    /\ openUntil' = [openUntil EXCEPT ![p] = IF fails[p] + 1 >= Threshold THEN clock + Reset ELSE @]

LocalLive(e) == e # None /\ clock <= e.until
RedisLive(e) == e # None /\ clock < e.until

\* Mutant of Counted: the count begins anew when the limit is reached.
BugCounted(e, live) ==
    IF live /\ e.value < Limit THEN [e EXCEPT !.value = @ + 1]
    ELSE [value |-> 1, until |-> clock + Ttl]

\* The window begins with its first request.  Beyond the limit all counts are one.
Counted(e, live) ==
    IF live THEN [e EXCEPT !.value = IF @ > Limit THEN @ ELSE @ + 1]
    ELSE [value |-> 1, until |-> clock + Ttl]

LocalCount(p) == Counted(local[p].count, LocalLive(local[p].count))
RedisCount == Counted(redis.count, RedisLive(redis.count))

\* INCR without the EXPIRE that follows the first one.
Unexpiring == [RedisCount EXCEPT !.until = IF RedisLive(redis.count) THEN @ ELSE Forever]

Pass(n) == passed' = IF n <= Limit THEN [passed EXCEPT ![clock] = @ + 1] ELSE passed

CountLocally(p) ==
    /\ local' = [local EXCEPT ![p].count = LocalCount(p)]
    /\ Pass(LocalCount(p).value)

\* incr, and what the limiter makes of it.
Serve(p) ==
    /\ reading[p] = None /\ p \notin deleting
    /\ \/ /\ CircuitOpen(p)
          /\ CountLocally(p)
          /\ UNCHANGED <<redis, circuit>>
       \/ /\ ~CircuitOpen(p)
          /\ redis' = [redis EXCEPT !.count = RedisCount]
          /\ Pass(RedisCount.value)
          /\ RecordSuccess(p)
          /\ UNCHANGED local
       \/ /\ ~CircuitOpen(p)
          /\ \E c \in {redis.count, RedisCount, Unexpiring} : redis' = [redis EXCEPT !.count = c]
          /\ CountLocally(p)
          /\ RecordFailure(p)
    /\ UNCHANGED <<clock, server, restarts>>

-----------------------------------------------------------------------------
Cached(p) == IF LocalLive(local[p].status) THEN local[p].status ELSE None
Shared == IF RedisLive(redis.status) THEN redis.status ELSE None

\* get_status: what is cached is the answer, and nothing else changes but the circuit.
\* Otherwise the server is read.
GetStatus(p) ==
    /\ reading[p] = None /\ p \notin deleting
    /\ \E found \in {Cached(p), Shared} :
        /\ \/ CircuitOpen(p) /\ found = Cached(p) /\ UNCHANGED circuit
           \/ ~CircuitOpen(p) /\ found = Shared /\ RecordSuccess(p)
           \/ ~CircuitOpen(p) /\ found = Cached(p) /\ RecordFailure(p)
        /\ reading' = IF found = None THEN [reading EXCEPT ![p] = [value |-> world, at |-> clock]] ELSE reading
    /\ UNCHANGED <<clock, keys, world, changed, deleting, passed, restarts>>

\* A write through Redis: not tried, done, or failed before or after it was done.
Write(p, key, entry) ==
    \/ CircuitOpen(p) /\ UNCHANGED <<redis, circuit>>
    \/ ~CircuitOpen(p) /\ redis' = [redis EXCEPT ![key] = entry] /\ RecordSuccess(p)
    \/ ~CircuitOpen(p) /\ redis' \in {redis, [redis EXCEPT ![key] = entry]} /\ RecordFailure(p)

\* set
SetStatus(p) ==
    LET entry == [value |-> reading[p].value, until |-> clock + Ttl]
    IN  /\ reading[p] # None
        /\ local' = [local EXCEPT ![p].status = entry]
        /\ Write(p, "status", entry)
        /\ reading' = [reading EXCEPT ![p] = None]
        /\ UNCHANGED <<clock, world, changed, deleting, passed, restarts>>

\* A command that changes the server, and then _invalidate_cache.
Change(p) ==
    /\ reading[p] = None /\ p \notin deleting
    /\ world < MaxWorld
    /\ world' = world + 1
    /\ changed' = [changed EXCEPT ![world] = clock]
    /\ deleting' = deleting \cup {p}
    /\ UNCHANGED <<clock, keys, circuit, reading, passed, restarts>>

Invalidate(p) ==
    /\ p \in deleting
    /\ local' = [local EXCEPT ![p].status = None]
    /\ Write(p, "status", None)
    /\ deleting' = deleting \ {p}
    /\ UNCHANGED <<clock, world, changed, reading, passed, restarts>>

-----------------------------------------------------------------------------
\* A process ends, perhaps between INCR and EXPIRE, and starts anew; its ping may fail.
Restart(p) ==
    /\ restarts < MaxRestarts
    /\ restarts' = restarts + 1
    /\ redis' \in {redis, [redis EXCEPT !.count = Unexpiring]}
    /\ local' = [local EXCEPT ![p] = Empty]
    /\ fails' \in {[fails EXCEPT ![p] = n] : n \in {0, Threshold}}
    /\ openUntil' = [openUntil EXCEPT ![p] = 0]
    /\ reading' = [reading EXCEPT ![p] = None]
    /\ deleting' = deleting \ {p}
    /\ UNCHANGED <<clock, world, changed, passed>>

\* No call lasts longer than Longest.
Tick ==
    /\ clock < MaxNow
    /\ \A p \in Process : reading[p] # None => clock - reading[p].at < Longest
    /\ deleting = {}
    /\ clock' = clock + 1
    /\ UNCHANGED <<keys, circuit, server, passed, restarts>>

\* The two users, each of which meets the circuit in any state.
LimiterNext == Tick \/ \E p \in Process : Serve(p) \/ Restart(p)
StatusNext ==
    Tick \/ \E p \in Process : GetStatus(p) \/ SetStatus(p) \/ Change(p) \/ Invalidate(p) \/ Restart(p)

Next == LimiterNext \/ StatusNext

Spec == Init /\ [][Next]_vars

-----------------------------------------------------------------------------
\* Whatever fails, the requests of an address that are let through within a minute are fewer than
\* twice the limit for Redis and for each process, and one limit for each restart.
RateIsBounded ==
    \A t \in 0 .. MaxNow :
        MapThenSumSet(LAMBDA s : passed[s], {s \in 0 .. MaxNow : t <= s /\ s < t + Ttl})
            <= (2 * Limit - 1) * (1 + Cardinality(Process)) + Limit * restarts

\* What get may answer.
Servable(p) == {Cached(p), Shared} \ {None}

\* Whatever write or deletion fails to reach Redis or another process, a status that a change has
\* made untrue is shown for no longer than it is cached, and the time it was read in, after it.
StaleIsBounded ==
    \A p \in Process : \A e \in Servable(p) :
        e.value < world => clock - changed[e.value] <= Ttl + Longest

\* Both uses of the cache stay within their bounds, whatever Redis loses.
CacheIsBounded == RateIsBounded /\ StaleIsBounded

\* "Dakika basina izin verilen istek sayisi" (routes.py:88): who has used up a minute may ask again
\* in another one: no counter lives longer.
LimitEnds == redis.count # None => redis.count.until <= clock + Ttl

\* "Durum ve L7 cache'ini temizle (yazma islemlerinden sonra cagrilir)" (manager.py:275): when
\* nobody is at work nothing is shown from before the last change.
InvalidatedIsGone ==
    deleting = {} /\ (\A p \in Process : reading[p] = None)
        => \A p \in Process : \A e \in Servable(p) : e.value = world

\* "Dakika basina izin verilen istek sayisi" (routes.py:88): in any minute.
LimitIsPerMinute ==
    \A t \in 0 .. MaxNow :
        MapThenSumSet(LAMBDA s : passed[s], {s \in 0 .. MaxNow : t <= s /\ s < t + Ttl}) <= Limit
=============================================================================
