------------------------------- MODULE Cgnat -------------------------------
(***************************************************************************)
(* The allocation of port blocks to the subscribers of a carrier grade NAT *)
(* pool (allocate_cgnat and release_cgnat in emarefirewall/tenants.py).    *)
(*                                                                         *)
(* Each request runs on a connection of its own at PostgreSQL's default    *)
(* isolation level: every SELECT of allocate_cgnat sees what was committed *)
(* before it, and the statements of several requests interleave.  One pool *)
(* is modelled: no statement relates two of them.  A block is named by its *)
(* first port.                                                             *)
(***************************************************************************)
EXTENDS Integers, FiniteSets

CONSTANTS
    Request,        \* workers that serve a request at a time
    Subscriber,
    PortStart,      \* port_start
    PortEnd,        \* port_end
    PerSubscriber,  \* ports_per_subscriber
    None            \* no block, no subscriber

ASSUME PortAssumption ==
    /\ PortStart \in Nat /\ PortEnd \in Nat
    /\ PerSubscriber \in Nat \ {0}
    /\ None \notin Subscriber /\ None \notin Int

ASSUME SubscriberAssumption == IsFiniteSet(Subscriber)

VARIABLES
    block,      \* cgnat_mappings: the block of each subscriber
    pc,         \* the statement each request comes to next
    subscriber, \* the subscriber it is for
    count       \* the number of mappings it has read

vars == <<block, pc, subscriber, count>>

\* total_slots: a remainder of ports at the end of the range is not used.
TotalSlots == (PortEnd - PortStart + 1) \div PerSubscriber

Mapped == {s \in Subscriber : block[s] # None}

BlockAt(n) == PortStart + n * PerSubscriber

Init ==
    /\ block = [s \in Subscriber |-> None]
    /\ pc = [r \in Request |-> "idle"]
    /\ subscriber = [r \in Request |-> None]
    /\ count = [r \in Request |-> 0]

Answer(r) ==
    /\ pc' = [pc EXCEPT ![r] = "idle"]
    /\ subscriber' = [subscriber EXCEPT ![r] = None]
    /\ count' = [count EXCEPT ![r] = 0]

\* The subscriber has no block yet.  (If it has, that is the answer.)
Look(r, s) ==
    /\ pc[r] = "idle" /\ block[s] = None
    /\ pc' = [pc EXCEPT ![r] = "counting"]
    /\ subscriber' = [subscriber EXCEPT ![r] = s]
    /\ UNCHANGED <<block, count>>

\* Mutant of IsFull: the comparison is strict.
BugIsFull(n) == n > TotalSlots

IsFull(n) == n >= TotalSlots

\* SELECT COUNT(*): the pool is full, or its next block is the one after that many.
Count(r, n) ==
    /\ pc[r] = "counting"
    /\ IF IsFull(n)
       THEN Answer(r)
       ELSE /\ pc' = [pc EXCEPT ![r] = "inserting"]
            /\ count' = [count EXCEPT ![r] = n]
            /\ UNCHANGED subscriber
    /\ UNCHANGED block

\* Mutant of Insert: a mapping that exists already is written over.
BugInsert(r) ==
    /\ pc[r] = "inserting"
    /\ block' = [block EXCEPT ![subscriber[r]] = BlockAt(count[r])]
    /\ Answer(r)

\* UNIQUE(pool_id, subscriber_ip) rejects a second mapping, which is rolled back.
Insert(r) ==
    /\ pc[r] = "inserting"
    /\ block' = IF block[subscriber[r]] = None
                THEN [block EXCEPT ![subscriber[r]] = BlockAt(count[r])]
                ELSE block
    /\ Answer(r)

\* release_cgnat
Release(s) ==
    /\ block[s] # None
    /\ block' = [block EXCEPT ![s] = None]
    /\ UNCHANGED <<pc, subscriber, count>>

RequestStep(r) ==
    \/ \E s \in Subscriber : Look(r, s)
    \/ Count(r, Cardinality(Mapped))
    \/ Insert(r)

Next ==
    \/ \E r \in Request : RequestStep(r)
    \/ \E s \in Subscriber : Release(s)

Spec == Init /\ [][Next]_vars

-----------------------------------------------------------------------------
TypeOK ==
    /\ block \in [Subscriber -> Nat \cup {None}]
    /\ pc \in [Request -> {"idle", "counting", "inserting"}]
    /\ subscriber \in [Request -> Subscriber \cup {None}]
    /\ count \in [Request -> Nat]
    /\ \A r \in Request : (pc[r] = "idle") <=> (subscriber[r] = None)

\* However the requests interleave, no subscriber is given ports outside the range of
\* the pool: the count a block is computed from may be stale, but was below the capacity.
BlocksAreInThePool ==
    \A s \in Subscriber : block[s] # None =>
        PortStart <= block[s] /\ block[s] + PerSubscriber - 1 <= PortEnd

\* What a request that is about to insert knows.
CountIsBelowCapacity ==
    \A r \in Request : pc[r] = "inserting" => count[r] < TotalSlots

IInv == TypeOK /\ BlocksAreInThePool /\ CountIsBelowCapacity

\* A subscriber keeps its block until it is released: concurrent requests for the same
\* subscriber do not move it to another one.
BlockIsKept ==
    [][\A s \in Subscriber : block[s] # None => block'[s] \in {block[s], None}]_vars

\* "Sonraki port blogu" (emarefirewall/tenants.py:1044): the block a subscriber is given
\* is not that of another one.
BlocksAreDisjoint ==
    \A s, t \in Subscriber : s # t /\ block[s] # None => block[s] # block[t]
=============================================================================
