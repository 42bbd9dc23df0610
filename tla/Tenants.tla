------------------------------- MODULE Tenants -------------------------------
(***************************************************************************)
(* The tenants of the firewall service and what belongs to them            *)
(* (emarefirewall/tenants.py, with the /api/isp routes of                  *)
(* emarefirewall/routes.py): servers under a quota, webhooks, alerts,      *)
(* scheduled tasks, CGNAT pools with their mappings, address blocks with   *)
(* their assignments.                                                      *)
(*                                                                         *)
(* There are two stores.  TenantStore is a PostgreSQL database whose       *)
(* tables refer to one another: each method is a transaction, add_server   *)
(* is several.  DictTenantStore keeps dictionaries of the process without  *)
(* a lock: a check and the write after it are two steps, and a row that is *)
(* removed takes nothing with it.  Requests are served by several threads. *)
(* A row is what it belongs to and its key; the other columns are left     *)
(* out, and so are the flags (active, acknowledged) and the API keys,      *)
(* which no route looks at, and the audit trail, which is only appended    *)
(* to.  The port blocks are in Cgnat.                                      *)
(***************************************************************************)
EXTENDS Integers, FiniteSets

CONSTANTS
    Worker,         \* the threads that serve requests
    Server,         \* ids of servers
    Name,           \* names of pools, CIDRs of blocks, addresses
    Plan, Quota,    \* PLAN_LIMITS: max_servers of each plan
    MaxRows,        \* bound: rows that are ever inserted
    None            \* no row

ConstantsAssumption ==
    /\ Quota \in [Plan -> Nat \ {0}]
    /\ IsFiniteSet(Worker) /\ Worker # {}
    /\ MaxRows \in Nat
    /\ None \notin Nat

Id == 1 .. MaxRows

VARIABLES
    store,      \* "postgres" or "memory"
    rows,       \* the tables: a row or None for each id
    used,       \* the number of ids given out
    quota,      \* tenants.max_servers
    op,         \* of each worker: the row it has checked and not yet inserted
    top         \* the greatest quota a tenant has had

vars == <<store, rows, used, quota, op, top>>

TenantTable == {"server", "webhook", "alert", "scheduled", "pool", "block"}
ChildTable == {"mapping", "assignment"}
ParentOf(t) == CASE t = "mapping" -> "pool" [] t = "assignment" -> "block" [] OTHER -> "tenant"

Init ==
    /\ store \in {"postgres", "memory"}
    /\ rows = [i \in Id |-> None]
    /\ used = 0
    /\ quota = [i \in Id |-> 0]
    /\ op = [w \in Worker |-> None]
    /\ top = [i \in Id |-> 0]

-----------------------------------------------------------------------------
RowOf(t, p, k) == [table |-> t, parent |-> p, key |-> k]
Is(i, t) == rows[i] # None /\ rows[i].table = t
OfTable(t) == {i \in Id : Is(i, t)}
Servers(t) == {i \in OfTable("server") : rows[i].parent = t}

\* The UNIQUE constraints of PostgreSQL, the loops and keys of the dictionaries.
Clash(t, p, k) ==
    {i \in OfTable(t) : /\ t \in {"server", "mapping", "pool", "block", "assignment"}
                        /\ rows[i].key = k
                        /\ t \in {"server", "mapping"} => rows[i].parent = p}

\* REFERENCES: in the memory only add_server and allocate_cgnat look.
Refers(t, p) ==
    IF store = "memory" /\ t \notin {"server", "mapping"} THEN TRUE ELSE Is(p, ParentOf(t))

Idle(w) == op[w] = None

\* The next id.
Put(t, p, k) ==
    /\ used < MaxRows
    /\ used' = used + 1
    /\ rows' = [rows EXCEPT ![used + 1] = RowOf(t, p, k)]

-----------------------------------------------------------------------------
CreateTenant(w, plan) ==
    /\ Idle(w)
    /\ Put("tenant", None, None)
    /\ quota' = [quota EXCEPT ![used + 1] = Quota[plan]]
    /\ top' = [top EXCEPT ![used + 1] = Quota[plan]]
    /\ UNCHANGED <<store, op>>

\* A cheaper plan lowers the quota, whatever there is.
UpdateTenant(w, t, plan) ==
    /\ Idle(w) /\ Is(t, "tenant")
    /\ quota' = [quota EXCEPT ![t] = Quota[plan]]
    /\ top' = [top EXCEPT ![t] = IF Quota[plan] > @ THEN Quota[plan] ELSE @]
    /\ UNCHANGED <<store, rows, used, op>>

\* The tables of which the memory, or both stores, make a check before they insert.
Checked(t) == t = "server" \/ (store = "memory" /\ t \in {"mapping", "pool", "block", "assignment"})

\* Mutant of WithinQuota: the row to come is not counted.
BugWithinQuota(t) == Cardinality(Servers(t)) <= quota[t]

WithinQuota(t) == Cardinality(Servers(t)) < quota[t]

\* PostgreSQL finds a server's clash only at the insert.
Check(w, t, p, k) ==
    /\ Idle(w) /\ Checked(t)
    /\ Refers(t, p)
    /\ store = "memory" => Clash(t, p, k) = {}
    /\ t = "server" => WithinQuota(p)
    /\ op' = [op EXCEPT ![w] = RowOf(t, p, k)]
    /\ UNCHANGED <<store, rows, used, quota, top>>

\* The insert alone; one that the database refuses changes nothing.
Add(w, t, p, k) ==
    /\ Idle(w) /\ ~Checked(t)
    /\ Refers(t, p) /\ Clash(t, p, k) = {}
    /\ Put(t, p, k)
    /\ UNCHANGED <<store, quota, op, top>>

Possible(r) ==
    IF store = "postgres" THEN Refers(r.table, r.parent) /\ Clash(r.table, r.parent, r.key) = {}
    ELSE r.table = "server" => Clash(r.table, r.parent, r.key) = {}

\* A server that is put under a key that is there already takes its place.
Insert(w) ==
    /\ ~Idle(w)
    /\ IF Possible(op[w]) THEN Put(op[w].table, op[w].parent, op[w].key) ELSE UNCHANGED <<rows, used>>
    /\ op' = [op EXCEPT ![w] = None]
    /\ UNCHANGED <<store, quota, top>>

-----------------------------------------------------------------------------
Under(S) == {i \in Id : rows[i] # None /\ rows[i].parent \in S}

\* Mutant of Falling: what belongs to a pool or a block stays.
BugFalling(S) == IF store = "memory" THEN S ELSE S \cup Under(S)

\* ON DELETE CASCADE
Falling(S) == IF store = "memory" THEN S ELSE S \cup Under(S) \cup Under(Under(S))

Remove(S) == rows' = [i \in Id |-> IF i \in Falling(S) THEN None ELSE rows[i]]

DeleteTenant(w, t) ==
    /\ Idle(w) /\ Is(t, "tenant")
    /\ Remove({t})
    /\ UNCHANGED <<store, used, quota, op, top>>

\* By id and tenant.
RemoveRow(w, i) ==
    /\ Idle(w) /\ \E t \in {"webhook", "scheduled", "block"} : Is(i, t)
    /\ Remove({i})
    /\ UNCHANGED <<store, used, quota, op, top>>

RemoveServer(w, t, k) ==
    /\ Idle(w) /\ Clash("server", t, k) # {}
    /\ Remove(Clash("server", t, k))
    /\ UNCHANGED <<store, used, quota, op, top>>

\* The memory releases the first it finds.
Release(w, t, p, k) ==
    /\ Idle(w) /\ t \in ChildTable
    /\ LET found == Clash(t, p, k)
       IN  /\ found # {}
           /\ Remove(IF store = "memory" THEN {CHOOSE i \in found : \A j \in found : i <= j} ELSE found)
    /\ UNCHANGED <<store, used, quota, op, top>>

Start(w, t, p, k) == Check(w, t, p, k) \/ Add(w, t, p, k)

AddServer(w, t, k) == Start(w, "server", t, k)
AddWebhook(w, t) == Start(w, "webhook", t, None)
AddAlert(w, t) == Start(w, "alert", t, None)
AddScheduledTask(w, t) == Start(w, "scheduled", t, None)
AddPool(w, t, k) == Start(w, "pool", t, k)
Allocate(w, p, k) == Start(w, "mapping", p, k)
AddBlock(w, t, k) == Start(w, "block", t, k)
AssignIp(w, b, k) == Start(w, "assignment", b, k)

\* What a request may name as a tenant: one that there is or was.
Tenant == {i \in Id : top[i] > 0}

Next ==
    \E w \in Worker :
        \/ \E plan \in Plan : CreateTenant(w, plan) \/ \E t \in Id : UpdateTenant(w, t, plan)
        \/ \E t \in Tenant : AddWebhook(w, t) \/ AddAlert(w, t) \/ AddScheduledTask(w, t)
        \/ \E t \in Tenant : (\E k \in Server : AddServer(w, t, k)) \/ \E k \in Name : AddPool(w, t, k) \/ AddBlock(w, t, k)
        \/ \E i \in 1 .. used, k \in Name : Allocate(w, i, k) \/ AssignIp(w, i, k)
        \/ Insert(w)
        \/ \E i \in Id : DeleteTenant(w, i) \/ RemoveRow(w, i)
        \/ \E i \in Id, k \in Server : RemoveServer(w, i, k)
        \/ \E t \in ChildTable, p \in Id, k \in Name : Release(w, t, p, k)

Spec == Init /\ [][Next]_vars

-----------------------------------------------------------------------------
TenantRow == [table : {"tenant"}, parent : {None}, key : {None}]
OwnedRow == [table : TenantTable \cup ChildTable, parent : Id, key : Server \cup Name \cup {None}]
Row == TenantRow \cup OwnedRow

TypeOK ==
    /\ store \in {"postgres", "memory"}
    /\ rows \in [Id -> Row \cup {None}]
    /\ used \in 0 .. MaxRows
    /\ quota \in [Id -> Nat] /\ top \in [Id -> Nat]
    /\ op \in [Worker -> OwnedRow \cup {None}]

\* The requests that have found the tenant within its quota and not inserted their server yet.
Adding(t) == {w \in Worker : ~Idle(w) /\ op[w].table = "server" /\ op[w].parent = t}

\* Each of them may still add one, so they count as if they had.
RoomForAll ==
    \A t \in Id : Cardinality(Servers(t)) + Cardinality(Adding(t)) <= top[t] + Cardinality(Worker) - 1

IdsAreFresh == \A i \in Id : i > used => rows[i] = None /\ top[i] = 0

QuotaIsBelowTop == \A t \in Id : quota[t] <= top[t]

\* The inductive invariant behind QuotaIsNearlyKept.
IInv == TypeOK /\ RoomForAll /\ IdsAreFresh /\ QuotaIsBelowTop

\* However many requests add servers at a time, whatever the plan is changed to meanwhile and
\* whoever is deleted, a tenant exceeds the largest quota it has had by at most the other
\* requests that had read the count before.
QuotaIsNearlyKept ==
    \A t \in Id : Cardinality(Servers(t)) <= top[t] + Cardinality(Worker) - 1

\* Nothing in the database belongs to a tenant, pool or block that is gone, not even what a
\* request inserts that had found its tenant just before it was deleted.
NoOrphans ==
    store = "postgres" => \A i \in Id :
        rows[i] # None /\ rows[i].table # "tenant" => Is(rows[i].parent, ParentOf(rows[i].table))

\* "Sunucu kotasi doldu" (tenants.py:453): the quota itself, while the plan is not changed.
QuotaIsKept == \A t \in Id : Cardinality(Servers(t)) <= top[t]

\* "CASCADE ile alt kayitlar da silinir" (tenants.py:383): of a tenant that is deleted nothing is
\* left, in either store.
DeletedLeavesNothing ==
    \A i \in Id : rows[i] # None /\ rows[i].table \in TenantTable => Is(rows[i].parent, "tenant")

\* "IP zaten tahsisli." (tenants.py:1754): an address is assigned once, in either store.
OneHolderPerIp ==
    \A i, j \in OfTable("assignment") : rows[i].key = rows[j].key => i = j
=============================================================================
