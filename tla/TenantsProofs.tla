--------------------------- MODULE TenantsProofs ---------------------------
(***************************************************************************)
(* Proofs about the parts of MCStores.  First by how much a tenant can     *)
(* exceed its quota of servers, for any number of requests at a time,      *)
(* tenants and rows, and either store: the count a request has read may be *)
(* out of date when it inserts; the argument is that the requests that     *)
(* have read it are counted with the rows.  Then the data centres, the     *)
(* accounts, the static sites, the log and the responses to alarms, each   *)
(* with an invariant of its own, explained where its section begins.       *)
(***************************************************************************)
EXTENDS MCStores, Sequences, FiniteSetTheorems, WellFoundedInduction, TLAPS

\* The sets that are counted are finite.
LEMMA CountsAreNumbers ==
  ASSUME ConstantsAssumption, NEW S \in SUBSET Id, NEW W \in SUBSET Worker
  PROVE  /\ IsFiniteSet(S) /\ Cardinality(S) \in Nat
         /\ IsFiniteSet(W) /\ Cardinality(W) \in Nat /\ Cardinality(W) <= Cardinality(Worker)
         /\ Cardinality(Worker) \in Nat /\ Cardinality(Worker) >= 1
<1>1. IsFiniteSet(Id) /\ IsFiniteSet(Worker)
  BY FS_Interval DEF Id, ConstantsAssumption
<1>2. IsFiniteSet(S) /\ IsFiniteSet(W) /\ Cardinality(W) <= Cardinality(Worker)
  BY <1>1, FS_Subset
<1>3. Cardinality(Worker) # 0
  BY <1>1, FS_EmptySet DEF ConstantsAssumption
<1> QED
  BY <1>1, <1>2, <1>3, FS_CardinalityType

\* Where no server and no request is added, there is room as before.
LEMMA RoomIsKept ==
  ASSUME ConstantsAssumption, IInv, TypeOK', NEW t \in Id,
         Servers(t)' \subseteq Servers(t), Adding(t)' \subseteq Adding(t), top'[t] >= top[t]
  PROVE  Cardinality(Servers(t)') + Cardinality(Adding(t)') <= top'[t] + Cardinality(Worker) - 1
<1>1. Servers(t) \in SUBSET Id /\ Adding(t) \in SUBSET Worker
  BY DEF Servers, OfTable, Adding
<1>2. /\ Cardinality(Servers(t)') <= Cardinality(Servers(t))
      /\ Cardinality(Adding(t)') <= Cardinality(Adding(t))
  BY <1>1, CountsAreNumbers, FS_Subset
<1>3. /\ Cardinality(Servers(t)) \in Nat /\ Cardinality(Adding(t)) \in Nat
      /\ Cardinality(Servers(t)') \in Nat /\ Cardinality(Adding(t)') \in Nat
      /\ Cardinality(Worker) \in Nat
  BY <1>1, CountsAreNumbers
<1>4. top[t] \in Nat /\ top'[t] \in Nat
  BY DEF IInv, TypeOK
<1> QED
  BY <1>2, <1>3, <1>4 DEF IInv, RoomForAll

\* A row takes an id of its own; the others stay.
LEMMA PutType ==
  ASSUME ConstantsAssumption, TypeOK,
         NEW t, NEW p, NEW k, RowOf(t, p, k) \in Row, Put(t, p, k)
  PROVE  /\ used' \in 0 .. MaxRows /\ used' = used + 1 /\ used + 1 \in Id
         /\ rows' \in [Id -> Row \cup {None}]
         /\ rows'[used + 1] = RowOf(t, p, k)
         /\ \A i \in Id \ {used + 1} : rows'[i] = rows[i]
<1>1. used + 1 \in Id
  BY DEF Put, TypeOK, Id, ConstantsAssumption
<1> QED
  BY <1>1 DEF Put, TypeOK, ConstantsAssumption

\* What is removed leaves the rows that stay as they are.
LEMMA RemoveType ==
  ASSUME TypeOK, NEW S, Remove(S)
  PROVE  /\ rows' \in [Id -> Row \cup {None}]
         /\ \A i \in Id : rows'[i] # None => rows'[i] = rows[i]
  BY DEF Remove, TypeOK

LEMMA InitIInv ==
  ASSUME ConstantsAssumption, Init
  PROVE  IInv
<1>1. TypeOK
  BY DEF Init, TypeOK, ConstantsAssumption
<1>2. IdsAreFresh /\ QuotaIsBelowTop
  BY DEF Init, IdsAreFresh, QuotaIsBelowTop
<1>3. RoomForAll
  <2> SUFFICES ASSUME NEW t \in Id
               PROVE  Cardinality(Servers(t)) + Cardinality(Adding(t)) <= top[t] + Cardinality(Worker) - 1
    BY DEF RoomForAll
  <2>1. Servers(t) = {} /\ Adding(t) = {} /\ top[t] = 0
    BY DEF Init, Servers, OfTable, Is, Adding, Idle
  <2> QED
    BY <2>1, CountsAreNumbers, FS_EmptySet
<1> QED
  BY <1>1, <1>2, <1>3 DEF IInv

\* A new tenant has no quota before, and none of its requests has been admitted.
LEMMA CreateIInv ==
  ASSUME ConstantsAssumption, IInv, NEW w \in Worker, NEW plan \in Plan, CreateTenant(w, plan)
  PROVE  IInv'
<1>1. /\ used' \in 0 .. MaxRows /\ used' = used + 1 /\ used + 1 \in Id
      /\ rows' \in [Id -> Row \cup {None}] /\ rows'[used + 1] = RowOf("tenant", None, None)
      /\ \A i \in Id \ {used + 1} : rows'[i] = rows[i]
  <2>1. RowOf("tenant", None, None) \in Row
    BY DEF RowOf, Row, TenantRow
  <2> QED
    BY <2>1, PutType DEF CreateTenant, IInv
<1>2. Quota[plan] \in Nat
  BY DEF ConstantsAssumption
<1>3. TypeOK'
  BY <1>1, <1>2 DEF CreateTenant, IInv, TypeOK
<1>4. IdsAreFresh' /\ QuotaIsBelowTop'
  BY <1>1, <1>2 DEF CreateTenant, IInv, TypeOK, IdsAreFresh, QuotaIsBelowTop, Id
<1>5. ASSUME NEW t \in Id
      PROVE  Cardinality(Servers(t)') + Cardinality(Adding(t)') <= top'[t] + Cardinality(Worker) - 1
  <2>1. top'[t] >= top[t]
    BY <1>1, <1>2 DEF CreateTenant, IInv, TypeOK, IdsAreFresh, Id
  <2>2. Servers(t)' \subseteq Servers(t)
    BY <1>1 DEF Servers, OfTable, Is, RowOf
  <2>3. Adding(t)' \subseteq Adding(t)
    BY DEF CreateTenant, Adding, Idle
  <2> QED
    BY <1>3, <2>1, <2>2, <2>3, RoomIsKept
<1> QED
  BY <1>3, <1>4, <1>5 DEF IInv, RoomForAll

LEMMA UpdateIInv ==
  ASSUME ConstantsAssumption, IInv, NEW w \in Worker, NEW t \in Id, NEW plan \in Plan,
         UpdateTenant(w, t, plan)
  PROVE  IInv'
<1>1. Quota[plan] \in Nat /\ rows[t] # None
  BY DEF ConstantsAssumption, UpdateTenant, Is
<1>2. TypeOK'
  BY <1>1 DEF UpdateTenant, IInv, TypeOK
<1>3. IdsAreFresh' /\ QuotaIsBelowTop'
  BY <1>1 DEF UpdateTenant, IInv, TypeOK, IdsAreFresh, QuotaIsBelowTop, Id
<1>4. ASSUME NEW s \in Id
      PROVE  Cardinality(Servers(s)') + Cardinality(Adding(s)') <= top'[s] + Cardinality(Worker) - 1
  <2>1. top'[s] >= top[s]
    BY <1>1 DEF UpdateTenant, IInv, TypeOK
  <2>2. Servers(s)' \subseteq Servers(s) /\ Adding(s)' \subseteq Adding(s)
    BY DEF UpdateTenant, Servers, OfTable, Is, Adding, Idle
  <2> QED
    BY <1>2, <2>1, <2>2, RoomIsKept
<1> QED
  BY <1>2, <1>3, <1>4 DEF IInv, RoomForAll

\* A request that has found the tenant within its quota counts from then on.
LEMMA CheckIInv ==
  ASSUME ConstantsAssumption, IInv, NEW w \in Worker,
         NEW t \in TenantTable \cup ChildTable, NEW p \in Id, NEW k \in Server \cup Name \cup {None},
         Check(w, t, p, k)
  PROVE  IInv'
<1>1. RowOf(t, p, k) \in OwnedRow
  BY DEF RowOf, OwnedRow
<1>2. TypeOK'
  BY <1>1 DEF Check, IInv, TypeOK
<1>3. IdsAreFresh' /\ QuotaIsBelowTop'
  BY DEF Check, IInv, IdsAreFresh, QuotaIsBelowTop
<1>4. ASSUME NEW s \in Id
      PROVE  Cardinality(Servers(s)') + Cardinality(Adding(s)') <= top'[s] + Cardinality(Worker) - 1
  <2>1. Servers(s)' = Servers(s) /\ top'[s] = top[s]
    BY DEF Check, Servers, OfTable, Is
  <2>2. CASE t = "server" /\ p = s
    <3>1. Cardinality(Servers(s)) < quota[s] /\ quota[s] <= top[s]
      BY <2>2 DEF Check, WithinQuota, IInv, QuotaIsBelowTop
    <3>2. Adding(s)' \in SUBSET Worker /\ Servers(s) \in SUBSET Id
      BY DEF Adding, Servers, OfTable
    <3>3. /\ Cardinality(Adding(s)') \in Nat /\ Cardinality(Servers(s)) \in Nat
          /\ Cardinality(Adding(s)') <= Cardinality(Worker) /\ Cardinality(Worker) \in Nat
      BY <3>2, CountsAreNumbers
    <3>4. quota[s] \in Nat /\ top[s] \in Nat
      BY DEF IInv, TypeOK
    <3> QED
      BY <2>1, <3>1, <3>3, <3>4
  <2>3. CASE ~(t = "server" /\ p = s)
    <3>1. Adding(s)' \subseteq Adding(s)
      BY <2>3 DEF Check, Adding, Idle, RowOf, IInv, TypeOK
    <3>2. top[s] \in Nat
      BY DEF IInv, TypeOK
    <3> QED
      BY <1>2, <2>1, <3>1, <3>2, RoomIsKept
  <2> QED
    BY <2>2, <2>3
<1> QED
  BY <1>2, <1>3, <1>4 DEF IInv, RoomForAll

\* What is not checked is no server.
LEMMA AddIInv ==
  ASSUME ConstantsAssumption, IInv, NEW w \in Worker,
         NEW t \in TenantTable \cup ChildTable, NEW p \in Id, NEW k \in Server \cup Name \cup {None},
         Add(w, t, p, k)
  PROVE  IInv'
<1>1. /\ used' \in 0 .. MaxRows /\ used' = used + 1 /\ used + 1 \in Id
      /\ rows' \in [Id -> Row \cup {None}] /\ rows'[used + 1] = RowOf(t, p, k)
      /\ \A i \in Id \ {used + 1} : rows'[i] = rows[i]
  <2>1. RowOf(t, p, k) \in Row
    BY DEF RowOf, Row, OwnedRow
  <2> QED
    BY <2>1, PutType DEF Add, IInv
<1>2. TypeOK'
  BY <1>1 DEF Add, IInv, TypeOK
<1>3. IdsAreFresh' /\ QuotaIsBelowTop'
  BY <1>1 DEF Add, IInv, TypeOK, IdsAreFresh, QuotaIsBelowTop, Id
<1>4. ASSUME NEW s \in Id
      PROVE  Cardinality(Servers(s)') + Cardinality(Adding(s)') <= top'[s] + Cardinality(Worker) - 1
  <2>1. t # "server"
    BY DEF Add, Checked
  <2>2. Servers(s)' \subseteq Servers(s)
    BY <1>1, <2>1 DEF Servers, OfTable, Is, RowOf
  <2>3. Adding(s)' \subseteq Adding(s) /\ top'[s] = top[s] /\ top[s] \in Nat
    BY DEF Add, Adding, Idle, IInv, TypeOK
  <2> QED
    BY <1>2, <2>2, <2>3, RoomIsKept
<1> QED
  BY <1>2, <1>3, <1>4 DEF IInv, RoomForAll

\* A server that is inserted was counted with its request.
LEMMA InsertIInv ==
  ASSUME ConstantsAssumption, IInv, NEW w \in Worker, Insert(w)
  PROVE  IInv'
<1> DEFINE r == op[w]
<1>1. /\ r \in OwnedRow /\ r # None /\ op' = [op EXCEPT ![w] = None]
      /\ RowOf(r.table, r.parent, r.key) \in Row
  BY DEF Insert, Idle, IInv, TypeOK, RowOf, Row, OwnedRow
<1>2. \A s \in Id : Adding(s)' \subseteq Adding(s) \ {w} /\ top'[s] = top[s]
  BY <1>1 DEF Insert, Adding, Idle, IInv, TypeOK
<1>3. CASE ~Possible(r)
  <2>1. rows' = rows /\ used' = used
    BY <1>3 DEF Insert
  <2>2. TypeOK' /\ IdsAreFresh' /\ QuotaIsBelowTop'
    BY <1>1, <2>1 DEF Insert, IInv, TypeOK, IdsAreFresh, QuotaIsBelowTop
  <2>3. \A s \in Id : Servers(s)' = Servers(s) /\ top[s] \in Nat
    BY <2>1 DEF Servers, OfTable, Is, IInv, TypeOK
  <2> QED
    BY <1>2, <2>2, <2>3, RoomIsKept DEF IInv, RoomForAll
<1>4. CASE Possible(r)
  <2>1. /\ used' \in 0 .. MaxRows /\ used' = used + 1 /\ used + 1 \in Id
        /\ rows' \in [Id -> Row \cup {None}] /\ rows'[used + 1] = RowOf(r.table, r.parent, r.key)
        /\ \A i \in Id \ {used + 1} : rows'[i] = rows[i]
    BY <1>1, <1>4, PutType DEF Insert, IInv
  <2>2. TypeOK' /\ IdsAreFresh' /\ QuotaIsBelowTop'
    BY <1>1, <2>1 DEF Insert, IInv, TypeOK, IdsAreFresh, QuotaIsBelowTop, Id
  <2>3. ASSUME NEW s \in Id
        PROVE  Cardinality(Servers(s)') + Cardinality(Adding(s)') <= top'[s] + Cardinality(Worker) - 1
    <3>1. CASE w \notin Adding(s)
      <4>1. Servers(s)' \subseteq Servers(s)
        BY <1>1, <2>1, <3>1 DEF Servers, OfTable, Is, RowOf, Adding, Idle
      <4> QED
        BY <1>2, <2>2, <4>1, RoomIsKept DEF IInv, TypeOK
    <3>2. CASE w \in Adding(s)
      <4>1. Servers(s)' \subseteq Servers(s) \cup {used + 1}
        BY <2>1 DEF Servers, OfTable, Is
      <4>2. /\ Servers(s) \in SUBSET Id /\ Servers(s)' \in SUBSET Id /\ Servers(s) \cup {used + 1} \in SUBSET Id
            /\ Adding(s) \in SUBSET Worker /\ Adding(s)' \in SUBSET Worker
        BY <2>1 DEF Servers, OfTable, Adding
      <4>3. /\ Cardinality(Servers(s)) \in Nat /\ Cardinality(Servers(s)') \in Nat
            /\ Cardinality(Adding(s)) \in Nat /\ Cardinality(Adding(s)') \in Nat
            /\ IsFiniteSet(Servers(s)) /\ IsFiniteSet(Adding(s)) /\ IsFiniteSet(Servers(s) \cup {used + 1})
            /\ IsFiniteSet(Adding(s) \ {w}) /\ Cardinality(Worker) \in Nat
        BY <4>2, CountsAreNumbers, FS_Subset
      <4>4. Cardinality(Servers(s)') <= Cardinality(Servers(s)) + 1
        <5>1. Cardinality(Servers(s)') <= Cardinality(Servers(s) \cup {used + 1})
          BY <4>1, <4>3, FS_Subset
        <5>2. Cardinality(Servers(s) \cup {used + 1}) \in {Cardinality(Servers(s)), Cardinality(Servers(s)) + 1}
          BY <4>3, FS_AddElement
        <5> QED
          BY <4>3, <5>1, <5>2
      <4>5. Cardinality(Adding(s)') <= Cardinality(Adding(s)) - 1
        <5>1. Cardinality(Adding(s)') <= Cardinality(Adding(s) \ {w})
          BY <1>2, <4>3, FS_Subset
        <5>2. Cardinality(Adding(s) \ {w}) = Cardinality(Adding(s)) - 1
          BY <3>2, <4>3, FS_RemoveElement
        <5> QED
          BY <5>1, <5>2
      <4> QED
        BY <1>2, <4>3, <4>4, <4>5 DEF IInv, TypeOK, RoomForAll
    <3> QED
      BY <3>1, <3>2
  <2> QED
    BY <2>2, <2>3 DEF IInv, RoomForAll
<1> QED
  BY <1>3, <1>4

\* Deletions only make room.
LEMMA RemovalIInv ==
  ASSUME ConstantsAssumption, IInv, NEW S, Remove(S), UNCHANGED <<store, used, quota, op, top>>
  PROVE  IInv'
<1>1. /\ rows' \in [Id -> Row \cup {None}]
      /\ \A i \in Id : rows'[i] # None => rows'[i] = rows[i]
  BY RemoveType DEF IInv
<1>2. TypeOK' /\ QuotaIsBelowTop'
  BY <1>1 DEF IInv, TypeOK, QuotaIsBelowTop
<1>3. IdsAreFresh'
  BY <1>1 DEF IInv, IdsAreFresh
<1>4. ASSUME NEW s \in Id
      PROVE  Cardinality(Servers(s)') + Cardinality(Adding(s)') <= top'[s] + Cardinality(Worker) - 1
  <2>1. Servers(s)' \subseteq Servers(s)
    BY <1>1 DEF Servers, OfTable, Is
  <2>2. Adding(s)' \subseteq Adding(s) /\ top'[s] >= top[s]
    BY DEF Adding, Idle, IInv, TypeOK
  <2> QED
    BY <1>2, <2>1, <2>2, RoomIsKept
<1> QED
  BY <1>2, <1>3, <1>4 DEF IInv, RoomForAll

\* The requests that add a row name a tenant, a pool or a block by its id.
LEMMA StartIInv ==
  ASSUME ConstantsAssumption, IInv, NEW w \in Worker,
         NEW t \in TenantTable \cup ChildTable, NEW p \in Id, NEW k \in Server \cup Name \cup {None},
         Start(w, t, p, k)
  PROVE  IInv'
  BY CheckIInv, AddIInv DEF Start

LEMMA NextIInv ==
  ASSUME ConstantsAssumption, IInv, [Next]_vars
  PROVE  IInv'
<1>1. CASE UNCHANGED vars
  BY <1>1 DEF vars, IInv, TypeOK, RoomForAll, IdsAreFresh, QuotaIsBelowTop, Servers, OfTable, Is, Adding, Idle
<1>2. ASSUME NEW w \in Worker, NEW plan \in Plan,
             CreateTenant(w, plan) \/ \E t \in Id : UpdateTenant(w, t, plan)
      PROVE  IInv'
  BY <1>2, CreateIInv, UpdateIInv
<1>3. ASSUME NEW w \in Worker, NEW t \in Tenant, AddWebhook(w, t) \/ AddAlert(w, t) \/ AddScheduledTask(w, t)
      PROVE  IInv'
  BY <1>3, StartIInv DEF Tenant, TenantTable, AddWebhook, AddAlert, AddScheduledTask
<1>4. ASSUME NEW w \in Worker, NEW t \in Tenant,
             (\E k \in Server : AddServer(w, t, k)) \/ \E k \in Name : AddPool(w, t, k) \/ AddBlock(w, t, k)
      PROVE  IInv'
  BY <1>4, StartIInv DEF Tenant, TenantTable, AddServer, AddPool, AddBlock
<1>5. ASSUME NEW w \in Worker, NEW i \in 1 .. used, NEW k \in Name, Allocate(w, i, k) \/ AssignIp(w, i, k)
      PROVE  IInv'
  <2>1. i \in Id
    BY DEF Id, IInv, TypeOK, ConstantsAssumption
  <2> QED
    BY <1>5, <2>1, StartIInv DEF ChildTable, Allocate, AssignIp
<1>6. ASSUME NEW w \in Worker, NEW i \in Id, DeleteTenant(w, i) \/ RemoveRow(w, i)
      PROVE  IInv'
  BY <1>6, RemovalIInv DEF DeleteTenant, RemoveRow
<1>7. ASSUME NEW w \in Worker, NEW i \in Id, NEW k \in Server, RemoveServer(w, i, k)
      PROVE  IInv'
  BY <1>7, RemovalIInv DEF RemoveServer
<1>8. ASSUME NEW w \in Worker, NEW t \in ChildTable, NEW p \in Id, NEW k \in Name, Release(w, t, p, k)
      PROVE  IInv'
  BY <1>8, RemovalIInv DEF Release
<1> QED
  BY <1>1, <1>2, <1>3, <1>4, <1>5, <1>6, <1>7, <1>8, InsertIInv DEF Next

\* For any number of requests at a time, tenants, plans and rows, and in either store: a tenant
\* has at most as many servers more than its greatest quota as there are other requests.
THEOREM QuotaIsKeptButForOverlaps ==
  ASSUME ConstantsAssumption
  PROVE  Spec => []QuotaIsNearlyKept
<1>1. Init => IInv
  BY InitIInv
<1>2. IInv /\ [Next]_vars => IInv'
  BY NextIInv
<1>3. IInv => QuotaIsNearlyKept
  <2> SUFFICES ASSUME IInv, NEW t \in Id
               PROVE  Cardinality(Servers(t)) <= top[t] + Cardinality(Worker) - 1
    BY DEF QuotaIsNearlyKept
  <2>1. Servers(t) \in SUBSET Id /\ Adding(t) \in SUBSET Worker
    BY DEF Servers, OfTable, Adding
  <2>2. /\ Cardinality(Servers(t)) \in Nat /\ Cardinality(Adding(t)) \in Nat
        /\ Cardinality(Worker) \in Nat /\ top[t] \in Nat
    BY <2>1, CountsAreNumbers DEF IInv, TypeOK
  <2> QED
    BY <2>2 DEF IInv, RoomForAll
<1> QED
  BY <1>1, <1>2, <1>3, PTL DEF Spec

-----------------------------------------------------------------------------
\* Every row that is not a tenant has the row it belongs to.
Rooted ==
  \A i \in Id : rows[i] # None /\ rows[i].table # "tenant" => Is(rows[i].parent, ParentOf(rows[i].table))

OrphansInv == IInv /\ (store = "postgres" => Rooted)

\* An insert that the database accepts has what it belongs to, and nothing belongs to a new id.
LEMMA PutRooted ==
  ASSUME ConstantsAssumption, IInv, Rooted,
         NEW t, NEW p, NEW k, RowOf(t, p, k) \in Row, Put(t, p, k),
         t # "tenant" => Is(p, ParentOf(t))
  PROVE  Rooted'
<1>1. /\ used + 1 \in Id /\ rows'[used + 1] = RowOf(t, p, k)
      /\ \A i \in Id \ {used + 1} : rows'[i] = rows[i]
      /\ rows[used + 1] = None
  BY PutType DEF IInv, IdsAreFresh, TypeOK
<1>2. \A i \in Id : \A a : Is(i, a) => rows'[i] # None /\ rows'[i].table = a
  BY <1>1 DEF Is
<1>3. ASSUME NEW i \in Id, rows'[i] # None, rows'[i].table # "tenant"
      PROVE  rows'[i].parent \in Id /\ Is(rows'[i].parent, ParentOf(rows'[i].table))
  <2>1. CASE i = used + 1
    BY <1>1, <1>3, <2>1 DEF RowOf, Row, OwnedRow, TenantRow
  <2>2. CASE i # used + 1
    BY <1>1, <1>3, <2>2 DEF Rooted, IInv, TypeOK, Row, OwnedRow, TenantRow
  <2> QED
    BY <2>1, <2>2
<1> QED
  BY <1>2, <1>3 DEF Rooted, Is

\* A cascade of two steps reaches every row that belongs to what is removed: a pool or a block
\* belongs to a tenant, which belongs to nothing.
LEMMA RemoveRooted ==
  ASSUME ConstantsAssumption, IInv, Rooted, store = "postgres", NEW S \in SUBSET Id, Remove(S)
  PROVE  Rooted'
<1>1. \A i \in Id : rows'[i] # None => rows'[i] = rows[i] /\ i \notin Falling(S)
  BY DEF Remove
<1>2. \A i \in Id : i \notin Falling(S) => rows'[i] = rows[i]
  BY DEF Remove, IInv, TypeOK
<1>3. ASSUME NEW i \in Id, rows[i] # None, rows[i].table # "tenant", i \notin Falling(S)
      PROVE  rows[i].parent \in Id \ Falling(S) /\ Is(rows[i].parent, ParentOf(rows[i].table))
  <2> DEFINE p == rows[i].parent
  <2>1. p \in Id /\ Is(p, ParentOf(rows[i].table))
    BY <1>3 DEF Rooted, IInv, TypeOK, Row, OwnedRow, TenantRow
  <2>2. p \notin S /\ p \notin Under(S)
    BY <1>3 DEF Falling, Under
  <2>3. ASSUME p \in Under(Under(S))
        PROVE  FALSE
    <3> DEFINE q == rows[p].parent
    <3>1. q \in Id /\ rows[q] # None /\ rows[q].parent \in S /\ rows[p] # None
      BY <2>3 DEF Under
    <3>2. rows[q].table # "tenant" /\ rows[p].table # "tenant"
      <4>1. ASSUME NEW j \in Id, rows[j] # None, rows[j].parent \in Id
            PROVE  rows[j].table # "tenant"
        <5>1. None \notin Id
          BY DEF Id, ConstantsAssumption
        <5>2. rows[j] \in TenantRow \cup OwnedRow
          BY <4>1 DEF IInv, TypeOK, Row
        <5>3. \A r \in TenantRow : r.parent = None
          BY DEF TenantRow
        <5>4. \A r \in OwnedRow : r.table # "tenant"
          BY DEF OwnedRow, TenantTable, ChildTable
        <5> QED
          BY <4>1, <5>1, <5>2, <5>3, <5>4
      <4> QED
        BY <2>1, <3>1, <4>1
    <3>3. rows[q].table = ParentOf(rows[p].table) /\ rows[p].table = ParentOf(rows[i].table)
      BY <2>1, <3>1, <3>2 DEF Rooted, Is
    <3> QED
      BY <3>2, <3>3 DEF ParentOf
  <2> QED
    BY <2>1, <2>2, <2>3, <1>3 DEF Falling
<1> QED
  BY <1>1, <1>2, <1>3 DEF Rooted, Is

\* A request whose row is not looked up again changes no row.
LEMMA NextRooted ==
  ASSUME ConstantsAssumption, OrphansInv, store = "postgres", [Next]_vars
  PROVE  Rooted'
<1> USE DEF OrphansInv
<1>1. CASE rows' = rows
  BY <1>1 DEF Rooted, Is
<1>2. ASSUME NEW w \in Worker, NEW plan \in Plan, CreateTenant(w, plan)
      PROVE  Rooted'
  <2>1. RowOf("tenant", None, None) \in Row
    BY DEF RowOf, Row, TenantRow
  <2> QED
    BY <1>2, <2>1, PutRooted DEF CreateTenant
<1>3. ASSUME NEW w \in Worker, Insert(w), rows' # rows
      PROVE  Rooted'
  <2>1. op[w] \in OwnedRow
    BY <1>3 DEF Insert, Idle, IInv, TypeOK
  <2>2. RowOf(op[w].table, op[w].parent, op[w].key) \in Row
    BY <2>1 DEF RowOf, Row, OwnedRow
  <2>3. Put(op[w].table, op[w].parent, op[w].key) /\ Is(op[w].parent, ParentOf(op[w].table))
    BY <1>3 DEF Insert, Possible, Refers
  <2> QED
    BY <2>2, <2>3, PutRooted
<1>4. ASSUME NEW w \in Worker, NEW t \in TenantTable \cup ChildTable, NEW p \in Id,
             NEW k \in Server \cup Name \cup {None}, Start(w, t, p, k)
      PROVE  Rooted'
  <2>1. CASE Check(w, t, p, k)
    BY <1>1, <2>1 DEF Check
  <2>2. CASE Add(w, t, p, k)
    <3>1. RowOf(t, p, k) \in Row
      BY DEF RowOf, Row, OwnedRow
    <3> QED
      BY <2>2, <3>1, PutRooted DEF Add, Refers
  <2> QED
    BY <1>4, <2>1, <2>2 DEF Start
<1>5. ASSUME NEW w \in Worker, NEW t \in Tenant,
             \/ AddWebhook(w, t) \/ AddAlert(w, t) \/ AddScheduledTask(w, t)
             \/ \E k \in Server : AddServer(w, t, k)
             \/ \E k \in Name : AddPool(w, t, k) \/ AddBlock(w, t, k)
      PROVE  Rooted'
  BY <1>4, <1>5 DEF Tenant, TenantTable, AddWebhook, AddAlert, AddScheduledTask, AddServer, AddPool, AddBlock
<1>6. ASSUME NEW w \in Worker, NEW i \in 1 .. used, NEW k \in Name, Allocate(w, i, k) \/ AssignIp(w, i, k)
      PROVE  Rooted'
  <2>1. i \in Id
    BY DEF Id, IInv, TypeOK, ConstantsAssumption
  <2> QED
    BY <1>4, <1>6, <2>1 DEF ChildTable, Allocate, AssignIp
<1>7. ASSUME NEW w \in Worker, NEW i \in Id, DeleteTenant(w, i) \/ RemoveRow(w, i)
      PROVE  Rooted'
  BY <1>7, RemoveRooted DEF DeleteTenant, RemoveRow
<1>8. ASSUME NEW w \in Worker, NEW i \in Id, NEW k \in Server, RemoveServer(w, i, k)
      PROVE  Rooted'
  <2>1. Clash("server", i, k) \in SUBSET Id
    BY DEF Clash, OfTable
  <2> QED
    BY <1>8, <2>1, RemoveRooted DEF RemoveServer
<1>9. ASSUME NEW w \in Worker, NEW t \in ChildTable, NEW p \in Id, NEW k \in Name, Release(w, t, p, k)
      PROVE  Rooted'
  <2>1. Clash(t, p, k) \in SUBSET Id
    BY DEF Clash, OfTable
  <2> QED
    BY <1>9, <2>1, RemoveRooted DEF Release
<1>10. ASSUME NEW w \in Worker, NEW t \in Id, NEW plan \in Plan, UpdateTenant(w, t, plan)
       PROVE  Rooted'
  BY <1>1, <1>10 DEF UpdateTenant
<1> QED
  BY <1>1, <1>2, <1>3, <1>4, <1>5, <1>6, <1>7, <1>8, <1>9, <1>10 DEF Next, vars

\* In the database nothing is left of a tenant, a pool or a block that is gone, for any number of
\* requests at a time: not even what a request inserts that had found its tenant before.
THEOREM DatabaseHasNoOrphans ==
  ASSUME ConstantsAssumption
  PROVE  Spec => []NoOrphans
<1>1. Init => OrphansInv
  BY InitIInv DEF OrphansInv, Init, Rooted
<1>2. OrphansInv /\ [Next]_vars => OrphansInv'
  <2> SUFFICES ASSUME OrphansInv, [Next]_vars
               PROVE  OrphansInv'
    OBVIOUS
  <2>1. store' = store
    <3>1. ASSUME NEW w \in Worker, NEW t, NEW p, NEW k, Start(w, t, p, k)
          PROVE  store' = store
      BY <3>1 DEF Start, Check, Add
    <3>2. ASSUME NEW w \in Worker, NEW plan \in Plan,
                 CreateTenant(w, plan) \/ \E t \in Id : UpdateTenant(w, t, plan)
          PROVE  store' = store
      BY <3>2 DEF CreateTenant, UpdateTenant
    <3>3. ASSUME NEW w \in Worker, NEW t \in Tenant,
                 \/ AddWebhook(w, t) \/ AddAlert(w, t) \/ AddScheduledTask(w, t)
                 \/ \E k \in Server : AddServer(w, t, k)
                 \/ \E k \in Name : AddPool(w, t, k) \/ AddBlock(w, t, k)
          PROVE  store' = store
      BY <3>1, <3>3 DEF AddWebhook, AddAlert, AddScheduledTask, AddServer, AddPool, AddBlock
    <3>4. ASSUME NEW w \in Worker, NEW i, NEW k, Allocate(w, i, k) \/ AssignIp(w, i, k)
          PROVE  store' = store
      BY <3>1, <3>4 DEF Allocate, AssignIp
    <3>5. ASSUME NEW w \in Worker, Insert(w) \/ \E i \in Id : DeleteTenant(w, i) \/ RemoveRow(w, i)
          PROVE  store' = store
      BY <3>5 DEF Insert, DeleteTenant, RemoveRow
    <3>6. ASSUME NEW w \in Worker,
                 \/ \E i \in Id, k \in Server : RemoveServer(w, i, k)
                 \/ \E t \in ChildTable, p \in Id, k \in Name : Release(w, t, p, k)
          PROVE  store' = store
      BY <3>6 DEF RemoveServer, Release
    <3> QED
      BY <3>2, <3>3, <3>4, <3>5, <3>6 DEF Next, vars
  <2> QED
    BY <2>1, NextIInv, NextRooted DEF OrphansInv
<1>3. OrphansInv => NoOrphans
  BY DEF OrphansInv, Rooted, NoOrphans
<1> QED
  BY <1>1, <1>2, <1>3, PTL DEF Spec
(***************************************************************************)
(* Numbers: every set of them that is not empty has a least one, and a     *)
(* greatest one if it is bounded.                                          *)
(***************************************************************************)
LEMMA LeastNumber ==
  ASSUME NEW T, T \subseteq Nat, T # {}
  PROVE  \E x \in T : \A y \in T : x <= y
<1> DEFINE Below == OpToRel(<, Nat)
<1>1. \A x, y \in Nat : x < y => <<x, y>> \in Below
  BY DEF OpToRel
<1>2. IsWellFoundedOn(Below, Nat)
  BY NatLessThanWellFounded
<1> HIDE DEF Below
<1>3. PICK x \in T : \A y \in T : ~ (<<y, x>> \in Below)
  BY <1>2, WFMin, Zenon
<1>4. \A y \in T : y \in Nat /\ x \in Nat /\ ~(y < x)
  BY <1>1, <1>3
<1>5. \A y \in T : x <= y
  BY <1>4
<1> QED
  BY <1>5

LEMMA GreatestNumber ==
  ASSUME NEW T, NEW n \in Nat, T \subseteq 0 .. n, T # {}
  PROVE  \E x \in T : \A y \in T : y <= x
<1> DEFINE U == {n - x : x \in T}
<1>1. U \subseteq Nat /\ U # {}
  <2>1. \A x \in T : x \in 0 .. n /\ n - x \in Nat
    OBVIOUS
  <2>2. PICK x \in T : TRUE
    OBVIOUS
  <2>3. n - x \in U
    OBVIOUS
  <2> QED
    BY <2>1, <2>3
<1> HIDE DEF U
<1>2. PICK z \in U : \A y \in U : z <= y
  BY <1>1, LeastNumber
<1> QED
  BY <1>2 DEF U

(***************************************************************************)
(* DataCenters.  A new row gets a number that no row has; a server that is *)
(* known to stand somewhere is therefore never found in the new centre.    *)
(***************************************************************************)
CentreId == 1 .. MaxCreated

CentreRequest ==
  [kind : {"none", "create", "update", "delete", "assign", "unassign"},
   tenant : Organization \cup {0}, id : 0 .. MaxCreated, nth : 0 .. MaxCreated,
   code : Server \cup {None}, server : Name \cup {None}, read : 0 .. MaxCreated]

CentreType ==
  /\ centre \in [CentreId -> {None} \cup Centre!Row]
  /\ created \in 0 .. MaxCreated
  /\ of \in [Name -> 0 .. MaxCreated] /\ stood \in [Name -> 0 .. MaxCreated]
  /\ blind \subseteq Name
  /\ access \in [Worker -> CentreRequest]

\* What a request that has read its rows has found.
CentreFound(q) ==
  /\ q.kind \in {"create", "update"} => q.code \in Server
  /\ q.kind \in {"update", "delete", "assign", "unassign"} => q.id \in CentreId /\ q.nth # 0
  /\ q.kind \in {"assign", "unassign"} => q.server \in Name

CentreInv ==
  /\ CentreType
  /\ \A w \in Worker : CentreFound(access[w])
  /\ \A i \in CentreId : centre[i] # None => i <= created
  /\ Centre!ServersStandWherePlaced

LEMMA CentreConstants ==
  /\ MaxCreated \in Nat /\ None \notin Centre!Row /\ None \notin Name
  /\ Centre!Id = CentreId /\ Centre!Tenant = Organization \cup {0}
  /\ Centre!Row = [code : Server, org : Organization \cup {0}, nth : 1 .. MaxCreated]
<1>1. /\ Centre!Id = CentreId /\ Centre!Tenant = Organization \cup {0}
      /\ Centre!Row = [code : Server, org : Organization \cup {0}, nth : 1 .. MaxCreated]
  BY DEF Centre!Id, CentreId, Centre!Tenant, Centre!Global, Centre!Row
<1>2. Centre!ConstantsAssumption
  BY PartsAssumption
<1>3. MaxCreated \in Nat /\ None \notin Centre!Row \cup Name
  BY <1>2, Zenon DEF Centre!ConstantsAssumption
<1>4. None \notin Centre!Row /\ None \notin Name
  BY <1>3, Zenon
<1> QED
  BY <1>1, <1>3, <1>4

LEMMA NthOfRow ==
  ASSUME CentreType, NEW i
  PROVE  /\ Centre!Nth(i) \in 0 .. MaxCreated
         /\ Centre!Nth(i) # 0 => i \in CentreId /\ centre[i] # None
         /\ i \in CentreId /\ centre[i] # None => Centre!Nth(i) = centre[i].nth /\ Centre!Nth(i) # 0
<1>1. ASSUME i \in CentreId, centre[i] # None PROVE centre[i].nth \in 1 .. MaxCreated
  BY <1>1, CentreConstants DEF CentreType
<1> QED
  BY <1>1, CentreConstants DEF Centre!Nth, Centre!Exists

\* A row is added below the bound, where there is none.
LEMMA NextIdIsFree ==
  ASSUME CentreInv, created < MaxCreated
  PROVE  Centre!NextId \in CentreId /\ Centre!NextId <= created + 1 /\ centre[Centre!NextId] = None
<1> DEFINE rowIds == {i \in CentreId : centre[i] # None}
<1>0. created \in Nat /\ MaxCreated \in Nat
  BY CentreConstants DEF CentreInv, CentreType
<1>1. \A i \in rowIds : i \in CentreId /\ i <= created
  BY DEF CentreInv
<1>2. Centre!Newest = {i \in CentreId : centre[i] # None /\ \A j \in rowIds : j <= i}
  BY CentreConstants DEF Centre!Newest, Centre!Exists
<1>3. CASE database = "postgres"
  BY <1>0, <1>1, <1>3 DEF Centre!NextId, CentreId
<1>4. CASE database # "postgres" /\ Centre!Newest = {}
  <2>1. rowIds = {}
    <3> SUFFICES ASSUME rowIds # {} PROVE FALSE
      OBVIOUS
    <3>1. rowIds \subseteq 0 .. MaxCreated
      BY <1>0 DEF CentreId
    <3>2. PICK i \in rowIds : \A j \in rowIds : j <= i
      BY <1>0, <3>1, GreatestNumber
    <3> QED
      BY <1>2, <1>4, <3>2
  <2> QED
    BY <1>0, <1>4, <2>1 DEF Centre!NextId, CentreId
<1>5. CASE database # "postgres" /\ Centre!Newest # {}
  <2> DEFINE n == CHOOSE i \in Centre!Newest : TRUE
  <2>1. n \in Centre!Newest /\ Centre!NextId = n + 1
    BY <1>5 DEF Centre!NextId
  <2> HIDE DEF n
  <2>2. n \in CentreId /\ n <= created /\ \A j \in rowIds : j <= n
    BY <1>1, <1>2, <2>1
  <2> QED
    BY <1>0, <2>1, <2>2 DEF CentreId
<1> QED
  BY <1>3, <1>4, <1>5

LEMMA CentreInit == Centre!Init => CentreInv
  BY CentreConstants
     DEF Centre!Init, CentreInv, CentreType, CentreFound, CentreRequest, Centre!Free, Centre!Global,
         Centre!ServersStandWherePlaced, CentreId

\* A request reads.
LEMMA CentreReads ==
  ASSUME CentreInv, NEW w \in Worker, NEW q \in CentreRequest, CentreFound(q), Centre!Read(w, q)
  PROVE  CentreInv'
  BY DEF CentreInv, CentreType, Centre!Read, CentreFound, Centre!ServersStandWherePlaced,
         Centre!Exists

LEMMA CentreAskedType ==
  ASSUME CentreInv,
         NEW kind \in {"create", "update", "delete", "assign", "unassign"},
         NEW t \in Organization \cup {0}, NEW i \in 0 .. MaxCreated,
         NEW c \in Server \cup {None}, NEW s \in Name \cup {None},
         kind \in {"create", "update"} => c \in Server,
         kind # "create" => i \in CentreId /\ centre[i] # None,
         kind \in {"assign", "unassign"} => s \in Name
  PROVE  Centre!Asked(kind, t, i, c, s) \in CentreRequest
         /\ CentreFound(Centre!Asked(kind, t, i, c, s))
<1> DEFINE n == Centre!Nth(i)  old == IF s = None THEN 0 ELSE of[s]
<1>1. n \in 0 .. MaxCreated /\ (kind # "create" => n # 0)
  BY NthOfRow DEF CentreInv
<1>2. old \in 0 .. MaxCreated
  BY CentreConstants DEF CentreInv, CentreType
<1>3. Centre!Asked(kind, t, i, c, s)
        = [kind |-> kind, tenant |-> t, id |-> i, nth |-> n, code |-> c, server |-> s, read |-> old]
  BY DEF Centre!Asked
<1> HIDE DEF n, old
<1> QED
  BY <1>1, <1>2, <1>3 DEF CentreRequest, CentreFound

LEMMA CentreBegins ==
  ASSUME CentreInv, NEW w \in Worker, NEW t \in Centre!Tenant,
         \/ \E c \in Server : Centre!BeginCreate(w, t, c)
                              \/ \E i \in Centre!Id : Centre!BeginUpdate(w, t, i, c)
         \/ \E i \in Centre!Id : Centre!BeginDelete(w, t, i)
         \/ \E i \in Centre!Id, s \in Name : Centre!BeginAssign(w, t, i, s) \/ Centre!BeginUnassign(w, t, i, s)
  PROVE  CentreInv'
<1>1. t \in Organization \cup {0} /\ 0 \in 0 .. MaxCreated /\ \A i \in CentreId : i \in 0 .. MaxCreated
  BY CentreConstants DEF CentreId
<1>2. \A i \in Centre!Id : i \in Centre!Visible(t) => i \in CentreId /\ centre[i] # None
  BY CentreConstants DEF Centre!Visible, Centre!Exists
<1>3. ASSUME NEW c \in Server, Centre!BeginCreate(w, t, c) PROVE CentreInv'
  <2> DEFINE q == Centre!Asked("create", t, 0, c, None)
  <2>1. q \in CentreRequest /\ CentreFound(q)
    BY <1>1, CentreAskedType
  <2> HIDE DEF q
  <2> QED
    BY <1>3, <2>1, CentreReads DEF Centre!BeginCreate, q
<1>4. ASSUME NEW c \in Server, NEW i \in Centre!Id, Centre!BeginUpdate(w, t, i, c) PROVE CentreInv'
  <2> DEFINE q == Centre!Asked("update", t, i, c, None)
  <2>0. i \in CentreId /\ centre[i] # None
    BY <1>2, <1>4 DEF Centre!BeginUpdate
  <2>1. q \in CentreRequest /\ CentreFound(q)
    BY <1>1, <2>0, CentreAskedType
  <2> HIDE DEF q
  <2> QED
    BY <1>4, <2>1, CentreReads DEF Centre!BeginUpdate, q
<1>5. ASSUME NEW i \in Centre!Id, Centre!BeginDelete(w, t, i) PROVE CentreInv'
  <2> DEFINE q == Centre!Asked("delete", t, i, None, None)
  <2>0. i \in CentreId /\ centre[i] # None
    BY <1>2, <1>5 DEF Centre!BeginDelete
  <2>1. q \in CentreRequest /\ CentreFound(q)
    BY <1>1, <2>0, CentreAskedType
  <2> HIDE DEF q
  <2> QED
    BY <1>5, <2>1, CentreReads DEF Centre!BeginDelete, q
<1>6. ASSUME NEW i \in Centre!Id, NEW s \in Name, NEW kind \in {"assign", "unassign"}, i \in Centre!Visible(t),
             Centre!Read(w, Centre!Asked(kind, t, i, None, s))
      PROVE  CentreInv'
  <2> DEFINE q == Centre!Asked(kind, t, i, None, s)
  <2>0. i \in CentreId /\ centre[i] # None
    BY <1>2, <1>6
  <2>1. q \in CentreRequest /\ CentreFound(q)
    BY <1>1, <2>0, CentreAskedType
  <2>2. Centre!Read(w, q)
    BY <1>6
  <2> HIDE DEF q
  <2> QED
    BY <2>1, <2>2, CentreReads
<1> QED
  BY <1>3, <1>4, <1>5, <1>6 DEF Centre!BeginAssign, Centre!BeginUnassign

\* Centres as they are after a commit, with the servers that stand in them.
LEMMA CentreStep == CentreInv /\ [Centre!Next]_(Centre!vars) => CentreInv'
<1> SUFFICES ASSUME CentreInv, [Centre!Next]_(Centre!vars) PROVE CentreInv'
  OBVIOUS
<1>0. Centre!Free \in CentreRequest /\ CentreFound(Centre!Free)
  BY CentreConstants DEF Centre!Free, Centre!Global, CentreRequest, CentreFound
<1>1. ASSUME NEW w \in Worker, NEW t \in Centre!Tenant,
         \/ \E c \in Server : Centre!BeginCreate(w, t, c)
                              \/ \E i \in Centre!Id : Centre!BeginUpdate(w, t, i, c)
         \/ \E i \in Centre!Id : Centre!BeginDelete(w, t, i)
         \/ \E i \in Centre!Id, s \in Name : Centre!BeginAssign(w, t, i, s) \/ Centre!BeginUnassign(w, t, i, s)
      PROVE  CentreInv'
  BY <1>1, CentreBegins
<1>2. ASSUME NEW w \in Worker, access' = [access EXCEPT ![w] = Centre!Free]
      PROVE  access' \in [Worker -> CentreRequest] /\ \A v \in Worker : CentreFound(access'[v])
  BY <1>0, <1>2 DEF CentreInv, CentreType
<1>3. ASSUME NEW w \in Worker, Centre!Create(w) PROVE CentreInv'
  <2>1. access' = [access EXCEPT ![w] = Centre!Free] /\ UNCHANGED <<of, stood, blind>>
    BY <1>3 DEF Centre!Create, Centre!Does
  <2>2. CASE UNCHANGED <<centre, created>>
    BY <1>2, <2>1, <2>2 DEF CentreInv, CentreType, Centre!ServersStandWherePlaced, Centre!Exists
  <2>3. CASE ~UNCHANGED <<centre, created>>
    <3> DEFINE n == Centre!NextId
               row == [code |-> access[w].code, org |-> access[w].tenant, nth |-> created + 1]
    <3>1. created < MaxCreated /\ created' = created + 1 /\ centre' = [centre EXCEPT ![n] = row]
      BY <1>3, <2>3 DEF Centre!Create
    <3>2. n \in CentreId /\ n <= created + 1 /\ centre[n] = None
      BY <3>1, NextIdIsFree
    <3>3. row \in Centre!Row
      <4>1. access[w].code \in Server /\ access[w].tenant \in Organization \cup {0}
        BY <1>3 DEF Centre!Create, Centre!Does, CentreInv, CentreFound, CentreType, CentreRequest
      <4>2. created + 1 \in 1 .. MaxCreated
        BY <3>1, CentreConstants DEF CentreInv, CentreType
      <4> QED
        BY <4>1, <4>2, CentreConstants
    <3> HIDE DEF n, row
    <3>4. CentreType'
      <4>1. created' \in 0 .. MaxCreated
        BY <3>1, CentreConstants DEF CentreInv, CentreType
      <4>2. centre' \in [CentreId -> {None} \cup Centre!Row]
        BY <3>1, <3>2, <3>3 DEF CentreInv, CentreType
      <4> QED
        BY <1>2, <2>1, <4>1, <4>2 DEF CentreInv, CentreType
    <3>5. \A i \in CentreId : centre'[i] # None => i <= created'
      BY <3>1, <3>2, CentreConstants DEF CentreInv, CentreType, CentreId
    <3>6. \A s \in Name \ blind : of[s] # 0 => of[s] # n /\ of[s] \in CentreId
      BY <3>2, CentreConstants DEF CentreInv, CentreType, Centre!ServersStandWherePlaced, Centre!Exists, CentreId
    <3>7. Centre!ServersStandWherePlaced'
      BY <2>1, <3>1, <3>6 DEF CentreInv, CentreType, Centre!ServersStandWherePlaced, Centre!Exists
    <3> QED
      BY <1>2, <2>1, <3>4, <3>5, <3>7 DEF CentreInv
  <2> QED
    BY <2>2, <2>3
<1>4. ASSUME NEW w \in Worker, Centre!Update(w) PROVE CentreInv'
  <2> DEFINE i == access[w].id  c == access[w].code
  <2>1. access' = [access EXCEPT ![w] = Centre!Free] /\ UNCHANGED <<created, of, stood, blind>>
    BY <1>4 DEF Centre!Update, Centre!Does
  <2>2. i \in CentreId /\ c \in Server
    BY <1>4 DEF Centre!Update, Centre!Does, CentreInv, CentreFound
  <2>3. CASE centre' = centre
    BY <1>2, <2>1, <2>3 DEF CentreInv, CentreType, Centre!ServersStandWherePlaced, Centre!Exists
  <2>4. CASE centre' # centre
    <3>1. centre[i] # None /\ centre' = [centre EXCEPT ![i].code = c]
      BY <1>4, <2>4 DEF Centre!Update, Centre!Exists
    <3> HIDE DEF i, c
    <3> DEFINE row == [centre[i] EXCEPT !.code = c]
    <3>2. centre[i] \in Centre!Row
      BY <2>2, <3>1 DEF CentreInv, CentreType
    <3>3. row \in Centre!Row /\ row.nth = centre[i].nth /\ row # None
      BY <2>2, <3>2, CentreConstants
    <3>4. centre' = [centre EXCEPT ![i] = row]
      BY <2>2, <3>1 DEF CentreInv, CentreType
    <3> HIDE DEF row
    <3>5. \A j \in CentreId : (centre'[j] # None <=> centre[j] # None)
                               /\ (centre[j] # None => centre'[j].nth = centre[j].nth)
      BY <2>2, <3>1, <3>3, <3>4 DEF CentreInv, CentreType
    <3>6. CentreType'
      BY <1>2, <2>1, <2>2, <3>3, <3>4 DEF CentreInv, CentreType
    <3>7. \A s \in Name : of[s] # 0 => of[s] \in CentreId
      BY CentreConstants DEF CentreInv, CentreType, CentreId
    <3>8. Centre!ServersStandWherePlaced'
      BY <2>1, <3>5, <3>7 DEF CentreInv, Centre!ServersStandWherePlaced, Centre!Exists
    <3> QED
      BY <1>2, <2>1, <3>5, <3>6, <3>8 DEF CentreInv
  <2> QED
    BY <2>3, <2>4
<1>5. ASSUME NEW w \in Worker, Centre!Delete(w) PROVE CentreInv'
  <2> DEFINE i == access[w].id
  <2>1. /\ access' = [access EXCEPT ![w] = Centre!Free] /\ UNCHANGED <<created, stood, blind>>
        /\ centre' = [centre EXCEPT ![i] = None]
        /\ of' = [s \in Name |-> IF of[s] = i THEN 0 ELSE of[s]]
    BY <1>5 DEF Centre!Delete, Centre!Does, Centre!Detached
  <2>2. i \in CentreId
    BY <1>5 DEF Centre!Delete, Centre!Does, CentreInv, CentreFound
  <2> HIDE DEF i
  <2>3. CentreType'
    <3>1. of' \in [Name -> 0 .. MaxCreated]
      BY <2>1, CentreConstants DEF CentreInv, CentreType
    <3>2. centre' \in [CentreId -> {None} \cup Centre!Row]
      BY <2>1, <2>2 DEF CentreInv, CentreType
    <3> QED
      BY <1>2, <2>1, <3>1, <3>2 DEF CentreInv, CentreType
  <2>4. Centre!ServersStandWherePlaced'
    BY <2>1, <2>2, CentreConstants DEF CentreInv, CentreType, Centre!ServersStandWherePlaced, Centre!Exists
  <2>5. \A j \in CentreId : centre'[j] # None => centre[j] # None
    BY <2>1, <2>2 DEF CentreInv, CentreType
  <2> QED
    BY <1>2, <2>1, <2>3, <2>4, <2>5 DEF CentreInv
<1>6. ASSUME NEW s \in Name, NEW i \in 0 .. MaxCreated, NEW seen \in BOOLEAN, Centre!Place(s, i, seen),
             seen => Centre!Nth(i) # 0,
             UNCHANGED <<centre, created>>, access' \in [Worker -> CentreRequest],
             \A v \in Worker : CentreFound(access'[v])
      PROVE  CentreInv'
  <2> DEFINE n == Centre!Nth(i)
  <2>1. /\ of' = [of EXCEPT ![s] = i] /\ stood' = [stood EXCEPT ![s] = n]
        /\ blind' = IF seen THEN blind \ {s} ELSE blind \cup {s}
    BY <1>6 DEF Centre!Place
  <2>2. n \in 0 .. MaxCreated /\ (seen => i \in CentreId /\ centre[i] # None /\ n = centre[i].nth)
    BY <1>6, NthOfRow DEF CentreInv
  <2> HIDE DEF n
  <2>3. CentreType'
    BY <1>6, <2>1, <2>2 DEF CentreInv, CentreType
  <2>4. Centre!ServersStandWherePlaced'
    BY <1>6, <2>1, <2>2 DEF CentreInv, CentreType, Centre!ServersStandWherePlaced, Centre!Exists
  <2> QED
    BY <1>6, <2>3, <2>4 DEF CentreInv
<1>7. ASSUME NEW w \in Worker, Centre!Assign(w) PROVE CentreInv'
  <2> DEFINE i == access[w].id  s == access[w].server
  <2>1. access' = [access EXCEPT ![w] = Centre!Free] /\ UNCHANGED <<centre, created>>
    BY <1>7 DEF Centre!Assign, Centre!Does
  <2>2. i \in 0 .. MaxCreated /\ s \in Name /\ access[w].nth # 0
    BY <1>7 DEF Centre!Assign, Centre!Does, CentreInv, CentreFound, CentreType, CentreRequest
  <2>3. CASE UNCHANGED <<of, stood, blind>>
    BY <1>2, <2>1, <2>3 DEF CentreInv, CentreType, Centre!ServersStandWherePlaced, Centre!Exists
  <2>4. CASE Centre!Place(s, i, Centre!Nth(i) = access[w].nth)
    <3> DEFINE seen == Centre!Nth(i) = access[w].nth
    <3>1. seen \in BOOLEAN /\ Centre!Place(s, i, seen) /\ (seen => Centre!Nth(i) # 0)
      BY <2>2, <2>4
    <3> HIDE DEF seen, i, s
    <3> QED
      BY <1>2, <1>6, <2>1, <2>2, <3>1
  <2> QED
    BY <1>7, <2>3, <2>4 DEF Centre!Assign
<1>8. ASSUME NEW w \in Worker, Centre!Unassign(w) PROVE CentreInv'
  <2> DEFINE s == access[w].server
  <2>1. /\ access' = [access EXCEPT ![w] = Centre!Free] /\ UNCHANGED <<centre, created, stood, blind>>
        /\ of' = [of EXCEPT ![s] = 0]
    BY <1>8 DEF Centre!Unassign, Centre!Does
  <2> HIDE DEF s
  <2>2. CentreType'
    <3>1. of' \in [Name -> 0 .. MaxCreated]
      <4>1. 0 \in 0 .. MaxCreated
        BY CentreConstants
      <4> QED
        BY <2>1, <4>1 DEF CentreInv, CentreType
    <3> QED
      BY <1>2, <2>1, <3>1 DEF CentreInv, CentreType
  <2>3. Centre!ServersStandWherePlaced'
    BY <2>1 DEF CentreInv, CentreType, Centre!ServersStandWherePlaced, Centre!Exists
  <2> QED
    BY <1>2, <2>1, <2>2, <2>3 DEF CentreInv
<1>9. ASSUME NEW s \in Name, NEW i \in Centre!Id \cup {0}, Centre!PlaceUnseen(s, i) PROVE CentreInv'
  <2>1. i \in 0 .. MaxCreated
    BY CentreConstants DEF CentreId
  <2>2. Centre!Place(s, i, FALSE) /\ UNCHANGED <<centre, created, access>>
    BY <1>9 DEF Centre!PlaceUnseen
  <2>3. access' \in [Worker -> CentreRequest] /\ \A v \in Worker : CentreFound(access'[v])
    BY <2>2 DEF CentreInv, CentreType
  <2> QED
    BY <1>6, <2>1, <2>2, <2>3
<1>10. CASE UNCHANGED Centre!vars
  BY <1>10 DEF Centre!vars, CentreInv, CentreType, Centre!ServersStandWherePlaced, Centre!Exists
<1> QED
  BY <1>1, <1>3, <1>4, <1>5, <1>7, <1>8, <1>9, <1>10 DEF Centre!Next

\* Whatever requests about the centres overlap, in either database: a server that was placed in a
\* centre stands in that very one, unless the centre was deleted under the request that placed it.
THEOREM ServersStand == StoresSpec => []ServersStandWherePlaced
<1>1. StoresInit => CentreInv
  BY CentreInit DEF StoresInit
<1>2. CentreInv /\ [StoresNext]_<<part, vars, logVars, accountVars, centreVars, siteVars, responseVars>>
        => CentreInv'
  <2>1. StoresNext => [Centre!Next]_(Centre!vars)
    BY DEF StoresNext, centreVars, Centre!vars
  <2>2. UNCHANGED <<part, vars, logVars, accountVars, centreVars, siteVars, responseVars>>
          => UNCHANGED Centre!vars
    BY DEF centreVars, Centre!vars
  <2> QED
    BY <2>1, <2>2, CentreStep
<1>3. CentreInv => ServersStandWherePlaced
  BY DEF CentreInv, ServersStandWherePlaced
<1> QED
  BY <1>1, <1>2, <1>3, PTL DEF StoresSpec
(***************************************************************************)
(* Accounts.  Who changes another user is an administrator afterwards, or  *)
(* was none any more; the second factor of a user whose requests have not  *)
(* overlapped is written as it was read; and the requests that have found  *)
(* room for a token are counted with the tokens.                           *)
(***************************************************************************)
Role == {"super_admin", "other"}
Factor == [enabled : BOOLEAN, secret : {None} \cup Nat, codes : SUBSET Code]
FactorKinds == {"setup", "enable", "disable", "code"}

AccountType ==
  /\ role \in [User -> Role \cup {None}] /\ active \in [User -> BOOLEAN]
  /\ factor \in [User -> Factor]
  /\ proved \in [User -> {None} \cup Nat] /\ spent \in [User -> SUBSET Code]
  /\ tokens \in [User -> Nat] /\ secrets \in Nat
  /\ mixed \subseteq User
  /\ req = [w \in Worker |-> req[w]]

\* What a request has found when it read.
AccountFound(q) ==
  /\ q.kind = "change" => q.by \in User /\ q.user \in User \ {q.by} /\ q.active \in BOOLEAN
                          /\ q.what \in Role \cup {"toggle", "delete"}
  /\ q.kind \in FactorKinds => q.user \in User /\ q.read \in Factor
  /\ q.kind \in {"setup", "enable"} => ~q.read.enabled
  /\ q.kind = "enable" => q.read.secret \in {None} \cup Nat
  /\ q.kind = "code" => q.code \in Code
  /\ q.kind = "token" => q.user \in User

Promised(u) == {w \in Worker : req[w] # None /\ req[w].kind = "token" /\ req[w].user = u}

AccountInv ==
  /\ AccountType
  /\ \A w \in Worker : req[w] # None => AccountFound(req[w])
  /\ Account!AnAdministratorIsLeft
  /\ Account!FactorIsTheUsers
  /\ \A u \in User : tokens[u] + Cardinality(Promised(u)) <= MaxTokens + Cardinality(Worker) - 1

LEMMA AccountConstants ==
  /\ IsFiniteSet(Worker) /\ Worker # {} /\ MaxTokens \in Nat /\ None \notin Role
  /\ Cardinality(Worker) \in Nat \ {0}
<1>1. Account!ConstantsAssumption /\ IsFiniteSet(Worker)
  BY PartsAssumption DEF ConstantsAssumption
<1>2. Worker # {} /\ MaxTokens \in Nat /\ None \notin Role
  BY <1>1, Zenon DEF Account!ConstantsAssumption, Role
<1> QED
  BY <1>1, <1>2, FS_CardinalityType, FS_EmptySet

LEMMA AccountCardinality == ASSUME NEW S PROVE Account!Cardinality(S) = Cardinality(S)
  BY Zenon DEF Account!Cardinality, Cardinality

LEMMA PromisedIsSmall ==
  ASSUME NEW u
  PROVE  /\ IsFiniteSet(Promised(u)) /\ Cardinality(Promised(u)) \in Nat
         /\ Cardinality(Promised(u)) <= Cardinality(Worker)
<1>1. Promised(u) \subseteq Worker
  BY DEF Promised
<1> QED
  BY <1>1, AccountConstants, FS_Subset, FS_CardinalityType

LEMMA AccountInit == Account!Init => AccountInv
<1> SUFFICES ASSUME Account!Init PROVE AccountInv
  OBVIOUS
<1> USE DEF Account!Init
<1>1. AccountType /\ \A w \in Worker : req[w] = None
  BY DEF AccountType, Role, Factor, Account!NoFactor
<1>2. Account!AnAdministratorIsLeft
  <2>1. PICK u \in User : role[u] = "super_admin"
    OBVIOUS
  <2> QED
    BY <2>1, AccountConstants
       DEF Account!AnAdministratorIsLeft, Account!Administers, Account!MayAsk, Account!Exists, Role
<1>3. Account!FactorIsTheUsers
  BY DEF Account!FactorIsTheUsers, Account!NoFactor
<1>4. ASSUME NEW u \in User
      PROVE  tokens[u] + Cardinality(Promised(u)) <= MaxTokens + Cardinality(Worker) - 1
  <2>1. tokens[u] = 0 /\ Promised(u) = {}
    BY <1>1 DEF Promised
  <2> QED
    BY <2>1, AccountConstants, FS_EmptySet
<1> QED
  BY <1>1, <1>2, <1>3, <1>4 DEF AccountInv

\* A request reads, and nothing is written.
LEMMA AccountReads ==
  ASSUME AccountInv, NEW w \in Worker, NEW q, AccountFound(q), Account!Begin(w, q),
         q.kind = "token" => tokens[q.user] < MaxTokens
  PROVE  AccountInv'
<1>1. /\ req[w] = None /\ req' = [req EXCEPT ![w] = q]
      /\ UNCHANGED <<role, active, factor, tokens, proved, spent, secrets, mixed, ousted>>
  BY DEF Account!Begin, Account!account, Account!second, Account!token
<1>2. AccountType' /\ req'[w] = q /\ \A v \in Worker \ {w} : req'[v] = req[v]
  BY <1>1 DEF AccountInv, AccountType
<1>3. \A v \in Worker : req'[v] # None => AccountFound(req'[v])
  BY <1>2 DEF AccountInv
<1>4. Account!AnAdministratorIsLeft' /\ Account!FactorIsTheUsers'
  BY <1>1 DEF AccountInv, Account!AnAdministratorIsLeft, Account!FactorIsTheUsers,
              Account!Administers, Account!MayAsk, Account!Exists
<1>5. ASSUME NEW u \in User
      PROVE  tokens'[u] + Cardinality(Promised(u)') <= MaxTokens + Cardinality(Worker) - 1
  <2>1. CASE Promised(u)' = Promised(u)
    BY <1>1, <2>1 DEF AccountInv
  <2>2. CASE Promised(u)' # Promised(u)
    <3>1. q.kind = "token" /\ q.user = u
      BY <1>1, <1>2, <2>2 DEF Promised
    <3>2. tokens[u] \in Nat /\ tokens[u] < MaxTokens
      BY <3>1 DEF AccountInv, AccountType
    <3>3. Promised(u)' \subseteq Worker
      BY DEF Promised
    <3>4. Cardinality(Promised(u)') \in Nat /\ Cardinality(Promised(u)') <= Cardinality(Worker)
      BY <3>3, AccountConstants, FS_Subset, FS_CardinalityType
    <3> QED
      BY <1>1, <3>2, <3>4, AccountConstants
  <2> QED
    BY <2>1, <2>2
<1> QED
  BY <1>2, <1>3, <1>4, <1>5 DEF AccountInv

LEMMA AccountBegins ==
  ASSUME AccountInv, NEW w \in Worker, NEW u \in User,
         \/ \E a \in User, what \in {"super_admin", "other", "toggle", "delete"} :
              Account!BeginChange(w, a, u, what)
         \/ \E kind \in {"setup", "enable", "disable"} : Account!BeginFactor(w, u, kind)
         \/ \E c \in Code : Account!BeginCode(w, u, c)
         \/ Account!BeginToken(w, u)
  PROVE  AccountInv'
<1>1. ASSUME NEW a \in User, NEW what \in {"super_admin", "other", "toggle", "delete"},
             Account!BeginChange(w, a, u, what)
      PROVE  AccountInv'
  <2> DEFINE q == [kind |-> "change", by |-> a, user |-> u, what |-> what,
                   role |-> role[u], active |-> active[u]]
  <2>1. AccountFound(q) /\ q.kind = "change"
    BY <1>1 DEF Account!BeginChange, Account!MayChange, AccountInv, AccountType, AccountFound,
                FactorKinds, Role
  <2>2. Account!Begin(w, q)
    BY <1>1 DEF Account!BeginChange
  <2> HIDE DEF q
  <2> QED
    BY <2>1, <2>2, AccountReads
<1>2. ASSUME NEW kind \in {"setup", "enable", "disable"}, Account!BeginFactor(w, u, kind)
      PROVE  AccountInv'
  <2> DEFINE q == [kind |-> kind, user |-> u, read |-> factor[u]]
  <2>1. factor[u] \in Factor /\ (kind \in {"setup", "enable"} => ~factor[u].enabled)
    BY <1>2 DEF Account!BeginFactor, AccountInv, AccountType
  <2>2. factor[u].secret \in {None} \cup Nat
    BY <2>1 DEF Factor
  <2>3. AccountFound(q) /\ q.kind # "token"
    BY <2>1, <2>2 DEF AccountFound, FactorKinds
  <2>4. Account!Begin(w, q)
    BY <1>2 DEF Account!BeginFactor
  <2> HIDE DEF q
  <2> QED
    BY <2>3, <2>4, AccountReads
<1>3. ASSUME NEW c \in Code, Account!BeginCode(w, u, c) PROVE AccountInv'
  <2> DEFINE q == [kind |-> "code", user |-> u, read |-> factor[u], code |-> c]
  <2>1. factor[u] \in Factor
    BY DEF AccountInv, AccountType
  <2>2. AccountFound(q) /\ q.kind = "code"
    BY <2>1 DEF AccountFound, FactorKinds
  <2>3. Account!Begin(w, q)
    BY <1>3 DEF Account!BeginCode
  <2> HIDE DEF q
  <2> QED
    BY <2>2, <2>3, AccountReads
<1>4. CASE Account!BeginToken(w, u)
  <2> DEFINE q == [kind |-> "token", user |-> u]
  <2>1. AccountFound(q) /\ q.user = u
    BY DEF AccountFound, FactorKinds
  <2>2. Account!Begin(w, q) /\ tokens[u] < MaxTokens
    BY <1>4 DEF Account!BeginToken
  <2> HIDE DEF q
  <2> QED
    BY <2>1, <2>2, AccountReads
<1> QED
  BY <1>1, <1>2, <1>3, <1>4

\* A request ends that was for no token.
LEMMA AccountEnds ==
  ASSUME AccountInv, NEW w \in Worker, req[w] # None, req[w].kind # "token",
         Account!End(w), UNCHANGED tokens
  PROVE  /\ req' = [v \in Worker |-> req'[v]]
         /\ \A v \in Worker : req'[v] # None => AccountFound(req'[v])
         /\ \A u \in User : tokens'[u] + Cardinality(Promised(u)') <= MaxTokens + Cardinality(Worker) - 1
<1>1. req' = [req EXCEPT ![w] = None]
  BY DEF Account!End
<1>2. /\ req' = [v \in Worker |-> req'[v]]
      /\ req'[w] = None
      /\ \A v \in Worker \ {w} : req'[v] = req[v]
  BY <1>1 DEF AccountInv, AccountType
<1>3. ASSUME NEW u \in User PROVE Promised(u)' = Promised(u)
  <2>1. \A v \in Worker : req'[v] # None /\ req'[v].kind = "token" /\ req'[v].user = u
                           <=> req[v] # None /\ req[v].kind = "token" /\ req[v].user = u
    BY <1>2
  <2> QED
    BY <2>1 DEF Promised
<1> QED
  BY <1>2, <1>3 DEF AccountInv

LEMMA AccountChanges ==
  ASSUME AccountInv, NEW w \in Worker, Account!CommitChange(w)
  PROVE  AccountInv'
<1> DEFINE q == req[w]
<1>1. /\ q # None /\ q.kind = "change" /\ Account!End(w)
      /\ UNCHANGED <<secrets, proved, spent, mixed, tokens, issued>>
      /\ ousted' = (ousted \/ ~Account!Administers(q.by))
      /\ factor' = IF role'[q.user] = None THEN [factor EXCEPT ![q.user] = Account!NoFactor] ELSE factor
  BY DEF Account!CommitChange, Account!Asks, Account!token
<1>2. q.by \in User /\ q.user \in User /\ q.user # q.by /\ q.active \in BOOLEAN
      /\ q.what \in {"super_admin", "other", "toggle", "delete"}
  BY <1>1 DEF AccountInv, AccountFound, Role
<1>3. /\ role' \in [User -> Role \cup {None}] /\ active' \in [User -> BOOLEAN]
      /\ \A u \in User \ {q.user} : role'[u] = role[u] /\ active'[u] = active[u]
      /\ role[q.user] = None => role'[q.user] = None
  <2>1. CASE q.what \in {"super_admin", "other"}
    <3>1. role' = Account!Changed(role, q.user, q.role, q.what) /\ UNCHANGED active
      BY <2>1 DEF Account!CommitChange
    <3> HIDE DEF q
    <3> QED
      BY <1>2, <2>1, <3>1 DEF AccountInv, AccountType, Account!Changed, Account!Exists, Role
  <2>2. CASE q.what = "toggle"
    <3>1. active' = Account!Changed(active, q.user, q.active, ~q.active) /\ UNCHANGED role
      BY <2>2 DEF Account!CommitChange
    <3> HIDE DEF q
    <3> QED
      BY <1>2, <3>1 DEF AccountInv, AccountType, Account!Changed
  <2>3. CASE q.what = "delete"
    <3>1. role' \in {role, [role EXCEPT ![q.user] = None]} /\ UNCHANGED active
      BY <2>3 DEF Account!CommitChange
    <3> HIDE DEF q
    <3> QED
      BY <1>2, <3>1 DEF AccountInv, AccountType
  <2> QED
    BY <1>2, <2>1, <2>2, <2>3
<1> HIDE DEF q
<1>4. /\ factor' \in [User -> Factor]
      /\ \A u \in User : factor'[u] = factor[u] \/ ~factor'[u].enabled
  BY <1>1, <1>2 DEF AccountInv, AccountType, Factor, Account!NoFactor
<1>5. Account!AnAdministratorIsLeft'
  <2>1. CASE Account!Administers(q.by)
    <3>1. PICK a \in User : a = q.by
      BY <1>2
    <3>2. role'[a] = role[a] /\ active'[a] = active[a]
      BY <1>2, <1>3, <3>1
    <3> QED
      BY <2>1, <3>1, <3>2 DEF Account!AnAdministratorIsLeft, Account!Administers, Account!MayAsk, Account!Exists
  <2>2. CASE ~Account!Administers(q.by)
    BY <1>1, <2>2 DEF Account!AnAdministratorIsLeft
  <2> QED
    BY <2>1, <2>2
<1>6. Account!FactorIsTheUsers'
  BY <1>1, <1>2, <1>3, <1>4 DEF AccountInv, Account!FactorIsTheUsers, Account!Exists
<1>7. AccountType'
  BY <1>1, <1>3, <1>4, AccountEnds DEF AccountInv, AccountType, q
<1> QED
  BY <1>1, <1>5, <1>6, <1>7, AccountEnds DEF AccountInv, q

LEMMA AccountFactors ==
  ASSUME AccountInv, NEW w \in Worker, Account!CommitFactor(w)
  PROVE  AccountInv'
<1> DEFINE q == req[w]  row == factor[q.user]  new == Account!Written(q)
<1>1. /\ q # None /\ q.kind \in FactorKinds /\ Account!End(w)
      /\ UNCHANGED <<role, active, tokens, ousted>>
  BY DEF Account!CommitFactor, Account!Asks, Account!token, Account!account, FactorKinds
<1>2. /\ q.user \in User /\ q.read \in Factor
      /\ q.kind \in {"setup", "enable"} => ~q.read.enabled
      /\ q.kind = "code" => q.code \in Code
  BY <1>1 DEF AccountInv, AccountFound
<1>3. /\ secrets' = IF q.kind = "setup" THEN secrets + 1 ELSE secrets
      /\ factor' = IF Account!Exists(q.user) THEN [factor EXCEPT ![q.user] = Account!Merged(q)] ELSE factor
      /\ proved' = IF q.kind = "enable" THEN [proved EXCEPT ![q.user] = q.read.secret] ELSE proved
      /\ mixed' = IF row = q.read THEN mixed ELSE mixed \cup {q.user}
  BY DEF Account!CommitFactor
<1>4. /\ q.kind = "enable" => spent' = [spent EXCEPT ![q.user] = {}]
      /\ q.kind = "code" => spent' = [spent EXCEPT ![q.user] = @ \cup {q.code}]
      /\ q.kind \notin {"enable", "code"} => spent' = spent
  BY DEF Account!CommitFactor
<1>5. row \in Factor /\ secrets \in Nat
  BY <1>2 DEF AccountInv, AccountType
<1>6. /\ new \in Factor
      /\ q.kind = "setup" => ~new.enabled
      /\ q.kind = "enable" => new.secret = q.read.secret
      /\ q.kind = "disable" => ~new.enabled
      /\ q.kind = "code" => new.enabled = q.read.enabled /\ new.secret = q.read.secret
                            /\ new.codes = q.read.codes \ {q.code}
  <2>1. q.read = [enabled |-> q.read.enabled, secret |-> q.read.secret, codes |-> q.read.codes]
        /\ q.read.enabled \in BOOLEAN /\ q.read.secret \in {None} \cup Nat /\ q.read.codes \in SUBSET Code
    BY <1>2 DEF Factor
  <2> HIDE DEF q
  <2>2. CASE q.kind = "setup"
    <3>1. new = [q.read EXCEPT !.secret = secrets + 1]
      BY <2>2 DEF Account!Written
    <3>2. new = [enabled |-> q.read.enabled, secret |-> secrets + 1, codes |-> q.read.codes]
      BY <1>2, <2>1, <3>1 DEF Factor
    <3> QED
      BY <1>2, <1>5, <2>1, <2>2, <3>2 DEF Factor
  <2>3. CASE q.kind = "enable"
    <3>1. new = [q.read EXCEPT !.enabled = TRUE, !.codes = Code]
      BY <2>3 DEF Account!Written
    <3>2. new = [enabled |-> TRUE, secret |-> q.read.secret, codes |-> Code]
      BY <1>2, <2>1, <3>1 DEF Factor
    <3> QED
      BY <2>1, <2>3, <3>2 DEF Factor
  <2>4. CASE q.kind = "disable"
    <3>1. new = [enabled |-> FALSE, secret |-> None, codes |-> {}]
      BY <2>4 DEF Account!Written, Account!NoFactor
    <3> QED
      BY <2>4, <3>1 DEF Factor
  <2>5. CASE q.kind = "code"
    <3>1. new = [q.read EXCEPT !.codes = @ \ {q.code}]
      BY <2>5 DEF Account!Written
    <3>2. new = [enabled |-> q.read.enabled, secret |-> q.read.secret, codes |-> q.read.codes \ {q.code}]
      BY <1>2, <2>1, <3>1 DEF Factor
    <3> QED
      BY <1>2, <2>1, <2>5, <3>2 DEF Factor
  <2> QED
    BY <1>1, <2>2, <2>3, <2>4, <2>5 DEF FactorKinds
<1> DEFINE merged == Account!Merged(q)
<1>7. merged \in Factor /\ (row = q.read => merged = new)
  <2>1. merged = [f \in {"enabled", "secret", "codes"} |-> IF new[f] = q.read[f] THEN row[f] ELSE new[f]]
    BY DEF Account!Merged, Account!NoFactor
  <2> HIDE DEF merged, new, row, q
  <2>2. merged = [enabled |-> merged.enabled, secret |-> merged.secret, codes |-> merged.codes]
    BY <2>1
  <2>3. /\ merged.enabled \in {row.enabled, new.enabled}
        /\ merged.secret \in {row.secret, new.secret}
        /\ merged.codes \in {row.codes, new.codes}
    BY <2>1
  <2>4. merged \in Factor
    BY <1>5, <1>6, <2>2, <2>3 DEF Factor
  <2>5. ASSUME row = q.read PROVE merged = new
    <3>1. merged.enabled = new.enabled /\ merged.secret = new.secret /\ merged.codes = new.codes
      BY <2>1, <2>5
    <3> QED
      BY <1>6, <2>4, <3>1 DEF Factor
  <2> QED
    BY <2>4, <2>5
<1> HIDE DEF merged, new
<1>8. factor' = IF Account!Exists(q.user) THEN [factor EXCEPT ![q.user] = merged] ELSE factor
  BY <1>3 DEF merged
<1>9. \A u \in User \ {q.user} : factor'[u] = factor[u] /\ proved'[u] = proved[u] /\ spent'[u] = spent[u]
                                  /\ (u \in mixed' <=> u \in mixed)
  <2> HIDE DEF q, row
  <2>1. \A u \in User \ {q.user} : factor'[u] = factor[u] /\ proved'[u] = proved[u]
                                   /\ (u \in mixed' <=> u \in mixed)
    BY <1>3, <1>8 DEF AccountInv, AccountType
  <2>2. \A u \in User \ {q.user} : spent'[u] = spent[u]
    BY <1>1, <1>4 DEF AccountInv, AccountType, FactorKinds
  <2> QED
    BY <2>1, <2>2
<1>10. ASSUME q.user \notin mixed', role[q.user] # None, factor'[q.user].enabled
       PROVE  factor'[q.user].secret = proved'[q.user] /\ factor'[q.user].codes \cap spent'[q.user] = {}
  <2>1. row = q.read /\ q.user \notin mixed
    BY <1>3, <1>10
  <2>2. factor'[q.user] = new
    BY <1>2, <1>7, <1>8, <1>10, <2>1 DEF AccountInv, AccountType, Account!Exists
  <2>3. CASE q.kind = "enable"
    <3>1. proved'[q.user] = q.read.secret /\ spent'[q.user] = {}
      BY <1>2, <1>3, <1>4, <2>3 DEF AccountInv, AccountType
    <3> QED
      BY <1>6, <2>2, <2>3, <3>1
  <2>4. CASE q.kind = "code"
    <3>1. row.secret = proved[q.user] /\ row.codes \cap spent[q.user] = {}
      BY <1>2, <1>6, <1>10, <2>1, <2>2, <2>4 DEF AccountInv, Account!FactorIsTheUsers, Account!Exists
    <3>2. proved'[q.user] = proved[q.user] /\ spent'[q.user] = spent[q.user] \cup {q.code}
      BY <1>2, <1>3, <1>4, <2>4 DEF AccountInv, AccountType
    <3> QED
      BY <1>6, <2>1, <2>2, <2>4, <3>1, <3>2
  <2> QED
    BY <1>1, <1>6, <1>10, <2>2, <2>3, <2>4 DEF FactorKinds
<1>11. Account!FactorIsTheUsers'
  <2> SUFFICES ASSUME NEW u \in User, u \notin mixed', role[u] # None, factor'[u].enabled
               PROVE  factor'[u].secret = proved'[u] /\ factor'[u].codes \cap spent'[u] = {}
    BY <1>1 DEF Account!FactorIsTheUsers, Account!Exists
  <2>1. CASE u = q.user
    BY <1>10, <2>1
  <2>2. CASE u # q.user
    BY <1>9, <2>2 DEF AccountInv, Account!FactorIsTheUsers, Account!Exists
  <2> QED
    BY <2>1, <2>2
<1>12. AccountType'
  <2>1. factor' \in [User -> Factor]
    BY <1>2, <1>7, <1>8 DEF AccountInv, AccountType
  <2>2. proved' \in [User -> {None} \cup Nat]
    BY <1>2, <1>3 DEF AccountInv, AccountType, Factor
  <2>3. spent' \in [User -> SUBSET Code]
    <3> HIDE DEF q
    <3> QED
      BY <1>1, <1>2, <1>4 DEF AccountInv, AccountType, FactorKinds
  <2>4. mixed' \subseteq User /\ secrets' \in Nat
    BY <1>2, <1>3, <1>5 DEF AccountInv, AccountType
  <2>5. q.kind # "token"
    BY <1>1 DEF FactorKinds
  <2> QED
    BY <1>1, <2>1, <2>2, <2>3, <2>4, <2>5, AccountEnds DEF AccountInv, AccountType
<1>13. Account!AnAdministratorIsLeft'
  BY <1>1 DEF AccountInv, Account!AnAdministratorIsLeft, Account!Administers, Account!MayAsk, Account!Exists
<1>14. q.kind # "token"
  BY <1>1 DEF FactorKinds
<1> QED
  BY <1>1, <1>11, <1>12, <1>13, <1>14, AccountEnds DEF AccountInv

LEMMA AccountTokens ==
  ASSUME AccountInv, NEW w \in Worker, Account!CommitToken(w)
  PROVE  AccountInv'
<1> DEFINE u == req[w].user
<1>1. /\ req[w] # None /\ req[w].kind = "token"
      /\ req' = [req EXCEPT ![w] = None] /\ tokens' = [tokens EXCEPT ![u] = @ + 1]
      /\ UNCHANGED <<role, active, factor, secrets, proved, spent, mixed, ousted>>
  BY DEF Account!CommitToken, Account!Asks, Account!End, Account!account, Account!second
<1>2. u \in User
  BY <1>1 DEF AccountInv, AccountFound
<1>3. AccountType' /\ req'[w] = None /\ \A v \in Worker \ {w} : req'[v] = req[v]
  BY <1>1, <1>2 DEF AccountInv, AccountType
<1>4. \A v \in Worker : req'[v] # None => AccountFound(req'[v])
  BY <1>3 DEF AccountInv
<1>5. Account!AnAdministratorIsLeft' /\ Account!FactorIsTheUsers'
  BY <1>1 DEF AccountInv, Account!AnAdministratorIsLeft, Account!FactorIsTheUsers,
              Account!Administers, Account!MayAsk, Account!Exists
<1>6. ASSUME NEW v \in User
      PROVE  tokens'[v] + Cardinality(Promised(v)') <= MaxTokens + Cardinality(Worker) - 1
  <2> HIDE DEF u
  <2>1. CASE v # u
    <3>1. Promised(v)' = Promised(v)
      BY <1>3, <2>1 DEF Promised, u
    <3> QED
      BY <1>1, <1>2, <2>1, <3>1 DEF AccountInv, AccountType
  <2>2. CASE v = u
    <3>1. Promised(v)' = Promised(v) \ {w} /\ w \in Promised(v)
      BY <1>1, <1>3, <2>2 DEF Promised, u
    <3>2. Cardinality(Promised(v) \ {w}) = Cardinality(Promised(v)) - 1
      BY <3>1, PromisedIsSmall, FS_RemoveElement
    <3>3. tokens[v] \in Nat /\ tokens'[v] = tokens[v] + 1
      BY <1>1, <1>2, <2>2 DEF AccountInv, AccountType
    <3> QED
      BY <3>1, <3>2, <3>3, PromisedIsSmall, AccountConstants DEF AccountInv
  <2> QED
    BY <2>1, <2>2
<1> QED
  BY <1>3, <1>4, <1>5, <1>6 DEF AccountInv

LEMMA AccountStep == AccountInv /\ [Account!Next]_(Account!vars) => AccountInv'
<1> SUFFICES ASSUME AccountInv, [Account!Next]_(Account!vars) PROVE AccountInv'
  OBVIOUS
<1>1. ASSUME NEW u \in User, Account!DeleteToken(u) PROVE AccountInv'
  <2>1. /\ tokens[u] > 0 /\ tokens' = [tokens EXCEPT ![u] = @ - 1]
        /\ UNCHANGED <<role, active, factor, secrets, proved, spent, mixed, req, ousted>>
    BY <1>1 DEF Account!DeleteToken, Account!account, Account!second
  <2>2. AccountType'
    BY <2>1 DEF AccountInv, AccountType
  <2>3. Account!AnAdministratorIsLeft' /\ Account!FactorIsTheUsers'
    BY <2>1 DEF AccountInv, Account!AnAdministratorIsLeft, Account!FactorIsTheUsers,
                Account!Administers, Account!MayAsk, Account!Exists
  <2>4. \A v \in User : Promised(v)' = Promised(v) /\ tokens'[v] <= tokens[v] /\ tokens'[v] \in Nat /\ tokens[v] \in Nat
    BY <2>1 DEF AccountInv, AccountType, Promised
  <2>5. \A v \in User : tokens'[v] + Cardinality(Promised(v)') <= MaxTokens + Cardinality(Worker) - 1
    BY <2>4, PromisedIsSmall, AccountConstants DEF AccountInv
  <2> QED
    BY <2>1, <2>2, <2>3, <2>5 DEF AccountInv
<1>2. ASSUME NEW u \in User, NEW new \in {"super_admin", "other"}, Account!CreateUser(u, new)
      PROVE  AccountInv'
  <2>1. /\ role[u] = None
        /\ role' = [role EXCEPT ![u] = new] /\ active' = [active EXCEPT ![u] = TRUE]
        /\ factor' = [factor EXCEPT ![u] = Account!NoFactor]
        /\ UNCHANGED <<secrets, proved, spent, mixed, tokens, req, ousted>>
    BY <1>2 DEF Account!CreateUser, Account!Exists, Account!token
  <2>2. Account!NoFactor \in Factor /\ ~Account!NoFactor.enabled
    BY DEF Account!NoFactor, Factor
  <2>3. AccountType'
    BY <2>1, <2>2 DEF AccountInv, AccountType, Role
  <2>4. \A v \in User \ {u} : role'[v] = role[v] /\ active'[v] = active[v] /\ factor'[v] = factor[v]
    BY <2>1 DEF AccountInv, AccountType
  <2>5. Account!AnAdministratorIsLeft'
    BY <2>1, <2>4 DEF AccountInv, Account!AnAdministratorIsLeft, Account!Administers, Account!MayAsk, Account!Exists
  <2>6. Account!FactorIsTheUsers'
    BY <2>1, <2>2, <2>4 DEF AccountInv, AccountType, Account!FactorIsTheUsers, Account!Exists
  <2>7. \A v \in User : Promised(v)' = Promised(v)
    BY <2>1 DEF Promised
  <2> QED
    BY <2>1, <2>3, <2>5, <2>6, <2>7 DEF AccountInv
<1>3. CASE UNCHANGED Account!vars
  BY <1>3 DEF Account!vars, Account!account, Account!second, Account!token, AccountInv, AccountType,
     Account!AnAdministratorIsLeft, Account!FactorIsTheUsers, Account!Administers, Account!MayAsk,
     Account!Exists, Promised
<1> QED
  BY <1>1, <1>2, <1>3, AccountBegins, AccountChanges, AccountFactors, AccountTokens DEF Account!Next

\* Whatever requests overlap, and for any number of them: somebody can administer the panel, unless
\* the request of an administrator has ended after its own rights did; a user comes in with a second
\* factor that it has confirmed; and nobody has many more tokens than allowed.
THEOREM AccountsSound == StoresSpec => []AccountsAreSound
<1>1. StoresInit => AccountInv
  BY AccountInit DEF StoresInit
<1>2. AccountInv /\ [StoresNext]_<<part, vars, logVars, accountVars, centreVars, siteVars, responseVars>>
        => AccountInv'
  <2>1. StoresNext => [Account!Next]_(Account!vars)
    BY DEF StoresNext, accountVars, Account!vars, Account!account, Account!second, Account!token
  <2>2. UNCHANGED <<part, vars, logVars, accountVars, centreVars, siteVars, responseVars>>
          => UNCHANGED Account!vars
    BY DEF accountVars, Account!vars, Account!account, Account!second, Account!token
  <2> QED
    BY <2>1, <2>2, AccountStep
<1>3. AccountInv => AccountsAreSound
  <2> SUFFICES ASSUME AccountInv, NEW u \in User
               PROVE  tokens[u] <= MaxTokens + Cardinality(Worker) - 1
    BY AccountCardinality DEF AccountInv, AccountsAreSound, Account!AccountsAreSound, Account!TokensAreFew
  <2>1. tokens[u] \in Nat
    BY DEF AccountInv, AccountType
  <2> QED
    BY <2>1, PromisedIsSmall, AccountConstants DEF AccountInv
<1> QED
  BY <1>1, <1>2, <1>3, PTL DEF StoresSpec
(***************************************************************************)
(* WebSites.  About a slug that has seen no overlap there is at most one   *)
(* request at a time: what it has saved, opened and extracted is its own,  *)
(* and what has failed before leaves files of a single archive.            *)
(***************************************************************************)
SiteStages == {"idle", "mkdir", "insert", "rmtree", "forget", "save", "open", "clear", "extract"}
SiteRequest ==
  [slug : Slug \cup {None}, at : SiteStages, archive : Worker \cup {None}, bytes : Worker \cup {None},
   linked : BOOLEAN, left : SUBSET File]

SiteType ==
  /\ listed \subseteq Slug
  /\ site \in [Slug -> [File -> Worker \cup {None}]]
  /\ saved \in [Slug -> Worker \cup {None}] /\ served \in [Slug -> Worker \cup {None}]
  /\ upload \in [Worker -> SiteRequest]
  /\ \A r \in Worker : upload[r].at # "idle" => upload[r].slug \in Slug

AtWork(r, s) == upload[r].at # "idle" /\ upload[r].slug = s

SiteIsWhole(s) ==
  /\ \E x \in Worker \cup {None} : \A f \in File : site[s][f] \in {x, None}
  /\ served[s] # None => \A f \in File : site[s][f] = served[s]
  /\ s \notin listed => \A f \in File : site[s][f] = None

\* Where the only request about a slug stands.
UploadStands(r, s) ==
  /\ upload[r].at \in {"save", "open", "clear", "extract"} => s \in listed
  /\ upload[r].at = "forget" => \A f \in File : site[s][f] = None
  /\ upload[r].at = "open" => saved[s] = r
  /\ upload[r].at = "clear" => upload[r].left = File
  /\ upload[r].at \in {"clear", "extract"} => upload[r].archive = r /\ upload[r].bytes = r
  /\ upload[r].at = "extract" =>
       /\ \A f \in File : site[s][f] \in {r, None} /\ (f \notin upload[r].left => site[s][f] = r)
       /\ served[s] = None

SiteIsSound(s) ==
  /\ SiteIsWhole(s)
  /\ \A q, r \in Worker : AtWork(q, s) /\ AtWork(r, s) => q = r
  /\ \A r \in Worker : AtWork(r, s) => UploadStands(r, s)

SiteInv == SiteType /\ \A s \in Slug \ overlapped : SiteIsSound(s)

LEMMA FreeUpload ==
  /\ Site!Free = [slug |-> None, at |-> "idle", archive |-> None, bytes |-> None,
                  linked |-> FALSE, left |-> {}]
  /\ Site!Free \in SiteRequest /\ Site!Free.at = "idle"
  BY DEF Site!Free, Site!Working, SiteRequest, SiteStages

LEMMA SiteInit == Site!Init => SiteInv
<1> SUFFICES ASSUME Site!Init PROVE SiteInv
  OBVIOUS
<1>1. /\ listed = {} /\ overlapped = {} /\ upload = [r \in Worker |-> Site!Free]
      /\ site = [s \in Slug |-> [f \in File |-> None]]
      /\ saved = [s \in Slug |-> None] /\ served = [s \in Slug |-> None]
  BY DEF Site!Init, Site!Empty
<1>2. \A r \in Worker : upload[r] \in SiteRequest /\ upload[r].at = "idle"
  BY <1>1, FreeUpload
<1>3. SiteType
  BY <1>1, <1>2 DEF SiteType
<1> QED
  BY <1>1, <1>2, <1>3 DEF SiteInv, SiteIsSound, SiteIsWhole, AtWork

\* A request works on its slug: the other slugs stay as they are, and so do the requests about them.
LEMMA SiteWorks ==
  ASSUME SiteInv, SiteType', NEW r \in Worker, NEW s \in Slug, AtWork(r, s),
         overlapped' = overlapped,
         \A t \in Slug \ {s} : /\ site'[t] = site[t] /\ saved'[t] = saved[t] /\ served'[t] = served[t]
                               /\ (t \in listed' <=> t \in listed),
         \A q \in Worker \ {r} : /\ upload'[q].at = upload[q].at /\ upload'[q].slug = upload[q].slug
                                 /\ upload[q].slug # s => upload'[q] = upload[q],
         upload'[r].at = "idle" \/ upload'[r].slug = s,
         SiteIsSound(s) => SiteIsWhole(s)' /\ (AtWork(r, s)' => UploadStands(r, s)')
  PROVE  SiteInv'
<1> SUFFICES ASSUME NEW t \in Slug, t \notin overlapped PROVE SiteIsSound(t)'
  BY DEF SiteInv
<1>1. SiteIsSound(t)
  BY DEF SiteInv
<1>2. CASE t = s
  <2>1. \A q \in Worker : AtWork(q, s)' => AtWork(q, s)
    BY DEF AtWork
  <2>2. \A q \in Worker : AtWork(q, s)' => q = r
    BY <1>1, <1>2, <2>1 DEF SiteIsSound
  <2> QED
    BY <1>1, <1>2, <2>2 DEF SiteIsSound
<1>3. CASE t # s
  <2>1. \A q \in Worker : AtWork(q, t)' => AtWork(q, t) /\ q # r /\ upload'[q] = upload[q]
    BY <1>3 DEF AtWork
  <2>2. SiteIsWhole(t)'
    BY <1>1, <1>3 DEF SiteIsSound, SiteIsWhole
  <2>3. ASSUME NEW q \in Worker, AtWork(q, t)' PROVE UploadStands(q, t)'
    <3>1. UploadStands(q, t) /\ upload'[q] = upload[q]
      BY <1>1, <2>1, <2>3 DEF SiteIsSound
    <3> QED
      BY <1>3, <3>1 DEF UploadStands
  <2> QED
    BY <1>1, <2>1, <2>2, <2>3 DEF SiteIsSound
<1> QED
  BY <1>2, <1>3

LEMMA SiteBegins ==
  ASSUME SiteInv, NEW r \in Worker, NEW s \in Slug, NEW kind \in {"create", "delete", "upload"},
         Site!Begin(r, s, kind)
  PROVE  SiteInv'
<1> DEFINE new == Site!Working(s, Site!FirstOf(kind), None, FALSE, {})
<1>1. /\ upload[r].at = "idle" /\ upload' = [upload EXCEPT ![r] = new]
      /\ (kind = "create") <=> s \notin listed
      /\ UNCHANGED <<listed, site, saved, served>>
      /\ overlapped' = IF Site!Others(r, s) # {} THEN overlapped \cup {s} ELSE overlapped
  BY FreeUpload DEF Site!Begin
<1>2. /\ new \in SiteRequest /\ new.slug = s
      /\ new.at = CASE kind = "create" -> "mkdir" [] kind = "delete" -> "rmtree" [] kind = "upload" -> "save"
  BY DEF Site!Working, Site!FirstOf, SiteRequest, SiteStages
<1> HIDE DEF new
<1>3. upload'[r] = new /\ \A q \in Worker \ {r} : upload'[q] = upload[q]
  BY <1>1 DEF SiteInv, SiteType
<1>4. SiteType'
  BY <1>1, <1>2, <1>3 DEF SiteInv, SiteType
<1>5. ASSUME NEW t \in Slug, t \notin overlapped' PROVE SiteIsSound(t)'
  <2>1. SiteIsSound(t) /\ SiteIsWhole(t)'
    BY <1>1, <1>5 DEF SiteInv, SiteIsSound, SiteIsWhole
  <2>2. \A q \in Worker \ {r} : AtWork(q, t)' => AtWork(q, t) /\ UploadStands(q, t)'
    BY <1>1, <1>3, <2>1 DEF SiteIsSound, AtWork, UploadStands
  <2>3. CASE t = s
    <3>1. \A q \in Worker \ {r} : ~AtWork(q, s)'
      BY <1>1, <1>3, <1>5, <2>3 DEF Site!Others, AtWork
    <3>2. UploadStands(r, s)'
      BY <1>1, <1>2, <1>3 DEF UploadStands
    <3> QED
      BY <2>1, <2>3, <3>1, <3>2 DEF SiteIsSound
  <2>4. CASE t # s
    <3>1. ~AtWork(r, t)'
      BY <1>2, <1>3, <2>4 DEF AtWork
    <3> QED
      BY <2>1, <2>2, <3>1 DEF SiteIsSound
  <2> QED
    BY <2>3, <2>4
<1> QED
  BY <1>4, <1>5 DEF SiteInv

\* The state after a step that leaves the other requests alone.
LEMMA UploadType ==
  ASSUME SiteInv, NEW r \in Worker, NEW new \in SiteRequest, upload' = [upload EXCEPT ![r] = new],
         new.at # "idle" => new.slug \in Slug
  PROVE  /\ upload' \in [Worker -> SiteRequest] /\ upload'[r] = new
         /\ \A q \in Worker \ {r} : upload'[q] = upload[q]
         /\ \A q \in Worker : upload'[q].at # "idle" => upload'[q].slug \in Slug
  BY DEF SiteInv, SiteType

LEMMA UploadGoes ==
  ASSUME SiteInv, NEW r \in Worker, NEW at \in SiteStages \ {"idle"}, upload[r].at # "idle", Site!Goto(r, at)
  PROVE  /\ upload' \in [Worker -> SiteRequest]
         /\ upload'[r].at = at /\ upload'[r].slug = upload[r].slug /\ upload'[r].left = upload[r].left
         /\ upload'[r].archive = upload[r].archive /\ upload'[r].bytes = upload[r].bytes
         /\ \A q \in Worker \ {r} : upload'[q] = upload[q]
         /\ \A q \in Worker : upload'[q].at # "idle" => upload'[q].slug \in Slug
<1> DEFINE q == upload[r]
           new == [slug |-> q.slug, at |-> at, archive |-> q.archive, bytes |-> q.bytes,
                   linked |-> q.linked, left |-> q.left]
<1>1. q \in SiteRequest /\ q.slug \in Slug
  BY DEF SiteInv, SiteType
<1>2. upload' = [upload EXCEPT ![r] = new]
  <2>1. [q EXCEPT !.at = at] = new
    BY <1>1 DEF SiteRequest
  <2>2. upload' = [upload EXCEPT ![r] = [q EXCEPT !.at = at]]
    BY DEF Site!Goto
  <2> HIDE DEF new, q
  <2> QED
    BY <2>1, <2>2
<1>3. new \in SiteRequest
  BY <1>1 DEF SiteRequest
<1>4. new.slug = q.slug /\ new.at = at /\ new.left = q.left /\ new.archive = q.archive /\ new.bytes = q.bytes
  OBVIOUS
<1> HIDE DEF new, q
<1>5. upload'[r] = new
  BY <1>1, <1>2, <1>3, <1>4, UploadType
<1> QED
  BY <1>1, <1>2, <1>3, <1>4, <1>5, UploadType DEF q

\* An upload ends, and the temporary file of its slug with it.
LEMMA UploadUnlinks ==
  ASSUME SiteInv, NEW r \in Worker, NEW s \in Slug, AtWork(r, s), Site!Unlink(r)
  PROVE  /\ upload' \in [Worker -> SiteRequest] /\ saved' \in [Slug -> Worker \cup {None}]
         /\ upload'[r].at = "idle"
         /\ \A t \in Slug \ {s} : saved'[t] = saved[t]
         /\ \A q \in Worker \ {r} : /\ upload'[q].at = upload[q].at /\ upload'[q].slug = upload[q].slug
                                    /\ upload[q].slug # s => upload'[q] = upload[q]
         /\ \A q \in Worker : upload'[q].at # "idle" => upload'[q].slug \in Slug
<1> DEFINE Left(q) == IF q = r THEN Site!Free
                      ELSE IF upload[q].slug = s THEN [upload[q] EXCEPT !.linked = FALSE]
                      ELSE upload[q]
<1>1. saved' = [saved EXCEPT ![s] = None] /\ upload' = [q \in Worker |-> Left(q)]
  BY DEF Site!Unlink, AtWork
<1>a. \A q \in Worker : upload'[q] = Left(q)
  BY <1>1
<1> HIDE DEF Left
<1>b. upload' = [q \in Worker |-> upload'[q]]
  BY <1>1
<1>2. saved' \in [Slug -> Worker \cup {None}] /\ \A t \in Slug \ {s} : saved'[t] = saved[t]
  BY <1>1 DEF SiteInv, SiteType
<1>3. upload'[r] = Site!Free
  BY <1>a DEF Left
<1>4. ASSUME NEW q \in Worker \ {r}
      PROVE  /\ upload'[q] \in SiteRequest
             /\ upload'[q].at = upload[q].at /\ upload'[q].slug = upload[q].slug
             /\ upload[q].slug # s => upload'[q] = upload[q]
  <2>1. upload[q] \in SiteRequest
    BY DEF SiteInv, SiteType
  <2>2. upload'[q] = IF upload[q].slug = s THEN [upload[q] EXCEPT !.linked = FALSE] ELSE upload[q]
    BY <1>a DEF Left
  <2> QED
    BY <2>1, <2>2 DEF SiteRequest
<1>5. \A q \in Worker : upload'[q] \in SiteRequest
  BY <1>3, <1>4, FreeUpload
<1>6. upload' \in [Worker -> SiteRequest]
  BY <1>b, <1>5
<1>7. \A q \in Worker : upload'[q].at # "idle" => upload'[q].slug \in Slug
  BY <1>3, <1>4, FreeUpload DEF SiteInv, SiteType
<1> QED
  BY <1>2, <1>3, <1>4, <1>6, <1>7, FreeUpload

\* The upload is given up: the directory stays as it is.
LEMMA SiteGivesUp ==
  ASSUME SiteInv, NEW r \in Worker, upload[r].at # "idle", Site!GiveUp(r)
  PROVE  SiteInv'
<1>1. PICK s \in Slug : AtWork(r, s)
  BY DEF SiteInv, SiteType, AtWork
<1>2. Site!Unlink(r) /\ UNCHANGED <<listed, site, served, overlapped>>
  BY DEF Site!GiveUp
<1>3. SiteType'
  BY <1>1, <1>2, UploadUnlinks DEF SiteInv, SiteType
<1>4. upload'[r].at = "idle"
  BY <1>1, <1>2, UploadUnlinks
<1>5. SiteIsSound(s) => SiteIsWhole(s)' /\ (AtWork(r, s)' => UploadStands(r, s)')
  BY <1>2, <1>4 DEF SiteIsSound, SiteIsWhole, AtWork
<1> QED
  BY <1>1, <1>2, <1>3, <1>4, <1>5, UploadUnlinks, SiteWorks

\* Rows and directories are made and removed.
LEMMA SiteRows ==
  ASSUME SiteInv, NEW r \in Worker,
         Site!MakeDirectory(r) \/ Site!InsertRow(r) \/ Site!RemoveTree(r) \/ Site!DeleteRow(r)
  PROVE  SiteInv'
<1>0. upload[r].at # "idle"
  BY DEF Site!MakeDirectory, Site!InsertRow, Site!RemoveTree, Site!DeleteRow
<1>1. PICK s \in Slug : AtWork(r, s)
  BY <1>0 DEF SiteInv, SiteType, AtWork
<1>2. ASSUME upload' = [upload EXCEPT ![r] = Site!Free]
      PROVE  /\ upload' \in [Worker -> SiteRequest] /\ upload'[r].at = "idle"
             /\ \A q \in Worker \ {r} : upload'[q] = upload[q]
             /\ \A q \in Worker : upload'[q].at # "idle" => upload'[q].slug \in Slug
  BY <1>2, FreeUpload, UploadType
<1>3. CASE Site!MakeDirectory(r)
  <2>1. UNCHANGED <<listed, site, saved, served, overlapped>>
    BY <1>3 DEF Site!MakeDirectory
  <2>2. CASE Site!Goto(r, "insert")
    <3>1. /\ upload' \in [Worker -> SiteRequest]
          /\ upload'[r].at = "insert" /\ upload'[r].slug = upload[r].slug
          /\ \A q \in Worker \ {r} : upload'[q] = upload[q]
          /\ \A q \in Worker : upload'[q].at # "idle" => upload'[q].slug \in Slug
      BY <1>0, <2>2, UploadGoes DEF SiteStages
    <3>2. SiteType'
      BY <2>1, <3>1 DEF SiteInv, SiteType
    <3>3. SiteIsSound(s) => SiteIsWhole(s)' /\ UploadStands(r, s)'
      BY <2>1, <3>1 DEF SiteIsSound, SiteIsWhole, UploadStands
    <3>4. upload'[r].slug = s
      BY <1>1, <3>1 DEF AtWork
    <3> QED
      BY <1>1, <2>1, <3>1, <3>2, <3>3, <3>4, SiteWorks
  <2>3. CASE upload' = [upload EXCEPT ![r] = Site!Free]
    <3>1. SiteType'
      BY <1>2, <2>1, <2>3 DEF SiteInv, SiteType
    <3>2. SiteIsSound(s) => SiteIsWhole(s)' /\ (AtWork(r, s)' => UploadStands(r, s)')
      BY <1>2, <2>1, <2>3 DEF SiteIsSound, SiteIsWhole, AtWork
    <3> QED
      BY <1>1, <1>2, <2>1, <2>3, <3>1, <3>2, SiteWorks
  <2> QED
    BY <1>3, <2>2, <2>3 DEF Site!MakeDirectory
<1>4. CASE Site!InsertRow(r)
  <2>1. /\ UNCHANGED <<site, saved, served, overlapped>> /\ upload' = [upload EXCEPT ![r] = Site!Free]
        /\ listed' = listed \cup {s}
    BY <1>1, <1>4 DEF Site!InsertRow, AtWork
  <2>2. SiteType'
    BY <1>2, <2>1 DEF SiteInv, SiteType
  <2>3. SiteIsSound(s) => SiteIsWhole(s)' /\ (AtWork(r, s)' => UploadStands(r, s)')
    BY <1>2, <2>1 DEF SiteIsSound, SiteIsWhole, AtWork
  <2> QED
    BY <1>1, <1>2, <2>1, <2>2, <2>3, SiteWorks
<1>5. CASE Site!RemoveTree(r)
  <2>1. /\ UNCHANGED <<listed, saved, overlapped>> /\ served' = [served EXCEPT ![s] = None]
        /\ upload[r].at = "rmtree"
    BY <1>1, <1>5 DEF Site!RemoveTree, AtWork
  <2>2. served' \in [Slug -> Worker \cup {None}] /\ served'[s] = None /\ \A t \in Slug \ {s} : served'[t] = served[t]
    BY <2>1 DEF SiteInv, SiteType
  <2>3. CASE site' = [site EXCEPT ![s] = Site!Empty] /\ Site!Goto(r, "forget")
    <3>1. /\ upload' \in [Worker -> SiteRequest]
          /\ upload'[r].at = "forget" /\ upload'[r].slug = upload[r].slug
          /\ \A q \in Worker \ {r} : upload'[q] = upload[q]
          /\ \A q \in Worker : upload'[q].at # "idle" => upload'[q].slug \in Slug
      BY <1>0, <2>3, UploadGoes DEF SiteStages
    <3>2. /\ site' \in [Slug -> [File -> Worker \cup {None}]]
          /\ \A f \in File : site'[s][f] = None
          /\ \A t \in Slug \ {s} : site'[t] = site[t]
      BY <2>3 DEF SiteInv, SiteType, Site!Empty
    <3>3. SiteType'
      BY <2>1, <2>2, <3>1, <3>2 DEF SiteInv, SiteType
    <3>4. SiteIsWhole(s)' /\ UploadStands(r, s)'
      BY <2>1, <2>2, <3>1, <3>2 DEF SiteIsWhole, UploadStands
    <3>5. upload'[r].slug = s
      BY <1>1, <3>1 DEF AtWork
    <3> QED
      BY <1>1, <2>1, <2>2, <3>1, <3>2, <3>3, <3>4, <3>5, SiteWorks
  <2>4. ASSUME NEW kept \in SUBSET File,
               site' = [site EXCEPT ![s] = [f \in File |-> IF f \in kept THEN @[f] ELSE None]],
               upload' = [upload EXCEPT ![r] = Site!Free]
        PROVE  SiteInv'
    <3>2. /\ site' \in [Slug -> [File -> Worker \cup {None}]]
          /\ \A f \in File : site'[s][f] \in {site[s][f], None}
          /\ \A t \in Slug \ {s} : site'[t] = site[t]
      BY <2>4 DEF SiteInv, SiteType
    <3>3. SiteType'
      BY <1>2, <2>1, <2>2, <2>4, <3>2 DEF SiteInv, SiteType
    <3>4. SiteIsWhole(s) => SiteIsWhole(s)'
      BY <2>1, <2>2, <3>2 DEF SiteIsWhole
    <3>5. SiteIsSound(s) => SiteIsWhole(s)' /\ (AtWork(r, s)' => UploadStands(r, s)')
      BY <1>2, <2>4, <3>4 DEF SiteIsSound, AtWork
    <3> QED
      BY <1>1, <1>2, <2>1, <2>2, <2>4, <3>2, <3>3, <3>5, SiteWorks
  <2> QED
    BY <1>1, <1>5, <2>3, <2>4 DEF Site!RemoveTree, AtWork
<1>6. CASE Site!DeleteRow(r)
  <2>1. /\ UNCHANGED <<site, saved, served, overlapped>> /\ upload' = [upload EXCEPT ![r] = Site!Free]
        /\ listed' = listed \ {s} /\ upload[r].at = "forget"
    BY <1>1, <1>6 DEF Site!DeleteRow, AtWork
  <2>2. SiteType'
    BY <1>2, <2>1 DEF SiteInv, SiteType
  <2>3. SiteIsSound(s) => \A f \in File : site[s][f] = None
    BY <1>1, <2>1 DEF SiteIsSound, UploadStands
  <2>4. SiteIsSound(s) => SiteIsWhole(s)'
    BY <2>1, <2>3 DEF SiteIsSound, SiteIsWhole
  <2>5. AtWork(r, s)' => UploadStands(r, s)'
    BY <1>2, <2>1 DEF AtWork
  <2> QED
    BY <1>1, <1>2, <2>1, <2>2, <2>4, <2>5, SiteWorks
<1> QED
  BY <1>3, <1>4, <1>5, <1>6

\* An archive is saved, opened and extracted.
LEMMA SiteUploads ==
  ASSUME SiteInv, NEW r \in Worker,
         Site!Save(r) \/ Site!OpenArchive(r) \/ Site!Clear(r) \/ Site!Extract(r) \/ Site!Answer(r)
  PROVE  SiteInv'
<1>0. upload[r].at # "idle"
  BY DEF Site!Save, Site!OpenArchive, Site!Clear, Site!Extract, Site!Answer
<1>1. PICK s \in Slug : AtWork(r, s)
  BY <1>0 DEF SiteInv, SiteType, AtWork
<1>2. upload[r].slug = s /\ upload[r] \in SiteRequest
  BY <1>1 DEF AtWork, SiteInv, SiteType
<1>3. SiteIsSound(s) => SiteIsWhole(s) /\ UploadStands(r, s)
  BY <1>1 DEF SiteIsSound
<1>4. CASE Site!GiveUp(r)
  BY <1>0, <1>4, SiteGivesUp
<1>5. CASE Site!Save(r)
  <2> DEFINE Over(q) == IF q = r THEN [upload[q] EXCEPT !.at = "open"]
                        ELSE IF upload[q].slug = s /\ upload[q].linked THEN [upload[q] EXCEPT !.bytes = r]
                        ELSE upload[q]
  <2>1. /\ UNCHANGED <<listed, site, served, overlapped>> /\ saved' = [saved EXCEPT ![s] = r]
        /\ upload[r].at = "save"
        /\ upload' = [q \in Worker |-> Over(q)]
    BY <1>2, <1>5 DEF Site!Save
  <2>a. \A q \in Worker : upload'[q] = Over(q)
    BY <2>1
  <2> HIDE DEF Over
  <2>2. /\ saved' \in [Slug -> Worker \cup {None}] /\ saved'[s] = r
        /\ \A t \in Slug \ {s} : saved'[t] = saved[t]
    BY <2>1 DEF SiteInv, SiteType
  <2>b. upload' = [q \in Worker |-> upload'[q]]
    BY <2>1
  <2>3. upload'[r] \in SiteRequest /\ upload'[r].at = "open" /\ upload'[r].slug = s
    <3>1. upload'[r] = [upload[r] EXCEPT !.at = "open"]
      BY <2>a DEF Over
    <3> QED
      BY <1>2, <3>1 DEF SiteRequest, SiteStages
  <2>4. ASSUME NEW q \in Worker \ {r}
        PROVE  /\ upload'[q] \in SiteRequest
               /\ upload'[q].at = upload[q].at /\ upload'[q].slug = upload[q].slug
               /\ upload[q].slug # s => upload'[q] = upload[q]
    <3>1. upload[q] \in SiteRequest
      BY DEF SiteInv, SiteType
    <3>2. upload'[q] = IF upload[q].slug = s /\ upload[q].linked THEN [upload[q] EXCEPT !.bytes = r] ELSE upload[q]
      BY <2>a DEF Over
    <3> QED
      BY <3>1, <3>2 DEF SiteRequest
  <2>c. \A q \in Worker : upload'[q] \in SiteRequest
    BY <2>3, <2>4
  <2>d. upload' \in [Worker -> SiteRequest]
    BY <2>b, <2>c
  <2>e. \A q \in Worker : upload'[q].at # "idle" => upload'[q].slug \in Slug
    BY <2>3, <2>4 DEF SiteInv, SiteType
  <2>5. SiteType'
    BY <2>1, <2>2, <2>d, <2>e DEF SiteInv, SiteType
  <2>6. SiteIsSound(s) => SiteIsWhole(s)' /\ UploadStands(r, s)'
    BY <1>3, <2>1, <2>2, <2>3 DEF SiteIsWhole, UploadStands
  <2> QED
    BY <1>1, <2>1, <2>2, <2>3, <2>4, <2>5, <2>6, SiteWorks
<1>6. CASE Site!OpenArchive(r) /\ ~Site!GiveUp(r)
  <2> DEFINE new == Site!Working(s, "clear", saved[s], TRUE, File)
  <2>1. /\ UNCHANGED <<listed, site, saved, served, overlapped>> /\ upload' = [upload EXCEPT ![r] = new]
        /\ upload[r].at = "open"
    BY <1>2, <1>6 DEF Site!OpenArchive
  <2>2. saved[s] \in Worker \cup {None}
    BY DEF SiteInv, SiteType
  <2>3. new \in SiteRequest /\ new.at = "clear" /\ new.slug = s /\ new.left = File /\ new.archive = saved[s] /\ new.bytes = saved[s]
    BY <2>2 DEF Site!Working, SiteRequest, SiteStages
  <2> HIDE DEF new
  <2>4. /\ upload' \in [Worker -> SiteRequest] /\ upload'[r] = new
        /\ \A q \in Worker \ {r} : upload'[q] = upload[q]
        /\ \A q \in Worker : upload'[q].at # "idle" => upload'[q].slug \in Slug
    BY <2>1, <2>3, UploadType
  <2>5. SiteType'
    BY <2>1, <2>4 DEF SiteInv, SiteType
  <2>6. SiteIsSound(s) => SiteIsWhole(s)' /\ UploadStands(r, s)'
    BY <1>3, <2>1, <2>3, <2>4 DEF SiteIsWhole, UploadStands
  <2> QED
    BY <1>1, <2>1, <2>3, <2>4, <2>5, <2>6, SiteWorks
<1>7. CASE Site!Clear(r)
  <2>1. /\ UNCHANGED <<listed, saved, overlapped>> /\ Site!Goto(r, "extract") /\ upload[r].at = "clear"
        /\ site' = [site EXCEPT ![s] = [f \in File |-> None]]
        /\ served' = [served EXCEPT ![s] = None]
    BY <1>2, <1>7 DEF Site!Clear, Site!Cleared, Site!Empty
  <2>2. /\ site' \in [Slug -> [File -> Worker \cup {None}]]
        /\ \A f \in File : site'[s][f] = None
        /\ \A t \in Slug \ {s} : site'[t] = site[t]
    BY <2>1 DEF SiteInv, SiteType
  <2>3. served' \in [Slug -> Worker \cup {None}] /\ served'[s] = None /\ \A t \in Slug \ {s} : served'[t] = served[t]
    BY <2>1 DEF SiteInv, SiteType
  <2>4. /\ upload' \in [Worker -> SiteRequest]
        /\ upload'[r].at = "extract" /\ upload'[r].slug = s /\ upload'[r].left = upload[r].left
        /\ upload'[r].archive = upload[r].archive /\ upload'[r].bytes = upload[r].bytes
        /\ \A q \in Worker \ {r} : upload'[q] = upload[q]
        /\ \A q \in Worker : upload'[q].at # "idle" => upload'[q].slug \in Slug
    BY <1>0, <1>2, <2>1, UploadGoes DEF SiteStages
  <2>5. SiteType'
    BY <2>1, <2>2, <2>3, <2>4 DEF SiteInv, SiteType
  <2>6. ASSUME SiteIsSound(s) PROVE SiteIsWhole(s)' /\ UploadStands(r, s)'
    <3>1. SiteIsWhole(s)'
      BY <2>2, <2>3 DEF SiteIsWhole
    <3>2. s \in listed' /\ upload'[r].archive = r /\ upload'[r].bytes = r /\ upload'[r].left = File
      BY <1>3, <2>1, <2>4, <2>6 DEF UploadStands
    <3> QED
      BY <2>2, <2>3, <2>4, <3>1, <3>2 DEF UploadStands
  <2> QED
    BY <1>1, <2>1, <2>2, <2>3, <2>4, <2>5, <2>6, SiteWorks
<1>8. CASE Site!Extract(r) /\ ~Site!GiveUp(r)
  <2>0. PICK q \in SiteRequest : q = upload[r]
    BY <1>2
  <2>1. PICK f \in upload[r].left :
          /\ site' = [site EXCEPT ![s][f] = upload[r].bytes]
          /\ upload' = [upload EXCEPT ![r].left = @ \ {f}]
          /\ UNCHANGED <<listed, saved, served, overlapped>> /\ upload[r].at = "extract"
    BY <1>2, <1>8 DEF Site!Extract
  <2>2. f \in File /\ q.bytes \in Worker \cup {None}
    BY <2>0, <2>1 DEF SiteRequest
  <2>3. /\ site' \in [Slug -> [File -> Worker \cup {None}]]
        /\ site'[s][f] = q.bytes
        /\ \A g \in File \ {f} : site'[s][g] = site[s][g]
        /\ \A t \in Slug \ {s} : site'[t] = site[t]
    BY <2>0, <2>1, <2>2 DEF SiteInv, SiteType
  <2> DEFINE new == [slug |-> s, at |-> "extract", archive |-> q.archive, bytes |-> q.bytes,
                     linked |-> q.linked, left |-> q.left \ {f}]
  <2>4. upload' = [upload EXCEPT ![r] = new] /\ new \in SiteRequest
    <3>1. [q EXCEPT !.left = q.left \ {f}] = new /\ new \in SiteRequest
      <4>1. /\ q.slug = s /\ q.at = "extract" /\ q.archive \in Worker \cup {None}
            /\ q.bytes \in Worker \cup {None} /\ q.linked \in BOOLEAN /\ q.left \ {f} \in SUBSET File
            /\ q = [slug |-> q.slug, at |-> q.at, archive |-> q.archive, bytes |-> q.bytes,
                    linked |-> q.linked, left |-> q.left]
        BY <1>2, <2>0, <2>1 DEF SiteRequest
      <4> QED
        BY <4>1 DEF SiteRequest, SiteStages
    <3>2. upload' = [upload EXCEPT ![r] = [q EXCEPT !.left = q.left \ {f}]]
      BY <2>0, <2>1
    <3> HIDE DEF new
    <3> QED
      BY <3>1, <3>2
  <2>5. new.slug = s /\ new.at = "extract" /\ new.archive = q.archive /\ new.bytes = q.bytes
        /\ new.left = q.left \ {f}
    OBVIOUS
  <2> HIDE DEF new
  <2>6. /\ upload' \in [Worker -> SiteRequest] /\ upload'[r] = new
        /\ \A p \in Worker \ {r} : upload'[p] = upload[p]
        /\ \A p \in Worker : upload'[p].at # "idle" => upload'[p].slug \in Slug
    BY <2>4, <2>5, UploadType
  <2>7. SiteType'
    BY <2>1, <2>3, <2>6 DEF SiteInv, SiteType
  <2>8. ASSUME SiteIsSound(s) PROVE SiteIsWhole(s)' /\ UploadStands(r, s)'
    <3>1. /\ s \in listed /\ q.archive = r /\ q.bytes = r /\ served[s] = None
          /\ \A g \in File : site[s][g] \in {r, None} /\ (g \notin q.left => site[s][g] = r)
      BY <1>3, <2>0, <2>1, <2>8 DEF UploadStands
    <3>2. \A g \in File : site'[s][g] \in {r, None} /\ (g \notin new.left => site'[s][g] = r)
      BY <2>3, <2>5, <3>1
    <3>3. SiteIsWhole(s)'
      BY <2>1, <3>1, <3>2 DEF SiteIsWhole
    <3> QED
      BY <2>1, <2>5, <2>6, <3>1, <3>2, <3>3 DEF UploadStands
  <2> QED
    BY <1>1, <2>1, <2>3, <2>5, <2>6, <2>7, <2>8, SiteWorks
<1>9. CASE Site!Answer(r)
  <2>1. /\ UNCHANGED <<listed, site, overlapped>> /\ served' = [served EXCEPT ![s] = r]
        /\ upload[r].at = "extract" /\ upload[r].left = {} /\ Site!Unlink(r)
    BY <1>2, <1>9 DEF Site!Answer
  <2>2. served' \in [Slug -> Worker \cup {None}] /\ served'[s] = r /\ \A t \in Slug \ {s} : served'[t] = served[t]
    BY <2>1 DEF SiteInv, SiteType
  <2>3. SiteType' /\ upload'[r].at = "idle"
    BY <1>1, <2>1, <2>2, UploadUnlinks DEF SiteInv, SiteType
  <2>4. SiteIsSound(s) => s \in listed /\ \A f \in File : site[s][f] = r
    BY <1>3, <2>1 DEF UploadStands
  <2>5. SiteIsSound(s) => SiteIsWhole(s)' /\ (AtWork(r, s)' => UploadStands(r, s)')
    BY <2>1, <2>2, <2>3, <2>4 DEF SiteIsWhole, AtWork
  <2> QED
    BY <1>1, <2>1, <2>2, <2>3, <2>5, UploadUnlinks, SiteWorks
<1> QED
  BY <1>4, <1>5, <1>6, <1>7, <1>8, <1>9

LEMMA SiteStep == SiteInv /\ [Site!Next]_(Site!vars) => SiteInv'
<1> SUFFICES ASSUME SiteInv, [Site!Next]_(Site!vars) PROVE SiteInv'
  OBVIOUS
<1>1. CASE Site!Kill
  <2>1. /\ UNCHANGED <<listed, site, saved, served>> /\ upload' = [r \in Worker |-> Site!Free]
        /\ overlapped' = overlapped \cup {upload[r].slug : r \in {q \in Worker : upload[q] # Site!Free}}
    BY <1>1 DEF Site!Kill
  <2>2. \A r \in Worker : upload[r] # Site!Free => upload[r].slug \in overlapped'
    BY <2>1
  <2>3. \A r \in Worker : upload'[r] \in SiteRequest /\ upload'[r].at = "idle"
    BY <2>1, FreeUpload
  <2>4. SiteType'
    BY <2>1, <2>3 DEF SiteInv, SiteType
  <2>5. ASSUME NEW s \in Slug, s \notin overlapped' PROVE SiteIsSound(s)'
    <3>1. SiteIsWhole(s)
      BY <2>1, <2>5 DEF SiteInv, SiteIsSound
    <3> QED
      BY <2>1, <2>3, <3>1 DEF SiteIsSound, SiteIsWhole, AtWork
  <2> QED
    BY <2>4, <2>5 DEF SiteInv
<1>2. CASE UNCHANGED Site!vars
  BY <1>2 DEF Site!vars, SiteInv, SiteType, SiteIsSound, SiteIsWhole, AtWork, UploadStands
<1> QED
  BY <1>1, <1>2, SiteBegins, SiteRows, SiteUploads DEF Site!Next

\* For any number of requests, slugs, files and failures: what is served of a slug about which no
\* two requests have overlapped and none was ended is of one archive, the whole of it after success.
THEOREM SitesWhole == StoresSpec => []SitesAreWhole
<1>1. StoresInit => SiteInv
  BY SiteInit DEF StoresInit
<1>2. SiteInv /\ [StoresNext]_<<part, vars, logVars, accountVars, centreVars, siteVars, responseVars>>
        => SiteInv'
  <2>1. StoresNext => [Site!Next]_(Site!vars)
    BY DEF StoresNext, siteVars, Site!vars
  <2>2. UNCHANGED <<part, vars, logVars, accountVars, centreVars, siteVars, responseVars>>
          => UNCHANGED Site!vars
    BY DEF siteVars, Site!vars
  <2> QED
    BY <2>1, <2>2, SiteStep
<1>3. SiteInv => SitesAreWhole
  <2> SUFFICES ASSUME SiteInv, NEW s \in Slug, s \notin overlapped
               PROVE  /\ Site!Cardinality(Site!Sources(s)) <= 1
                      /\ served[s] # None => site[s] = [f \in File |-> served[s]]
                      /\ s \notin listed => Site!Sources(s) = {}
    BY DEF SitesAreWhole, Site!SitesAreWhole
  <2>1. SiteIsWhole(s)
    BY DEF SiteInv, SiteIsSound
  <2>2. Site!Cardinality(Site!Sources(s)) = Cardinality(Site!Sources(s))
    BY Zenon DEF Site!Cardinality, Cardinality
  <2>3. PICK x \in Worker \cup {None} : \A f \in File : site[s][f] \in {x, None}
    BY <2>1 DEF SiteIsWhole
  <2>4. Site!Sources(s) \subseteq {x}
    BY <2>3 DEF Site!Sources
  <2>5. Cardinality(Site!Sources(s)) \in Nat /\ Cardinality(Site!Sources(s)) <= 1
    <3>1. IsFiniteSet({x}) /\ Cardinality({x}) = 1
      BY FS_Singleton
    <3>2. IsFiniteSet(Site!Sources(s)) /\ Cardinality(Site!Sources(s)) <= Cardinality({x})
      BY <2>4, <3>1, FS_Subset
    <3> QED
      BY <3>1, <3>2, FS_CardinalityType
  <2>6. served[s] # None => site[s] = [f \in File |-> served[s]]
    BY <2>1 DEF SiteIsWhole, SiteInv, SiteType
  <2>7. s \notin listed => Site!Sources(s) = {}
    BY <2>1 DEF SiteIsWhole, Site!Sources
  <2> QED
    BY <2>2, <2>5, <2>6, <2>7
<1> QED
  BY <1>1, <1>2, <1>3, PTL DEF StoresSpec(***************************************************************************)
(* LogStore.  Wherever an entry is kept, in the ring, a list or a row, its *)
(* hash determines its place in the chain; an id does so as well in SQLite *)
(* until the log is cleared, so that the newest row by id is the end of    *)
(* the chain.                                                              *)
(***************************************************************************)
LoggedBy(stored, ring, lists) ==
  stored \cup {ring[i] : i \in DOMAIN ring} \cup UNION {{lists[l][i] : i \in DOMAIN lists[l]} : l \in Buffer}

Logged == LoggedBy(db, entries, list)

\* The places in the chain, for all hashes up to n.
Linked(S, n) ==
  /\ \A e \in S : /\ e.prev < e.hash /\ e.hash <= n /\ e.index <= e.hash
                  /\ e.prev = 0 => e.index = 1
  /\ \A d, e \in S : /\ d.hash = e.hash => d.index = e.index
                     /\ e.prev = d.hash => e.index = d.index + 1

\* The end of the chain that the stamper knows.
Ends(S, end, n) ==
  /\ end.index <= end.last /\ end.last <= n
  /\ \A e \in S : end.last = e.hash => end.index = e.index

\* What was stamped later has the greater id, and follows what was stamped before.
Ordered(S, end, greatest) ==
  /\ \A d, e \in S : d.hash < e.hash => d.hash <= e.prev /\ d.index < e.index /\ d.id < e.id
  /\ \A e \in S : e.hash <= end.last /\ e.id <= greatest /\ e.index <= end.index

Numbered(stored, last) ==
  /\ IsFiniteSet(stored)
  /\ \A d, e \in stored : d.id = e.id => d = e
  /\ Backend = "postgres" => \A e \in stored : e.id <= last

LogInv ==
  /\ Log!TypeOK
  /\ Numbered(db, sequence)
  /\ Linked(Logged, stamps)
  /\ Ends(Logged, chain, stamps)
  /\ Backend = "sqlite" /\ clears = 0 => Ordered(Logged, chain, counter)
  /\ Log!RingIsSorted
  /\ Log!BufferIsAwaited

LEMMA LogConstants ==
  /\ Backend \in {"sqlite", "postgres"}
  /\ MaxEntries \in Nat \ {0} /\ FlushSize \in Nat \ {0, 1}
  /\ MaxAdds \in Nat /\ MaxClears \in Nat /\ MaxRestarts \in Nat /\ MaxAlterations \in Nat
  BY PartsAssumption DEF Log!ConstantsAssumption

LEMMA LoggedIs ==
  ASSUME NEW stored, NEW ring, NEW lists
  PROVE  \A e : e \in LoggedBy(stored, ring, lists) <=>
                  \/ e \in stored
                  \/ \E i \in DOMAIN ring : e = ring[i]
                  \/ \E l \in Buffer : \E i \in DOMAIN lists[l] : e = lists[l][i]
  BY DEF LoggedBy

LEMMA LoggedType ==
  ASSUME NEW stored, stored \subseteq Log!Entry, NEW ring \in Seq(Log!Entry), NEW lists \in [Buffer -> Seq(Log!Entry)]
  PROVE  LoggedBy(stored, ring, lists) \subseteq Log!Entry
<1>1. \A i \in DOMAIN ring : ring[i] \in Log!Entry
  OBVIOUS
<1>2. ASSUME NEW l \in Buffer, NEW i \in DOMAIN lists[l] PROVE lists[l][i] \in Log!Entry
  <2>1. lists[l] \in Seq(Log!Entry)
    OBVIOUS
  <2> QED
    BY <1>2, <2>1
<1> QED
  BY <1>1, <1>2 DEF LoggedBy

\* The ring keeps the end of a sequence.
LEMMA RingIs ==
  ASSUME NEW S, NEW s \in Seq(S)
  PROVE  /\ Log!Ring(s) \in Seq(S) /\ Len(Log!Ring(s)) <= MaxEntries /\ Len(Log!Ring(s)) <= Len(s)
         /\ \A i \in DOMAIN Log!Ring(s) : /\ i + (Len(s) - Len(Log!Ring(s))) \in DOMAIN s
                                          /\ Log!Ring(s)[i] = s[i + (Len(s) - Len(Log!Ring(s)))]
         /\ s # <<>> => Log!Ring(s) # <<>> /\ Log!Ring(s)[Len(Log!Ring(s))] = s[Len(s)]
<1>1. CASE Len(s) > MaxEntries
  <2>1. Log!Ring(s) = SubSeq(s, Len(s) - MaxEntries + 1, Len(s))
    BY <1>1 DEF Log!Ring
  <2>2. /\ Len(s) \in Nat /\ Len(s) - MaxEntries + 1 \in 1 .. Len(s) /\ Len(s) - MaxEntries \in Nat
    BY <1>1, LogConstants
  <2>3. /\ Log!Ring(s) \in Seq(S) /\ Len(Log!Ring(s)) = MaxEntries
        /\ \A i \in 1 .. MaxEntries : Log!Ring(s)[i] = s[i + (Len(s) - MaxEntries)]
    BY <2>1, <2>2, LogConstants
  <2>4. DOMAIN Log!Ring(s) = 1 .. MaxEntries /\ DOMAIN s = 1 .. Len(s)
    BY <2>3
  <2>5. MaxEntries + (Len(s) - MaxEntries) = Len(s) /\ MaxEntries \in 1 .. MaxEntries
    BY <2>2, LogConstants
  <2>6. \A i \in 1 .. MaxEntries : i + (Len(s) - MaxEntries) \in 1 .. Len(s)
    BY <2>2, LogConstants
  <2>7. Log!Ring(s)[MaxEntries] = s[Len(s)]
    BY <2>3, <2>5
  <2>8. Log!Ring(s) # <<>>
    BY <2>3, LogConstants
  <2> QED
    BY <1>1, <2>2, <2>3, <2>4, <2>6, <2>7, <2>8, LogConstants
<1>2. CASE ~(Len(s) > MaxEntries)
  <2>1. Log!Ring(s) = s
    BY <1>2 DEF Log!Ring
  <2>2. Len(s) <= MaxEntries /\ Len(s) - Len(s) = 0 /\ \A i \in DOMAIN s : i + 0 = i
    BY <1>2, LogConstants
  <2> QED
    BY <2>1, <2>2
<1> QED
  BY <1>1, <1>2

\* The rows by their ids: load_recent.
LEMMA LoadRecentIs ==
  ASSUME NEW R, R \subseteq Log!Entry, IsFiniteSet(R), \A d, e \in R : d.id = e.id => d = e
  PROVE  /\ Log!LoadRecent(R) \in Seq(R) /\ Len(Log!LoadRecent(R)) <= MaxEntries
         /\ \A i, j \in DOMAIN Log!LoadRecent(R) : i < j => Log!LoadRecent(R)[i].id < Log!LoadRecent(R)[j].id
         /\ R # {} => /\ Log!LoadRecent(R) # <<>>
                      /\ \A e \in R : e.id <= Log!LoadRecent(R)[Len(Log!LoadRecent(R))].id
<1> DEFINE n == Cardinality(R)
           UpTo(e) == {d \in R : d.id <= e.id}
           rank == [e \in R |-> Cardinality(UpTo(e))]
           u == [i \in 1 .. n |-> CHOOSE e \in R : Log!Rank(e, R) = i]
<1>1. n \in Nat /\ \A e \in R : e.id \in Nat
  BY FS_CardinalityType DEF Log!Entry
<1>2. ASSUME NEW e \in R
      PROVE  /\ IsFiniteSet(UpTo(e)) /\ Cardinality(UpTo(e)) \in 1 .. n /\ Cardinality(UpTo(e)) \in Nat
             /\ Cardinality(UpTo(e)) = n => UpTo(e) = R
  <2>1. UpTo(e) \subseteq R /\ e \in UpTo(e)
    BY <1>1
  <2>2. IsFiniteSet(UpTo(e)) /\ Cardinality(UpTo(e)) <= n /\ (n = Cardinality(UpTo(e)) => R = UpTo(e))
    BY <2>1, FS_Subset
  <2>3. Cardinality(UpTo(e)) \in Nat /\ Cardinality(UpTo(e)) # 0
    BY <2>1, <2>2, FS_CardinalityType, FS_EmptySet
  <2> QED
    BY <1>1, <2>2, <2>3
<1>3. ASSUME NEW d \in R, NEW e \in R, d.id < e.id PROVE Cardinality(UpTo(d)) < Cardinality(UpTo(e))
  <2>1. UpTo(d) \subseteq UpTo(e) /\ e \in UpTo(e) /\ e \notin UpTo(d)
    BY <1>1, <1>3
  <2>2. Cardinality(UpTo(d)) <= Cardinality(UpTo(e)) /\ Cardinality(UpTo(d)) # Cardinality(UpTo(e))
    BY <1>2, <2>1, FS_Subset
  <2>3. Cardinality(UpTo(d)) \in Nat /\ Cardinality(UpTo(e)) \in Nat
    BY <1>2
  <2> QED
    BY <2>2, <2>3
<1>4. \A e \in R : Log!Rank(e, R) = Cardinality(UpTo(e))
  <2>1. \A S : Log!Cardinality(S) = Cardinality(S)
    BY Zenon DEF Log!Cardinality, Cardinality
  <2> QED
    BY <2>1 DEF Log!Rank
<1> HIDE DEF UpTo
<1>5. rank \in Injection(R, 1 .. n)
  <2>1. rank \in [R -> 1 .. n]
    BY <1>2
  <2>2. ASSUME NEW d \in R, NEW e \in R, rank[d] = rank[e] PROVE d = e
    <3>1. Cardinality(UpTo(d)) = Cardinality(UpTo(e)) /\ Cardinality(UpTo(d)) \in Nat
      BY <1>2, <2>2
    <3>2. ~(d.id < e.id) /\ ~(e.id < d.id)
      BY <1>3, <3>1
    <3>3. d.id = e.id
      BY <1>1, <3>2
    <3> QED
      BY <3>3
  <2> QED
    BY <2>1, <2>2 DEF Injection, IsInjective
<1>6. rank \in Surjection(R, 1 .. n)
  <2>1. 1 \in Int /\ n \in Int
    BY <1>1
  <2>2. IsFiniteSet(1 .. n) /\ Cardinality(1 .. n) = n
    BY <1>1, <2>1, FS_Interval
  <2> HIDE DEF rank, n
  <2>3. Cardinality(R) = Cardinality(1 .. n)
    BY <2>2 DEF n
  <2> QED
    BY <1>5, <2>2, <2>3, FS_Injection
<1>7. ASSUME NEW i \in 1 .. n PROVE u[i] \in R /\ Cardinality(UpTo(u[i])) = i
  <2>1. \E e \in R : rank[e] = i
    BY <1>6 DEF Surjection
  <2>2. \E e \in R : Log!Rank(e, R) = i
    BY <1>4, <2>1
  <2>3. u[i] = CHOOSE e \in R : Log!Rank(e, R) = i
    OBVIOUS
  <2>4. u[i] \in R /\ Log!Rank(u[i], R) = i
    BY <2>2, <2>3
  <2> QED
    BY <1>4, <2>4
<1>8. u \in Seq(R) /\ Len(u) = n /\ DOMAIN u = 1 .. n
  <2>1. u \in [1 .. n -> R]
    BY <1>7
  <2> HIDE DEF u, n
  <2>2. u \in Seq(R)
    BY <1>1, <2>1
  <2> QED
    BY <1>1, <2>1, <2>2
<1>9. Log!LoadRecent(R) = Log!Ring(u)
  <2>1. Log!Cardinality(R) = n
    BY Zenon DEF Log!Cardinality, Cardinality
  <2> QED
    BY <2>1 DEF Log!LoadRecent
<1> HIDE DEF u, rank, n
<1>10. ASSUME NEW i \in 1 .. n, NEW j \in 1 .. n, i < j PROVE u[i].id < u[j].id
  <2>1. u[i] \in R /\ u[j] \in R /\ Cardinality(UpTo(u[i])) = i /\ Cardinality(UpTo(u[j])) = j
    BY <1>7
  <2>2. ~(u[j].id < u[i].id)
    BY <1>3, <1>10, <2>1
  <2>3. u[i].id # u[j].id
    BY <1>10, <2>1
  <2> QED
    BY <1>1, <2>1, <2>2, <2>3
<1>11. R # {} => u # <<>> /\ \A e \in R : e.id <= u[n].id
  <2> SUFFICES ASSUME R # {} PROVE u # <<>> /\ \A e \in R : e.id <= u[n].id
    OBVIOUS
  <2>1. n # 0
    BY FS_EmptySet DEF n
  <2>2. n \in 1 .. n /\ u # <<>>
    BY <1>1, <1>8, <2>1
  <2>3. UpTo(u[n]) = R
    BY <1>2, <1>7, <2>2
  <2> QED
    BY <2>2, <2>3 DEF UpTo
<1> DEFINE s == Log!Ring(u)
<1>12. /\ s \in Seq(R) /\ Len(s) <= MaxEntries /\ Len(s) <= n
       /\ \A i \in DOMAIN s : i + (n - Len(s)) \in 1 .. n /\ s[i] = u[i + (n - Len(s))]
       /\ u # <<>> => s # <<>> /\ s[Len(s)] = u[n]
  BY <1>8, RingIs
<1> HIDE DEF s
<1>13. \A i, j \in DOMAIN s : i < j => s[i].id < s[j].id
  <2> SUFFICES ASSUME NEW i \in DOMAIN s, NEW j \in DOMAIN s, i < j PROVE s[i].id < s[j].id
    OBVIOUS
  <2>1. i + (n - Len(s)) < j + (n - Len(s))
    BY <1>1, <1>12
  <2> QED
    BY <1>10, <1>12, <2>1
<1>14. R # {} => s # <<>> /\ \A e \in R : e.id <= s[Len(s)].id
  BY <1>11, <1>12
<1> QED
  BY <1>9, <1>12, <1>13, <1>14 DEF s
LEMMA LogInit == Log!Init => LogInv
<1> SUFFICES ASSUME Log!Init PROVE LogInv
  OBVIOUS
<1> USE LogConstants DEF Log!Init
<1>1. Log!TypeOK
  <2>1. entries \in Seq(Log!Entry) /\ Len(entries) <= MaxEntries
    BY DEF Log!Entry
  <2>2. list \in [Buffer -> Seq(Log!Entry)] /\ buf \in Buffer
    BY DEF Log!Entry
  <2>3. flush \in [Log!Flusher -> [pc : {"off", "disarm", "cancel", "take", "swap", "insert"}, list : Buffer]]
    <3>1. Log!NotFlushing \in [pc : {"off", "disarm", "cancel", "take", "swap", "insert"}, list : Buffer]
      BY <2>2 DEF Log!NotFlushing
    <3> QED
      BY <3>1
  <2>4. /\ counter \in Nat /\ chain \in [index : 0 .. MaxAdds, last : 0 .. MaxAdds]
        /\ timer \in {"none", "armed", "fired"} /\ db \subseteq Log!Entry
        /\ sequence \in Nat /\ open \subseteq {e.id : e \in db} /\ stamps \in 0 .. MaxAdds
    BY DEF Log!Genesis
  <2>5. clears \in 0 .. MaxClears /\ restarts \in 0 .. MaxRestarts /\ alterations \in 0 .. MaxAlterations
    OBVIOUS
  <2> QED
    BY <2>1, <2>2, <2>3, <2>4, <2>5 DEF Log!TypeOK
<1>2. Logged = {}
  <2>1. \A e : e \notin Logged
    BY LoggedIs DEF Logged
  <2> QED
    BY <2>1
<1>3. Numbered(db, sequence)
  BY FS_EmptySet DEF Numbered
<1>4. Linked(Logged, stamps) /\ Ends(Logged, chain, stamps) /\ Ordered(Logged, chain, counter)
  BY <1>2 DEF Linked, Ends, Ordered, Log!Genesis
<1>5. Log!RingIsSorted /\ Log!BufferIsAwaited
  BY DEF Log!RingIsSorted, Log!BufferIsAwaited
<1> QED
  BY <1>1, <1>3, <1>4, <1>5 DEF LogInv

LEMMA LoggedNow ==
  /\ Log!TypeOK => Logged \subseteq Log!Entry
  /\ Log!TypeOK' => Logged' \subseteq Log!Entry
  BY LoggedType DEF Logged, Log!TypeOK

\* What is only copied or dropped stays linked.
LEMMA CopiesKeep ==
  ASSUME LogInv, UNCHANGED <<chain, stamps>>, clears' = 0 => clears = 0 /\ counter' = counter,
         \A e \in Logged' : \E d \in Logged : /\ d.prev = e.prev /\ d.hash = e.hash /\ d.index = e.index
                                              /\ Backend = "sqlite" => d.id = e.id
  PROVE  /\ Linked(Logged', stamps') /\ Ends(Logged', chain', stamps')
         /\ Backend = "sqlite" /\ clears' = 0 => Ordered(Logged', chain', counter')
<1>1. Linked(Logged', stamps')
  BY DEF LogInv, Linked
<1>2. Ends(Logged', chain', stamps')
  BY DEF LogInv, Ends
<1>3. ASSUME Backend = "sqlite", clears' = 0 PROVE Ordered(Logged', chain', counter')
  <2>1. Ordered(Logged, chain, counter)
    BY <1>3 DEF LogInv
  <2> QED
    BY <1>3, <2>1 DEF Ordered
<1> QED
  BY <1>1, <1>2, <1>3

\* The steps of a flush that only move lists.
LEMMA LogFlushes ==
  ASSUME LogInv, NEW f \in Log!Flusher,
         \/ (f \in Timer /\ Log!Fire(f)) \/ Log!TestTimer(f) \/ Log!Disarm(f) \/ Log!Take(f) \/ Log!Swap(f)
  PROVE  LogInv'
<1> USE LogConstants
<1>1. UNCHANGED <<entries, counter, chain, db, sequence, open, stamps, clears, restarts, alterations>>
  BY DEF Log!Fire, Log!TestTimer, Log!Disarm, Log!Take, Log!Swap, Log!store, Log!table, Log!bounds
<1>2. /\ entries \in Seq(Log!Entry) /\ Len(entries) <= MaxEntries
      /\ list \in [Buffer -> Seq(Log!Entry)] /\ buf \in Buffer /\ timer \in {"none", "armed", "fired"}
      /\ flush \in [Log!Flusher -> [pc : {"off", "disarm", "cancel", "take", "swap", "insert"}, list : Buffer]]
  BY DEF LogInv, Log!TypeOK
<1>3. \/ list' = list /\ buf' = buf
      \/ buf' \in Buffer /\ list' = [list EXCEPT ![buf'] = <<>>]
  BY <1>2 DEF Log!Fire, Log!TestTimer, Log!Disarm, Log!Take, Log!Swap
<1>4. timer' \in {"none", "armed", "fired"}
  BY <1>2 DEF Log!Fire, Log!TestTimer, Log!Disarm, Log!Take, Log!Swap
<1>5. \E q \in [pc : {"off", "disarm", "cancel", "take", "swap", "insert"}, list : Buffer] :
         /\ flush' = [flush EXCEPT ![f] = q]
         /\ flush[f].pc \in {"take", "swap"} => q.pc = "swap" \/ list'[buf'] = <<>>
         /\ timer' # timer => (timer' = "none" /\ q.pc = "take") \/ timer' = "fired"
  <2>1. /\ flush[f] \in [pc : {"off", "disarm", "cancel", "take", "swap", "insert"}, list : Buffer]
        /\ Log!NotFlushing \in [pc : {"off", "disarm", "cancel", "take", "swap", "insert"}, list : Buffer]
        /\ Log!NotFlushing.pc = "off"
    BY <1>2 DEF Log!NotFlushing
  <2>2. \A x \in {"off", "disarm", "cancel", "take", "swap", "insert"} :
          /\ [flush[f] EXCEPT !.pc = x] \in [pc : {"off", "disarm", "cancel", "take", "swap", "insert"}, list : Buffer]
          /\ [flush[f] EXCEPT !.pc = x].pc = x
          /\ [flush EXCEPT ![f].pc = x] = [flush EXCEPT ![f] = [flush[f] EXCEPT !.pc = x]]
    BY <2>1, <1>2
  <2>3. CASE f \in Timer /\ Log!Fire(f)
    BY <2>2, <2>3 DEF Log!Fire
  <2>4. CASE Log!TestTimer(f)
    <3>1. CASE timer = "none"
      BY <2>2, <2>4, <3>1 DEF Log!TestTimer
    <3>2. CASE timer # "none"
      BY <2>2, <2>4, <3>2 DEF Log!TestTimer
    <3> QED
      BY <3>1, <3>2
  <2>5. CASE Log!Disarm(f)
    <3>1. CASE timer = "none"
      BY <2>1, <2>5, <3>1 DEF Log!Disarm
    <3>2. CASE timer # "none"
      <4>1. flush' = [flush EXCEPT ![f] = [flush[f] EXCEPT !.pc = "take"]]
        BY <2>5, <3>2 DEF Log!Disarm
      <4> QED
        BY <2>2, <2>5, <3>2, <4>1 DEF Log!Disarm
    <3> QED
      BY <3>1, <3>2
  <2>6. CASE Log!Take(f)
    <3>1. [pc |-> "swap", list |-> buf] \in [pc : {"off", "disarm", "cancel", "take", "swap", "insert"}, list : Buffer]
      BY <1>2
    <3> QED
      BY <2>6, <3>1 DEF Log!Take
  <2>7. CASE Log!Swap(f)
    <3>1. list'[buf'] = <<>> /\ timer' = timer
      BY <1>2, <2>7 DEF Log!Swap
    <3> QED
      BY <2>2, <2>7, <3>1 DEF Log!Swap
  <2> QED
    BY <2>3, <2>4, <2>5, <2>6, <2>7
<1>6. list' \in [Buffer -> Seq(Log!Entry)] /\ buf' \in Buffer
  <2>1. <<>> \in Seq(Log!Entry)
    OBVIOUS
  <2>2. CASE list' = list /\ buf' = buf
    BY <1>2, <2>2
  <2>3. CASE buf' \in Buffer /\ list' = [list EXCEPT ![buf'] = <<>>]
    <3>1. \A l \in Buffer : list'[l] \in Seq(Log!Entry)
      BY <1>2, <2>1, <2>3
    <3> QED
      BY <1>2, <2>3, <3>1
  <2> QED
    BY <1>3, <2>2, <2>3
<1>7. Log!TypeOK'
  <2>1. Log!TypeOK
    BY DEF LogInv
  <2> QED
    BY <1>1, <1>4, <1>5, <1>6, <2>1 DEF Log!TypeOK
<1>8. \A e \in Logged' : e \in Logged
  <2>1. \A e \in Logged' : e \in db' \/ (\E i \in DOMAIN entries' : e = entries'[i])
                             \/ \E l \in Buffer : \E i \in DOMAIN list'[l] : e = list'[l][i]
    BY LoggedIs DEF Logged
  <2>2. \A l \in Buffer : list'[l] = list[l] \/ list'[l] = <<>>
    BY <1>2, <1>3
  <2> QED
    BY <1>1, <2>1, <2>2, LoggedIs DEF Logged
<1>9. /\ Linked(Logged', stamps') /\ Ends(Logged', chain', stamps')
      /\ Backend = "sqlite" /\ clears' = 0 => Ordered(Logged', chain', counter')
  BY <1>1, <1>8, CopiesKeep
<1>10. Log!BufferIsAwaited'
  <2> SUFFICES ASSUME list'[buf'] # <<>>, timer' = "none"
               PROVE  \E g \in Log!Flusher : flush'[g].pc \in {"take", "swap"}
    BY DEF Log!BufferIsAwaited
  <2>1. PICK q : /\ flush' = [flush EXCEPT ![f] = q]
                 /\ flush[f].pc \in {"take", "swap"} => q.pc = "swap" \/ list'[buf'] = <<>>
                 /\ timer' # timer => (timer' = "none" /\ q.pc = "take") \/ timer' = "fired"
    BY <1>5
  <2>2. \A g \in Log!Flusher : flush'[g] = IF g = f THEN q ELSE flush[g]
    BY <1>2, <2>1
  <2>3. CASE timer' # timer
    BY <2>1, <2>2, <2>3
  <2>4. CASE timer' = timer
    <3>1. list[buf] # <<>>
      BY <1>2, <1>3
    <3>2. PICK g \in Log!Flusher : flush[g].pc \in {"take", "swap"}
      BY <2>4, <3>1 DEF LogInv, Log!BufferIsAwaited
    <3> QED
      BY <2>1, <2>2, <3>2
  <2> QED
    BY <2>3, <2>4
<1>11. Log!RingIsSorted'
  BY <1>1 DEF LogInv, Log!RingIsSorted
<1> QED
  BY <1>1, <1>7, <1>9, <1>10, <1>11 DEF LogInv
\* clear: what is left was logged before.
LEMMA LogClears ==
  ASSUME LogInv, Log!Clear
  PROVE  LogInv'
<1>1. /\ UNCHANGED <<chain, list, buf, timer, flush, sequence, stamps, restarts, alterations>>
      /\ clears < MaxClears /\ clears' = clears + 1 /\ entries' = <<>> /\ counter' = 0 /\ db' = {} /\ open' = {}
  BY DEF Log!Clear, Log!writer
<1>2. Log!TypeOK'
  <2>1. clears' \in 0 .. MaxClears /\ counter' \in Nat
    BY <1>1, LogConstants DEF LogInv, Log!TypeOK
  <2>2. entries' \in Seq(Log!Entry) /\ Len(entries') <= MaxEntries
    BY <1>1, LogConstants
  <2> QED
    BY <1>1, <2>1, <2>2 DEF LogInv, Log!TypeOK
<1>3. \A e \in Logged' : e \in Logged
  <2>1. \A e \in Logged' : \E l \in Buffer : \E i \in DOMAIN list[l] : e = list[l][i]
    BY <1>1, LoggedIs DEF Logged
  <2> QED
    BY <2>1, LoggedIs DEF Logged
<1>4. clears' # 0
  BY <1>1, LogConstants DEF LogInv, Log!TypeOK
<1>5. Linked(Logged', stamps') /\ Ends(Logged', chain', stamps')
  BY <1>1, <1>3, <1>4, CopiesKeep
<1>6. Numbered(db', sequence')
  BY <1>1, FS_EmptySet DEF Numbered
<1>7. Log!RingIsSorted' /\ Log!BufferIsAwaited'
  BY <1>1 DEF LogInv, Log!RingIsSorted, Log!BufferIsAwaited
<1> QED
  BY <1>2, <1>4, <1>5, <1>6, <1>7 DEF LogInv

\* A row that is altered keeps its number and its place in the chain.
LEMMA LogAlters ==
  ASSUME LogInv, NEW r \in db, Log!Alter(r)
  PROVE  LogInv'
<1> DEFINE q == [r EXCEPT !.stamped = 0]
<1>1. /\ UNCHANGED <<entries, counter, chain, list, buf, timer, flush, sequence, open, stamps, clears, restarts>>
      /\ alterations < MaxAlterations /\ alterations' = alterations + 1 /\ db' = (db \ {r}) \cup {q}
  BY DEF Log!Alter, Log!store, Log!writer
<1>2. r \in Log!Entry /\ db \subseteq Log!Entry
  BY DEF LogInv, Log!TypeOK
<1>3. q \in Log!Entry /\ q.id = r.id /\ q.prev = r.prev /\ q.hash = r.hash /\ q.index = r.index
  BY <1>2 DEF Log!Entry
<1> HIDE DEF q
<1>4. Log!TypeOK'
  <2>1. alterations' \in 0 .. MaxAlterations
    BY <1>1, LogConstants DEF LogInv, Log!TypeOK
  <2>2. db' \subseteq Log!Entry
    BY <1>1, <1>2, <1>3
  <2>3. open' \subseteq {e.id : e \in db'}
    <3>1. \A n \in open : \E e \in db : n = e.id
      BY DEF LogInv, Log!TypeOK
    <3> QED
      BY <1>1, <1>3, <3>1
  <2> QED
    BY <1>1, <2>1, <2>2, <2>3 DEF LogInv, Log!TypeOK
<1>5. \A e \in Logged' : e \in Logged \/ e = q
  <2>1. \A e \in Logged' : e \in db' \/ (\E i \in DOMAIN entries : e = entries[i])
                             \/ \E l \in Buffer : \E i \in DOMAIN list[l] : e = list[l][i]
    BY <1>1, LoggedIs DEF Logged
  <2> QED
    BY <1>1, <2>1, LoggedIs DEF Logged
<1>6. r \in Logged
  BY LoggedIs DEF Logged
<1>7. /\ Linked(Logged', stamps') /\ Ends(Logged', chain', stamps')
      /\ Backend = "sqlite" /\ clears' = 0 => Ordered(Logged', chain', counter')
  <2>1. \A e \in Logged' : \E d \in Logged : /\ d.prev = e.prev /\ d.hash = e.hash /\ d.index = e.index
                                             /\ Backend = "sqlite" => d.id = e.id
    BY <1>3, <1>5, <1>6
  <2> QED
    BY <1>1, <2>1, CopiesKeep
<1>8. Numbered(db', sequence')
  <2>1. IsFiniteSet(db')
    <3>1. IsFiniteSet(db \ {r})
      BY FS_Subset DEF LogInv, Numbered
    <3> QED
      BY <1>1, <3>1, FS_AddElement
  <2> QED
    BY <1>1, <1>3, <2>1 DEF LogInv, Numbered
<1>9. Log!RingIsSorted' /\ Log!BufferIsAwaited'
  BY <1>1 DEF LogInv, Log!RingIsSorted, Log!BufferIsAwaited
<1> QED
  BY <1>1, <1>4, <1>7, <1>8, <1>9 DEF LogInv

\* What insert_batch makes of a batch: copies, whose ids are the table's own.
LEMMA RowsAre ==
  ASSUME LogInv, NEW batch \in Seq(Log!Entry)
  PROVE  LET stored == Log!Rows(batch)
         IN  /\ stored \subseteq Log!Entry /\ IsFiniteSet(stored)
             /\ \A e \in stored : \E i \in DOMAIN batch :
                  /\ batch[i].prev = e.prev /\ batch[i].hash = e.hash /\ batch[i].index = e.index
                  /\ Backend = "sqlite" => e = batch[i]
             /\ \A d \in stored : \A e \in db : d.id # e.id
             /\ \A d, e \in stored : d.id = e.id => d = e
             /\ Backend = "postgres" => \A e \in stored : e.id <= sequence + Len(batch)
<1> DEFINE stored == Log!Rows(batch)
           clash(i) == \/ \E e \in db : e.id = batch[i].id
                       \/ \E j \in 1 .. i - 1 : batch[j].id = batch[i].id
           good == {i \in DOMAIN batch : \A j \in 1 .. i : ~clash(j)}
<1>1. /\ DOMAIN batch = 1 .. Len(batch) /\ Len(batch) \in Nat
      /\ \A i \in DOMAIN batch : batch[i] \in Log!Entry
  OBVIOUS
<1>2. IsFiniteSet(DOMAIN batch)
  BY <1>1, FS_Interval
<1>3. CASE Backend = "sqlite"
  <2>1. stored = {batch[i] : i \in good}
    BY <1>3 DEF Log!Rows
  <2>2. good \subseteq DOMAIN batch /\ IsFiniteSet(good)
    BY <1>2, FS_Subset
  <2>3. \A i \in good : \A e \in db : e.id # batch[i].id
    BY <1>1
  <2>4. ASSUME NEW i \in good, NEW k \in good, batch[i].id = batch[k].id PROVE i = k
    <3>1. ASSUME NEW x \in good, NEW y \in good, x < y, batch[x].id = batch[y].id PROVE FALSE
      <4>1. x \in 1 .. y - 1 /\ y \in 1 .. y
        BY <1>1, <3>1
      <4>2. ~clash(y)
        BY <4>1
      <4> QED
        BY <3>1, <4>1, <4>2
    <3>2. i \in Nat /\ k \in Nat
      BY <1>1
    <3> HIDE DEF good
    <3> QED
      BY <2>4, <3>1, <3>2
  <2> HIDE DEF stored, good
  <2>5. IsFiniteSet(stored)
    <3> DEFINE g == [i \in good |-> batch[i]]
    <3>1. g \in Surjection(good, stored)
      BY <2>1 DEF Surjection
    <3> HIDE DEF g
    <3> QED
      BY <2>2, <3>1, FS_Surjection
  <2>6. stored \subseteq Log!Entry
    BY <1>1, <2>1, <2>2
  <2>7. \A e \in stored : \E i \in DOMAIN batch :
                  /\ batch[i].prev = e.prev /\ batch[i].hash = e.hash /\ batch[i].index = e.index
                  /\ Backend = "sqlite" => e = batch[i]
    BY <2>1, <2>2
  <2>8. \A d \in stored : \A e \in db : d.id # e.id
    BY <2>1, <2>3
  <2>9. \A d, e \in stored : d.id = e.id => d = e
    BY <2>1, <2>4
  <2> QED
    BY <1>3, <2>5, <2>6, <2>7, <2>8, <2>9 DEF stored
<1>4. CASE Backend = "postgres"
  <2> DEFINE g == [i \in DOMAIN batch |-> [batch[i] EXCEPT !.id = sequence + i]]
  <2>1. stored = {g[i] : i \in DOMAIN batch}
    BY <1>4 DEF Log!Rows
  <2>2. sequence \in Nat /\ \A e \in db : e.id <= sequence /\ e.id \in Nat
    BY <1>4 DEF LogInv, Numbered, Log!TypeOK, Log!Entry
  <2>3. ASSUME NEW i \in DOMAIN batch
        PROVE  /\ g[i] \in Log!Entry /\ g[i].id = sequence + i /\ i \in Nat /\ i >= 1 /\ i <= Len(batch)
               /\ g[i].prev = batch[i].prev /\ g[i].hash = batch[i].hash /\ g[i].index = batch[i].index
    <3>1. batch[i] \in Log!Entry /\ sequence + i \in Nat
      BY <1>1, <2>2
    <3>2. g[i] = [batch[i] EXCEPT !.id = sequence + i]
      OBVIOUS
    <3> HIDE DEF g
    <3>3. ASSUME NEW b \in Log!Entry, NEW n \in Nat
          PROVE  LET c == [b EXCEPT !.id = n]
                 IN  c \in Log!Entry /\ c.id = n /\ c.prev = b.prev /\ c.hash = b.hash /\ c.index = b.index
      BY DEF Log!Entry
    <3>4. g[i] \in Log!Entry /\ g[i].id = sequence + i
          /\ g[i].prev = batch[i].prev /\ g[i].hash = batch[i].hash /\ g[i].index = batch[i].index
      BY <3>1, <3>2, <3>3
    <3> QED
      BY <1>1, <3>4
  <2> HIDE DEF stored, g
  <2>4. IsFiniteSet(stored)
    <3>1. g \in Surjection(DOMAIN batch, stored)
      BY <2>1 DEF Surjection, g
    <3> QED
      BY <1>2, <3>1, FS_Surjection
  <2>5. \A d \in stored : \A e \in db : d.id # e.id
    BY <2>1, <2>2, <2>3
  <2>6. \A d, e \in stored : d.id = e.id => d = e
    <3>1. \A i, k \in DOMAIN batch : g[i].id = g[k].id => i = k
      BY <2>2, <2>3
    <3> QED
      BY <2>1, <3>1
  <2>7. \A e \in stored : e.id <= sequence + Len(batch)
    BY <1>1, <2>1, <2>2, <2>3
  <2>8. \A e \in stored : \E i \in DOMAIN batch :
                  /\ batch[i].prev = e.prev /\ batch[i].hash = e.hash /\ batch[i].index = e.index
                  /\ Backend = "sqlite" => e = batch[i]
    BY <1>4, <2>1, <2>3
  <2>9. stored \subseteq Log!Entry
    BY <2>1, <2>3
  <2> QED
    BY <2>4, <2>5, <2>6, <2>7, <2>8, <2>9 DEF stored
<1> QED
  BY <1>3, <1>4, LogConstants
LEMMA LogInserts ==
  ASSUME LogInv, NEW f \in Log!Flusher, Log!Insert(f)
  PROVE  LogInv'
<1> DEFINE batch == list[flush[f].list]
           stored == Log!Rows(batch)
<1>1. /\ flush[f].pc = "insert" /\ flush' = [flush EXCEPT ![f] = Log!NotFlushing]
      /\ UNCHANGED <<entries, counter, chain, list, buf, timer, stamps, clears, restarts, alterations>>
  BY DEF Log!Insert, Log!store, Log!bounds
<1>2. /\ list \in [Buffer -> Seq(Log!Entry)] /\ buf \in Buffer /\ db \subseteq Log!Entry /\ sequence \in Nat
      /\ flush \in [Log!Flusher -> [pc : {"off", "disarm", "cancel", "take", "swap", "insert"}, list : Buffer]]
  BY DEF LogInv, Log!TypeOK
<1>3. Log!NotFlushing \in [pc : {"off", "disarm", "cancel", "take", "swap", "insert"}, list : Buffer]
  BY <1>2 DEF Log!NotFlushing
<1>4. flush[f].list \in Buffer /\ batch \in Seq(Log!Entry) /\ Len(batch) \in Nat
  BY <1>2
<1>5. \/ /\ db' = db \cup stored /\ sequence' = IF Backend = "postgres" THEN sequence + Len(batch) ELSE sequence
         /\ open' \subseteq open \cup {e.id : e \in stored}
      \/ UNCHANGED <<db, sequence, open>>
  <2> HIDE DEF stored
  <2>1. \/ /\ db' = db \cup stored /\ sequence' = IF Backend = "postgres" THEN sequence + Len(batch) ELSE sequence
           /\ open' \in {{}, open \cup {e.id : e \in stored}}
        \/ UNCHANGED <<db, sequence, open>>
    BY DEF Log!Insert, Log!table, stored
  <2> QED
    BY <2>1
<1>6. /\ stored \subseteq Log!Entry /\ IsFiniteSet(stored)
      /\ \A e \in stored : \E i \in DOMAIN batch :
                  /\ batch[i].prev = e.prev /\ batch[i].hash = e.hash /\ batch[i].index = e.index
                  /\ Backend = "sqlite" => e = batch[i]
      /\ \A d \in stored : \A e \in db : d.id # e.id
      /\ \A d, e \in stored : d.id = e.id => d = e
      /\ Backend = "postgres" => \A e \in stored : e.id <= sequence + Len(batch)
  BY <1>4, RowsAre
<1> HIDE DEF stored
<1>7. Log!TypeOK'
  <2>1. db' \subseteq Log!Entry /\ sequence' \in Nat
    BY <1>2, <1>4, <1>5, <1>6
  <2>2. open' \subseteq {e.id : e \in db'}
    <3>1. open \subseteq {e.id : e \in db}
      BY DEF LogInv, Log!TypeOK
    <3> QED
      BY <1>5, <3>1
  <2>3. flush' \in [Log!Flusher -> [pc : {"off", "disarm", "cancel", "take", "swap", "insert"}, list : Buffer]]
    BY <1>1, <1>2, <1>3
  <2> QED
    BY <1>1, <2>1, <2>2, <2>3 DEF LogInv, Log!TypeOK
<1>8. \A i \in DOMAIN batch : batch[i] \in Logged
  BY <1>4, LoggedIs DEF Logged
<1>9. /\ Linked(Logged', stamps') /\ Ends(Logged', chain', stamps')
      /\ Backend = "sqlite" /\ clears' = 0 => Ordered(Logged', chain', counter')
  <2>1. \A e \in Logged' : e \in db' \/ (\E i \in DOMAIN entries : e = entries[i])
                             \/ \E l \in Buffer : \E i \in DOMAIN list[l] : e = list[l][i]
    BY <1>1, LoggedIs DEF Logged
  <2> HIDE DEF batch
  <2>2. \A e \in Logged' : e \in Logged \/ e \in stored
    BY <1>5, <2>1, LoggedIs DEF Logged
  <2>3. \A e \in Logged' : \E d \in Logged : /\ d.prev = e.prev /\ d.hash = e.hash /\ d.index = e.index
                                             /\ Backend = "sqlite" => d.id = e.id
    BY <1>6, <1>8, <2>2
  <2> QED
    BY <1>1, <2>3, CopiesKeep
<1>10. Numbered(db', sequence')
  <2> HIDE DEF batch
  <2>1. IsFiniteSet(db)  /\ \A d, e \in db : d.id = e.id => d = e
    BY DEF LogInv, Numbered
  <2>2. IsFiniteSet(db \cup stored)
    BY <1>6, <2>1, FS_Union
  <2>3. \A d, e \in db \cup stored : d.id = e.id => d = e
    BY <1>6, <2>1
  <2>4. Backend = "postgres" => \A e \in db : e.id <= sequence /\ e.id <= sequence + Len(batch)
    BY <1>2, <1>4 DEF LogInv, Numbered, Log!Entry
  <2>5. Backend = "postgres" => \A e \in db \cup stored : e.id <= sequence + Len(batch)
    BY <1>6, <2>4
  <2>6. CASE UNCHANGED <<db, sequence, open>>
    BY <2>6 DEF LogInv
  <2>7. CASE /\ db' = db \cup stored /\ sequence' = IF Backend = "postgres" THEN sequence + Len(batch) ELSE sequence
             /\ open' \subseteq open \cup {e.id : e \in stored}
    BY <2>2, <2>3, <2>5, <2>7 DEF Numbered
  <2> QED
    BY <1>5, <2>6, <2>7
<1>11. Log!RingIsSorted'
  BY <1>1 DEF LogInv, Log!RingIsSorted
<1>12. Log!BufferIsAwaited'
  <2> SUFFICES ASSUME list[buf] # <<>>, timer = "none"
               PROVE  \E g \in Log!Flusher : flush'[g].pc \in {"take", "swap"}
    BY <1>1 DEF Log!BufferIsAwaited
  <2>1. PICK g \in Log!Flusher : flush[g].pc \in {"take", "swap"}
    BY DEF LogInv, Log!BufferIsAwaited
  <2>2. flush'[g] = flush[g]
    BY <1>1, <1>2, <2>1
  <2> QED
    BY <2>1, <2>2
<1> QED
  BY <1>7, <1>9, <1>10, <1>11, <1>12 DEF LogInv

\* A new entry follows the end of the chain; the buffer takes it, and somebody will come for it.
LEMMA LogAdds ==
  ASSUME LogInv, Log!Add
  PROVE  LogInv'
<1> USE LogConstants
<1> DEFINE e == Log!Stamped(counter + 1)
           r == Append(entries, e)
           b == Append(list[buf], e)
<1>1. /\ flush[Log!Adder].pc = "off" /\ stamps < MaxAdds /\ stamps' = stamps + 1 /\ counter' = counter + 1
      /\ chain' = [index |-> e.index, last |-> e.hash] /\ entries' = Log!Ring(r)
      /\ list' = [list EXCEPT ![buf] = b]
      /\ UNCHANGED <<buf, db, sequence, open, clears, restarts, alterations>>
  BY DEF Log!Add, Log!Unlocked, Log!Persist, Log!table, Log!bounds
<1>2. IF Len(b) >= FlushSize
      THEN flush' = [flush EXCEPT ![Log!Adder].pc = "disarm"] /\ UNCHANGED timer
      ELSE timer' = (IF timer = "none" THEN "armed" ELSE timer) /\ UNCHANGED flush
  BY DEF Log!Add, Log!Persist
<1>3. /\ list \in [Buffer -> Seq(Log!Entry)] /\ buf \in Buffer /\ entries \in Seq(Log!Entry) /\ counter \in Nat
      /\ chain \in [index : 0 .. MaxAdds, last : 0 .. MaxAdds] /\ stamps \in 0 .. MaxAdds
      /\ timer \in {"none", "armed", "fired"} /\ db \subseteq Log!Entry
      /\ flush \in [Log!Flusher -> [pc : {"off", "disarm", "cancel", "take", "swap", "insert"}, list : Buffer]]
  BY DEF LogInv, Log!TypeOK
<1>4. chain.index \in Nat /\ chain.last \in Nat /\ chain.index <= chain.last /\ chain.last <= stamps
  BY <1>3 DEF LogInv, Ends
<1>5. /\ e \in Log!Entry /\ e.id = counter + 1 /\ e.index = chain.index + 1 /\ e.prev = chain.last
      /\ e.hash = stamps + 1 /\ e.prev < e.hash /\ e.index <= e.hash
  <2>1. /\ counter + 1 \in Nat /\ chain.index + 1 \in 1 .. MaxAdds /\ chain.last \in 0 .. MaxAdds
        /\ stamps + 1 \in 1 .. MaxAdds
    BY <1>1, <1>3, <1>4
  <2>2. e = [id |-> counter + 1, stamped |-> counter + 1, index |-> chain.index + 1, prev |-> chain.last,
             hash |-> stamps + 1]
    BY DEF Log!Stamped
  <2> HIDE DEF e
  <2>3. e \in Log!Entry
    BY <2>1, <2>2 DEF Log!Entry
  <2>4. e.id = counter + 1 /\ e.index = chain.index + 1 /\ e.prev = chain.last /\ e.hash = stamps + 1
    BY <2>2
  <2>5. stamps \in Nat
    BY <1>3
  <2> QED
    BY <1>4, <2>3, <2>4, <2>5
<1> HIDE DEF e
<1>6. /\ r \in Seq(Log!Entry) /\ r # <<>> /\ Len(r) = Len(entries) + 1 /\ r[Len(r)] = e /\ Len(entries) \in Nat
      /\ \A i \in 1 .. Len(entries) : r[i] = entries[i]
      /\ b \in Seq(Log!Entry) /\ Len(b) = Len(list[buf]) + 1 /\ b[Len(b)] = e /\ Len(list[buf]) \in Nat
      /\ \A i \in 1 .. Len(list[buf]) : b[i] = list[buf][i]
  <2>1. ASSUME NEW u \in Seq(Log!Entry)
        PROVE  LET v == Append(u, e)
               IN  /\ v \in Seq(Log!Entry) /\ v # <<>> /\ Len(v) = Len(u) + 1 /\ v[Len(v)] = e /\ Len(u) \in Nat
                   /\ \A i \in 1 .. Len(u) : v[i] = u[i]
    <3>1. Append(u, e) \in Seq(Log!Entry) /\ Len(Append(u, e)) = Len(u) + 1 /\ Len(u) \in Nat
      BY <1>5
    <3>2. Append(u, e)[Len(u) + 1] = e /\ \A i \in 1 .. Len(u) : Append(u, e)[i] = u[i]
      BY <1>5
    <3> QED
      BY <3>1, <3>2
  <2>2. list[buf] \in Seq(Log!Entry)
    BY <1>3
  <2>3. /\ r \in Seq(Log!Entry) /\ r # <<>> /\ Len(r) = Len(entries) + 1 /\ r[Len(r)] = e /\ Len(entries) \in Nat
        /\ \A i \in 1 .. Len(entries) : r[i] = entries[i]
    BY <1>3, <2>1
  <2>4. /\ b \in Seq(Log!Entry) /\ Len(b) = Len(list[buf]) + 1 /\ b[Len(b)] = e /\ Len(list[buf]) \in Nat
        /\ \A i \in 1 .. Len(list[buf]) : b[i] = list[buf][i]
    BY <2>1, <2>2
  <2> QED
    BY <2>3, <2>4
<1> HIDE DEF r, b
<1>7. /\ entries' \in Seq(Log!Entry) /\ Len(entries') <= MaxEntries /\ Len(entries') <= Len(r)
      /\ \A i \in DOMAIN entries' : /\ i + (Len(r) - Len(entries')) \in DOMAIN r
                                    /\ entries'[i] = r[i + (Len(r) - Len(entries'))]
      /\ entries' # <<>> /\ entries'[Len(entries')] = e
  BY <1>1, <1>6, RingIs
<1>8. Log!TypeOK'
  <2>1. list' \in [Buffer -> Seq(Log!Entry)] /\ counter' \in Nat /\ stamps' \in 0 .. MaxAdds
    BY <1>1, <1>3, <1>6
  <2>2. chain' \in [index : 0 .. MaxAdds, last : 0 .. MaxAdds]
    BY <1>1, <1>5 DEF Log!Entry
  <2>3. timer' \in {"none", "armed", "fired"}
    BY <1>2, <1>3
  <2>4. flush' \in [Log!Flusher -> [pc : {"off", "disarm", "cancel", "take", "swap", "insert"}, list : Buffer]]
    <3>1. CASE flush' = flush
      BY <1>3, <3>1
    <3>2. CASE flush' = [flush EXCEPT ![Log!Adder].pc = "disarm"]
      BY <1>3, <3>2
    <3> QED
      BY <1>2, <3>1, <3>2
  <2> QED
    BY <1>1, <1>7, <2>1, <2>2, <2>3, <2>4 DEF LogInv, Log!TypeOK
<1>9. \A d \in Logged' : d \in Logged \/ d = e
  <2>1. \A i \in DOMAIN r : r[i] = e \/ \E j \in DOMAIN entries : r[i] = entries[j]
    <3>1. DOMAIN r = 1 .. Len(entries) + 1 /\ DOMAIN entries = 1 .. Len(entries)
      BY <1>3, <1>6
    <3>2. \A i \in 1 .. Len(entries) + 1 : i = Len(entries) + 1 \/ i \in 1 .. Len(entries)
      BY <1>6
    <3>3. r[Len(entries) + 1] = e /\ \A i \in 1 .. Len(entries) : r[i] = entries[i]
      BY <1>6
    <3> QED
      BY <3>1, <3>2, <3>3
  <2>2. \A i \in DOMAIN b : b[i] = e \/ \E j \in DOMAIN list[buf] : b[i] = list[buf][j]
    <3>1. DOMAIN b = 1 .. Len(list[buf]) + 1 /\ DOMAIN list[buf] = 1 .. Len(list[buf])
      BY <1>3, <1>6
    <3> QED
      BY <1>6, <3>1
  <2>3. \A l \in Buffer : list'[l] = IF l = buf THEN b ELSE list[l]
    BY <1>1, <1>3
  <2>4. \A d \in Logged' : d \in db \/ (\E i \in DOMAIN entries' : d = entries'[i])
                             \/ \E l \in Buffer : \E i \in DOMAIN list'[l] : d = list'[l][i]
    <3>1. db' = db
      BY <1>1
    <3> QED
      BY <3>1, LoggedIs DEF Logged
  <2>5. \A d \in Logged' : d \in db \/ (\E i \in DOMAIN entries : d = entries[i]) \/ d = e
                             \/ \E l \in Buffer : \E i \in DOMAIN list[l] : d = list[l][i]
    <3>1. \A i \in DOMAIN entries' : entries'[i] = e \/ \E j \in DOMAIN entries : entries'[i] = entries[j]
      BY <1>7, <2>1
    <3>2. \A l \in Buffer : \A i \in DOMAIN list'[l] :
             list'[l][i] = e \/ \E j \in DOMAIN list[l] : list'[l][i] = list[l][j]
      BY <2>2, <2>3
    <3> QED
      BY <2>4, <3>1, <3>2
  <2> QED
    BY <2>5, LoggedIs DEF Logged
<1>10. Logged \subseteq Log!Entry /\ Linked(Logged, stamps) /\ Ends(Logged, chain, stamps)
  BY LoggedNow DEF LogInv
<1>11. \A d \in Logged : /\ d.hash \in Nat /\ d.prev \in Nat /\ d.index \in Nat /\ d.id \in Nat /\ d.hash <= stamps
                         /\ d.prev < stamps
  <2>1. \A d \in Logged : d.hash \in Nat /\ d.prev \in Nat /\ d.index \in Nat /\ d.id \in Nat
    BY <1>10 DEF Log!Entry
  <2> QED
    BY <1>3, <1>10, <2>1 DEF Linked
<1>12. Linked(Logged', stamps')
  <2>1. ASSUME NEW d \in Logged'
        PROVE  /\ d.prev < d.hash /\ d.hash <= stamps' /\ d.index <= d.hash /\ (d.prev = 0 => d.index = 1)
    <3>1. CASE d \in Logged
      BY <1>1, <1>3, <1>10, <1>11, <3>1 DEF Linked
    <3>2. CASE d = e
      BY <1>1, <1>3, <1>4, <1>5, <3>2
    <3> QED
      BY <1>9, <3>1, <3>2
  <2>2. ASSUME NEW c \in Logged', NEW d \in Logged'
        PROVE  (c.hash = d.hash => c.index = d.index) /\ (d.prev = c.hash => d.index = c.index + 1)
    <3>1. CASE c \in Logged /\ d \in Logged
      BY <1>10, <3>1 DEF Linked
    <3>2. CASE c = e /\ d = e
      BY <1>3, <1>4, <1>5, <3>2
    <3>3. CASE c \in Logged /\ d = e
      <4>1. c.hash # d.hash
        BY <1>3, <1>5, <1>11, <3>3
      <4>2. d.prev = c.hash => c.index = chain.index
        BY <1>5, <1>10, <3>3 DEF Ends
      <4> QED
        BY <1>5, <3>3, <4>1, <4>2
    <3>4. CASE c = e /\ d \in Logged
      BY <1>3, <1>5, <1>11, <3>4
    <3> QED
      BY <1>9, <3>1, <3>2, <3>3, <3>4
  <2> QED
    BY <2>1, <2>2 DEF Linked
<1>13. chain'.index = e.index /\ chain'.last = e.hash
  BY <1>1
<1>14. Ends(Logged', chain', stamps')
  <2>1. \A d \in Logged' : d.hash = e.hash => d.index = e.index
    BY <1>3, <1>5, <1>9, <1>11
  <2> QED
    BY <1>1, <1>3, <1>5, <1>13, <2>1 DEF Ends
<1>0. counter \in Nat /\ stamps \in Nat
  BY <1>3
<1>15. ASSUME Backend = "sqlite", clears' = 0 PROVE Ordered(Logged', chain', counter')
  <2>1. Ordered(Logged, chain, counter)
    BY <1>1, <1>15 DEF LogInv
  <2>2. ASSUME NEW c \in Logged', NEW d \in Logged', c.hash < d.hash
        PROVE  c.hash <= d.prev /\ c.index < d.index /\ c.id < d.id
    <3>1. CASE c \in Logged /\ d \in Logged
      BY <2>1, <2>2, <3>1 DEF Ordered
    <3>2. CASE c = e /\ d = e
      BY <1>3, <1>5, <2>2, <3>2
    <3>3. CASE c \in Logged /\ d = e
      <4>1. c.hash <= chain.last /\ c.id <= counter /\ c.index <= chain.index
        BY <2>1, <3>3 DEF Ordered
      <4> QED
        BY <1>0, <1>4, <1>5, <1>11, <3>3, <4>1
    <3>4. CASE c = e /\ d \in Logged
      BY <1>3, <1>5, <1>11, <2>2, <3>4
    <3> QED
      BY <1>9, <3>1, <3>2, <3>3, <3>4
  <2>3. ASSUME NEW d \in Logged' PROVE d.hash <= e.hash /\ d.id <= counter + 1 /\ d.index <= e.index
    <3>1. CASE d \in Logged
      <4>1. d.hash <= chain.last /\ d.id <= counter /\ d.index <= chain.index
        BY <2>1, <3>1 DEF Ordered
      <4> QED
        BY <1>0, <1>4, <1>5, <1>11, <3>1, <4>1
    <3>2. CASE d = e
      BY <1>3, <1>4, <1>5, <3>2
    <3> QED
      BY <1>9, <3>1, <3>2
  <2> QED
    BY <1>1, <1>13, <2>2, <2>3 DEF Ordered
<1>16. Log!RingIsSorted'
  <2>1. \A i, j \in DOMAIN r : i < j => r[i].id < r[j].id
    <3>1. DOMAIN r = 1 .. Len(entries) + 1 /\ DOMAIN entries = 1 .. Len(entries)
      BY <1>3, <1>6
    <3>2. ASSUME NEW i \in DOMAIN entries PROVE entries[i].id <= counter /\ entries[i].id \in Nat
      <4>1. entries # <<>> /\ Len(entries) \in DOMAIN entries
        BY <1>3, <3>1, <3>2
      <4>2. counter = entries[Len(entries)].id
        BY <4>1 DEF LogInv, Log!RingIsSorted, Log!Last
      <4>3. i < Len(entries) => entries[i].id < entries[Len(entries)].id
        BY <3>2, <4>1 DEF LogInv, Log!RingIsSorted
      <4>4. entries[i].id \in Nat
        <5>1. entries[i] \in Log!Entry
          BY <1>3, <3>2
        <5> QED
          BY <5>1 DEF Log!Entry
      <4> QED
        BY <1>3, <3>1, <3>2, <4>2, <4>3, <4>4
    <3>3. ASSUME NEW i \in DOMAIN r, NEW j \in DOMAIN r, i < j PROVE r[i].id < r[j].id
      <4>1. i \in DOMAIN entries /\ r[i] = entries[i]
        BY <1>6, <3>1, <3>3
      <4>2. CASE j \in DOMAIN entries
        <5>1. r[j] = entries[j]
          BY <1>6, <3>1, <4>2
        <5> QED
          BY <3>3, <4>1, <4>2, <5>1 DEF LogInv, Log!RingIsSorted
      <4>3. CASE j = Len(entries) + 1
        <5>1. r[j] = e
          BY <1>6, <4>3
        <5> QED
          BY <1>3, <1>5, <3>2, <4>1, <5>1
      <4> QED
        BY <1>6, <3>1, <3>3, <4>2, <4>3
    <3> QED
      BY <3>3
  <2>2. ASSUME NEW i \in DOMAIN entries', NEW j \in DOMAIN entries', i < j PROVE entries'[i].id < entries'[j].id
    <3>1. i \in Nat /\ j \in Nat /\ Len(r) \in Nat /\ Len(entries') \in Nat
      <4>1. Len(r) \in Nat
        BY <1>6
      <4>2. Len(entries') \in Nat /\ DOMAIN entries' = 1 .. Len(entries')
        BY <1>7
      <4> QED
        BY <4>1, <4>2
    <3>2. i + (Len(r) - Len(entries')) < j + (Len(r) - Len(entries'))
      BY <2>2, <3>1
    <3> QED
      BY <1>7, <2>1, <3>2
  <2>3. counter' = Log!Last(entries').id
    BY <1>1, <1>5, <1>7 DEF Log!Last
  <2> QED
    BY <2>2, <2>3 DEF Log!RingIsSorted, Log!Last
<1>17. Log!BufferIsAwaited'
  <2> SUFFICES ASSUME timer' = "none" PROVE \E g \in Log!Flusher : flush'[g].pc \in {"take", "swap"}
    BY DEF Log!BufferIsAwaited
  <2>1. Len(b) >= FlushSize /\ timer = "none" /\ flush' = [flush EXCEPT ![Log!Adder].pc = "disarm"]
    BY <1>2
  <2>2. list[buf] # <<>>
    <3>1. Len(list[buf]) # 0
      BY <1>6, <2>1
    <3>2. list[buf] = <<>> => Len(list[buf]) = 0
      OBVIOUS
    <3> QED
      BY <3>1, <3>2
  <2>3. PICK g \in Log!Flusher : flush[g].pc \in {"take", "swap"}
    BY <2>1, <2>2 DEF LogInv, Log!BufferIsAwaited
  <2>4. g # Log!Adder
    BY <1>1, <2>3
  <2>5. flush'[g] = flush[g]
    BY <1>3, <2>1, <2>4
  <2> QED
    BY <2>3, <2>5
<1> QED
  BY <1>1, <1>8, <1>12, <1>14, <1>15, <1>16, <1>17 DEF LogInv
\* After a restart the newest row by id is, in SQLite, the end of the chain that is left.
LEMMA LogRestarts ==
  ASSUME LogInv, Log!Restart
  PROVE  LogInv'
<1> USE LogConstants
<1>1. /\ restarts < MaxRestarts /\ restarts' = restarts + 1 /\ db' \subseteq db /\ open' = {}
      /\ entries' = Log!LoadRecent(db') /\ counter' = Log!HighestId(entries') /\ chain' = Log!Restored(entries')
      /\ list' = [l \in Buffer |-> <<>>] /\ timer' = "none"
      /\ flush' = [f \in Log!Flusher |-> Log!NotFlushing]
      /\ UNCHANGED <<buf, sequence, stamps, clears, alterations>>
  BY DEF Log!Restart
<1>2. /\ buf \in Buffer /\ db \subseteq Log!Entry /\ db' \subseteq Log!Entry /\ restarts \in 0 .. MaxRestarts
      /\ stamps \in 0 .. MaxAdds /\ sequence \in Nat
  BY <1>1 DEF LogInv, Log!TypeOK
<1>3. Numbered(db', sequence')
  <2>1. IsFiniteSet(db')
    BY <1>1, FS_Subset DEF LogInv, Numbered
  <2> QED
    BY <1>1, <2>1 DEF LogInv, Numbered
<1> DEFINE s == Log!LoadRecent(db')
<1>4. /\ s \in Seq(db') /\ Len(s) <= MaxEntries /\ Len(s) \in Nat /\ DOMAIN s = 1 .. Len(s)
      /\ \A i, j \in DOMAIN s : i < j => s[i].id < s[j].id
      /\ db' # {} => s # <<>> /\ \A e \in db' : e.id <= s[Len(s)].id
  <2>1. IsFiniteSet(db') /\ \A d, e \in db' : d.id = e.id => d = e
    BY <1>3 DEF Numbered
  <2>2. /\ s \in Seq(db') /\ Len(s) <= MaxEntries
        /\ \A i, j \in DOMAIN s : i < j => s[i].id < s[j].id
        /\ db' # {} => s # <<>> /\ \A e \in db' : e.id <= s[Len(s)].id
    BY <1>2, <2>1, LoadRecentIs
  <2> HIDE DEF s
  <2> QED
    BY <2>2
<1>5. entries' = s
  BY <1>1
<1> HIDE DEF s
<1>6. \A i \in DOMAIN s : s[i] \in db' /\ s[i] \in Log!Entry
  BY <1>2, <1>4
<1>7. \A e \in Logged' : e \in db'
  <2>1. \A e \in Logged' : e \in db' \/ (\E i \in DOMAIN s : e = s[i])
                             \/ \E l \in Buffer : \E i \in DOMAIN list'[l] : e = list'[l][i]
    BY <1>5, LoggedIs DEF Logged
  <2>2. \A l \in Buffer : DOMAIN list'[l] = {}
    <3>1. \A l \in Buffer : list'[l] = <<>>
      BY <1>1
    <3> QED
      BY <3>1
  <2> QED
    BY <1>6, <2>1, <2>2
<1>8. \A e \in Logged' : e \in Logged
  BY <1>1, <1>7, LoggedIs DEF Logged
<1>9. Linked(Logged', stamps')
  BY <1>1, <1>8 DEF LogInv, Linked
<1>10. \A e \in db' : /\ e \in Logged /\ e \in Log!Entry /\ e.id \in Nat /\ e.hash \in Nat \ {0} /\ e.index \in Nat
                      /\ e.index <= e.hash /\ e.hash <= stamps /\ e.hash \in 0 .. MaxAdds /\ e.index \in 0 .. MaxAdds
  <2>1. \A e \in db' : e \in Logged /\ e \in Log!Entry
    BY <1>1, <1>2, LoggedIs DEF Logged
  <2>2. \A e \in db' : /\ e.id \in Nat /\ e.hash \in Nat \ {0} /\ e.index \in Nat
                       /\ e.hash \in 0 .. MaxAdds /\ e.index \in 0 .. MaxAdds
    BY <2>1 DEF Log!Entry
  <2> QED
    BY <2>1, <2>2 DEF LogInv, Linked
\* the end of the chain
<1>11. ASSUME s = <<>>
       PROVE  /\ Ends(Logged', chain', stamps') /\ (Backend = "sqlite" /\ clears' = 0 => Ordered(Logged', chain', counter'))
              /\ chain' \in [index : 0 .. MaxAdds, last : 0 .. MaxAdds] /\ counter' \in Nat /\ Log!RingIsSorted'
  <2>1. db' = {} /\ Logged' = {}
    BY <1>4, <1>7, <1>11
  <2>2. chain' = [index |-> 0, last |-> 0] /\ counter' = 0
    BY <1>1, <1>5, <1>11 DEF Log!Restored, Log!Genesis, Log!HighestId
  <2>3. Ends(Logged', chain', stamps') /\ Ordered(Logged', chain', counter')
    BY <1>1, <1>2, <2>1, <2>2 DEF Ends, Ordered
  <2>4. chain' \in [index : 0 .. MaxAdds, last : 0 .. MaxAdds] /\ counter' \in Nat
    BY <2>2
  <2>5. Log!RingIsSorted'
    BY <1>4, <1>5, <1>11 DEF Log!RingIsSorted
  <2> QED
    BY <2>3, <2>4, <2>5
<1>12. ASSUME s # <<>>
       PROVE  /\ Ends(Logged', chain', stamps') /\ (Backend = "sqlite" /\ clears' = 0 => Ordered(Logged', chain', counter'))
              /\ chain' \in [index : 0 .. MaxAdds, last : 0 .. MaxAdds] /\ counter' \in Nat /\ Log!RingIsSorted'
  <2> DEFINE T == {s[i] : i \in DOMAIN s}
             N == {e.index : e \in T}
  <2>1. T \subseteq db' /\ T # {} /\ Len(s) \in DOMAIN s
    BY <1>4, <1>6, <1>12
  <2>2. N \subseteq 0 .. MaxAdds /\ N # {}
    BY <1>10, <2>1
  <2>3. PICK k \in N : \A y \in N : y <= k
    <3> HIDE DEF N
    <3> QED
      BY <2>2, GreatestNumber
  <2>4. PICK g \in T : \A o \in T : o.index <= g.index
    BY <2>3
  <2> DEFINE m == CHOOSE e \in T : \A o \in T : o.index <= e.index
  <2>5. m \in T /\ \A o \in T : o.index <= m.index
    BY <2>4
  <2>6. Log!ToSet(s) = T
    BY DEF Log!ToSet
  <2>7. chain' = [index |-> m.index, last |-> m.hash]
    BY <1>1, <1>5, <1>12, <2>6 DEF Log!Restored
  <2> HIDE DEF m
  <2> DEFINE z == s[Len(s)]
  <2>8. z \in T /\ z \in db' /\ m \in db' /\ counter' = z.id
    BY <1>1, <1>5, <1>12, <2>1, <2>5 DEF Log!HighestId, Log!Last
  <2> HIDE DEF z, T
  <2>9. chain'.index = m.index /\ chain'.last = m.hash
    BY <2>7
  <2>10. Ends(Logged', chain', stamps')
    <3>1. \A e \in Logged' : m.hash = e.hash => m.index = e.index
      BY <1>7, <1>10, <2>8 DEF LogInv, Linked
    <3> QED
      BY <1>1, <1>10, <2>8, <2>9, <3>1 DEF Ends
  <2>11. ASSUME Backend = "sqlite", clears' = 0 PROVE Ordered(Logged', chain', counter')
    <3>1. Ordered(Logged, chain, counter)
      BY <1>1, <2>11 DEF LogInv
    <3>2. ASSUME NEW e \in db' PROVE e.hash <= z.hash /\ e.id <= z.id
      <4>1. e.id <= z.id
        BY <1>4, <1>12, <3>2 DEF z
      <4>2. z.hash < e.hash => z.id < e.id
        BY <1>10, <2>8, <3>1, <3>2 DEF Ordered
      <4> QED
        BY <1>10, <2>8, <3>2, <4>1, <4>2
    <3>3. z.hash <= m.hash
      <4>1. z.index <= m.index
        BY <2>5, <2>8
      <4>2. m.hash < z.hash => m.index < z.index
        BY <1>10, <2>8, <3>1 DEF Ordered
      <4> QED
        BY <1>10, <2>8, <4>1, <4>2
    <3>4. ASSUME NEW e \in Logged' PROVE e.hash <= m.hash /\ e.id <= counter' /\ e.index <= m.index
      <4>1. e \in db' /\ e.hash <= z.hash /\ e.id <= z.id
        BY <1>7, <3>2, <3>4
      <4>2. e.hash <= m.hash
        BY <1>10, <2>8, <3>3, <4>1
      <4>3. e.hash < m.hash => e.index < m.index
        BY <1>10, <2>8, <3>1, <4>1 DEF Ordered
      <4>4. e.hash = m.hash => e.index = m.index
        BY <1>10, <2>8, <4>1 DEF LogInv, Linked
      <4> QED
        BY <1>10, <2>8, <4>1, <4>2, <4>3, <4>4
    <3>5. \A d, e \in Logged' : d.hash < e.hash => d.hash <= e.prev /\ d.index < e.index /\ d.id < e.id
      BY <1>8, <3>1 DEF Ordered
    <3> QED
      BY <2>9, <3>4, <3>5 DEF Ordered
  <2>12. chain' \in [index : 0 .. MaxAdds, last : 0 .. MaxAdds] /\ counter' \in Nat
    BY <1>10, <2>7, <2>8
  <2>13. Log!RingIsSorted'
    BY <1>4, <1>5, <2>8 DEF Log!RingIsSorted, Log!Last, z
  <2> QED
    BY <2>10, <2>11, <2>12, <2>13
<1>13. Log!TypeOK'
  <2>1. entries' \in Seq(Log!Entry) /\ Len(entries') <= MaxEntries
    <3>1. s \in Seq(Log!Entry)
      BY <1>4, <1>6
    <3> QED
      BY <1>4, <1>5, <3>1
  <2>2. list' \in [Buffer -> Seq(Log!Entry)] /\ timer' \in {"none", "armed", "fired"}
    <3>1. <<>> \in Seq(Log!Entry)
      OBVIOUS
    <3> QED
      BY <1>1, <3>1
  <2>3. flush' \in [Log!Flusher -> [pc : {"off", "disarm", "cancel", "take", "swap", "insert"}, list : Buffer]]
    <3>1. Log!NotFlushing \in [pc : {"off", "disarm", "cancel", "take", "swap", "insert"}, list : Buffer]
      BY <1>2 DEF Log!NotFlushing
    <3> QED
      BY <1>1, <3>1
  <2>4. open' \subseteq {e.id : e \in db'} /\ restarts' \in 0 .. MaxRestarts
    BY <1>1, <1>2
  <2>5. chain' \in [index : 0 .. MaxAdds, last : 0 .. MaxAdds] /\ counter' \in Nat
    BY <1>11, <1>12
  <2> QED
    BY <1>1, <1>2, <2>1, <2>2, <2>3, <2>4, <2>5 DEF LogInv, Log!TypeOK
<1>14. Log!BufferIsAwaited'
  <2>1. list'[buf'] = <<>>
    BY <1>1, <1>2
  <2> QED
    BY <2>1 DEF Log!BufferIsAwaited
<1>15. /\ Ends(Logged', chain', stamps') /\ (Backend = "sqlite" /\ clears' = 0 => Ordered(Logged', chain', counter'))
       /\ Log!RingIsSorted'
  BY <1>11, <1>12
<1> QED
  BY <1>3, <1>9, <1>13, <1>14, <1>15 DEF LogInv

LEMMA LogStep == LogInv /\ [Log!Next]_logVars => LogInv'
<1> SUFFICES ASSUME LogInv, [Log!Next]_logVars PROVE LogInv'
  OBVIOUS
<1>1. ASSUME NEW f \in Log!Flusher, Log!FlushStep(f) PROVE LogInv'
  BY <1>1, LogFlushes, LogInserts DEF Log!FlushStep
<1>2. ASSUME NEW t \in Timer, Log!Fire(t) PROVE LogInv'
  <2>1. t \in Log!Flusher
    BY DEF Log!Flusher
  <2> QED
    BY <1>2, <2>1, LogFlushes
<1>3. CASE UNCHANGED logVars
  <2>1. Logged' = Logged
    BY <1>3 DEF logVars, Logged
  <2>2. Log!TypeOK' /\ Log!RingIsSorted' /\ Log!BufferIsAwaited'
    BY <1>3 DEF logVars, LogInv, Log!TypeOK, Log!RingIsSorted, Log!BufferIsAwaited
  <2> QED
    BY <1>3, <2>1, <2>2 DEF logVars, LogInv
<1> QED
  BY <1>1, <1>2, <1>3, LogClears, LogAlters, LogAdds, LogRestarts DEF Log!Next

\* What verification accepts begins at the genesis hash, so that its indices are 1, 2, 3...
LEMMA VerifiedIsCounted == LogInv => Log!VerifiedIsComplete
<1> SUFFICES ASSUME LogInv, Log!Verified(entries), NEW i \in DOMAIN entries
             PROVE  entries[i].index = i /\ entries[i].stamped = entries[i].id
  BY DEF Log!VerifiedIsComplete
<1>1. entries \in Seq(Log!Entry) /\ DOMAIN entries = 1 .. Len(entries) /\ Len(entries) \in Nat
  BY DEF LogInv, Log!TypeOK
<1>2. \A j \in DOMAIN entries : entries[j] \in Logged
  BY LoggedIs DEF Logged
<1> DEFINE Bad == {j \in DOMAIN entries : entries[j].index # j}
<1>3. Bad = {}
  <2> SUFFICES ASSUME Bad # {} PROVE FALSE
    OBVIOUS
  <2>1. Bad \subseteq Nat
    BY <1>1
  <2>2. PICK j \in Bad : \A k \in Bad : j <= k
    <3> HIDE DEF Bad
    <3> QED
      BY <2>1, LeastNumber
  <2>3. CASE j = 1
    <3>1. entries[j].prev = 0
      BY <2>3 DEF Log!Verified, Log!Genesis
    <3> QED
      BY <1>2, <2>3, <3>1 DEF LogInv, Linked
  <2>4. CASE j # 1
    <3>1. j - 1 \in DOMAIN entries /\ ~(j <= j - 1) /\ j \in DOMAIN entries /\ j \in Nat
      BY <1>1, <2>4
    <3>2. entries[j - 1].index = j - 1
      BY <2>2, <3>1
    <3>3. entries[j].prev = entries[j - 1].hash
      BY <2>4, <3>1 DEF Log!Verified
    <3>4. entries[j].index = entries[j - 1].index + 1
      BY <1>2, <3>1, <3>3 DEF LogInv, Linked
    <3> QED
      BY <3>1, <3>2, <3>4
  <2> QED
    BY <2>3, <2>4
<1> QED
  BY <1>3 DEF Log!Verified

\* For any backend, length of the ring and of the buffer, number of flushes, adds, clears,
\* restarts and alterations: the ring is in order, what verification accepts is complete, the
\* chain in SQLite does not fork before a clear, and what is buffered will be fetched.
THEOREM LogSound == StoresSpec => []LogIsSound
<1>1. StoresInit => LogInv
  BY LogInit DEF StoresInit
<1>2. LogInv /\ [StoresNext]_<<part, vars, logVars, accountVars, centreVars, siteVars, responseVars>>
        => LogInv'
  <2>1. StoresNext => [Log!Next]_logVars
    BY DEF StoresNext
  <2> QED
    BY <2>1, LogStep
<1>3. LogInv => LogIsSound
  <2> SUFFICES ASSUME LogInv PROVE Log!LogIsSound
    BY DEF LogIsSound
  <2>1. ASSUME Backend = "sqlite", clears = 0, NEW d \in db, NEW e \in db, d.prev = e.prev
        PROVE  d.hash = e.hash
    <3>1. /\ d \in Logged /\ e \in Logged /\ d.hash \in Nat /\ e.hash \in Nat /\ d.prev \in Nat
      <4>1. d \in Log!Entry /\ e \in Log!Entry
        BY DEF LogInv, Log!TypeOK
      <4> QED
        BY <4>1, LoggedIs DEF Logged, Log!Entry
    <3>2. d.prev < d.hash /\ e.prev < e.hash
      BY <3>1 DEF LogInv, Linked
    <3>3. (d.hash < e.hash => d.hash <= e.prev) /\ (e.hash < d.hash => e.hash <= d.prev)
      BY <2>1, <3>1 DEF LogInv, Ordered
    <3> QED
      BY <2>1, <3>1, <3>2, <3>3
  <2>2. Log!StoredChainDoesNotFork
    BY <2>1 DEF Log!StoredChainDoesNotFork
  <2> QED
    BY <2>2, VerifiedIsCounted DEF LogInv, Log!LogIsSound, Log!ChainIsSound
<1> QED
  BY <1>1, <1>2, <1>3, PTL DEF StoresSpec
-----------------------------------------------------------------------------
(***************************************************************************)
(* Responses.  A step changes the job of its own worker; the jobs that are *)
(* at a place after a step were there before it, but for the one that the  *)
(* step has brought there.                                                 *)
(***************************************************************************)
JobsAre == job = [w \in Worker |-> job[w]]

\* The steps that bring a worker to a place, or leave it at it.
Brings(w, place) ==
    CASE place = "update" -> Response!UpdateTicket(w)
      [] place = "run" -> Response!RunPlaybook(w) \/ Response!RunAction(w)
      [] place = "timeline" -> Response!ReadCase(w)
      [] place = "evidence" -> Response!ReadTimeline(w)
      [] place = "factor" -> Response!AddRiskFactor(w)
      [] place = "decay" -> Response!DecayRiskScores(w)

Places == {"update", "run", "timeline", "evidence", "factor", "decay"}

Stays(v, place) == Response!At(v, place) /\ job'[v] = job[v]

LEMMA JobMoves ==
  ASSUME JobsAre, NEW w \in Worker, Response!Step(w)
  PROVE  /\ JobsAre' /\ crossed \subseteq crossed'
         /\ \A p \in Places, v \in Worker :
              Response!At(v, p)' => Stays(v, p) \/ (v = w /\ Brings(w, p))
<1> USE DEF JobsAre
<1> DEFINE Moved == \A p \in Places, v \in Worker :
                      Response!At(v, p)' => Stays(v, p) \/ (v = w /\ Brings(w, p))
<1>1. ASSUME job' = job PROVE JobsAre' /\ Moved
  BY <1>1 DEF Stays, Response!At, Response!Idle
<1>2. ASSUME NEW r, Response!Become(w, r), \A p \in Places : r.at = p => Brings(w, p) \/ r = None PROVE JobsAre' /\ Moved
  BY <1>2 DEF Stays, Response!At, Response!Idle, Response!Become
<1>3. ASSUME Response!End(w) PROVE JobsAre' /\ Moved
  BY <1>3 DEF Stays, Response!At, Response!Idle, Response!Become, Response!End
<1> HIDE DEF JobsAre, Moved
<1>4. CASE \/ Response!CreateTicket(w) \/ Response!AddThreat(w) \/ Response!RemoveThreat(w) \/ Response!CreatePlaybook(w)
           \/ Response!UpdatePlaybook(w) \/ Response!DeletePlaybook(w) \/ Response!CreateCase(w)
           \/ Response!UpdateCase(w) \/ Response!AddEvidence(w)
  <2>1. job' = job /\ crossed \subseteq crossed'
    BY <1>4 DEF Response!CreateTicket, Response!AddThreat, Response!RemoveThreat, Response!CreatePlaybook,
                Response!UpdatePlaybook, Response!DeletePlaybook, Response!CreateCase, Response!UpdateCase,
                Response!AddEvidence
  <2> QED
    BY <1>1, <2>1 DEF Moved
<1>5. CASE Response!WriteTicket(w) \/ Response!RecordRun(w) \/ Response!AnswerCase(w) \/ Response!WriteRisk(w)
  <2>1. Response!End(w) /\ crossed \subseteq crossed'
    BY <1>5 DEF Response!WriteTicket, Response!RecordRun, Response!AnswerCase, Response!WriteRisk
  <2> QED
    BY <1>3, <2>1 DEF Moved
<1>6. CASE Response!UpdateTicket(w)
  <2>1. \E r : Response!Become(w, r) /\ r.at = "update"
    BY <1>6 DEF Response!UpdateTicket
  <2>2. crossed' = crossed
    BY <1>6 DEF Response!UpdateTicket
  <2> QED
    BY <1>2, <1>6, <2>1, <2>2 DEF Moved, Brings
<1>7. CASE Response!RunPlaybook(w)
  <2>1. \E r : Response!Become(w, r) /\ r.at = "run"
    BY <1>7 DEF Response!RunPlaybook, Response!Begun
  <2>2. crossed' = crossed
    BY <1>7 DEF Response!RunPlaybook
  <2> QED
    BY <1>2, <1>7, <2>1, <2>2 DEF Moved, Brings
<1>8. CASE Response!ReadCase(w)
  <2>1. \E r : Response!Become(w, r) /\ r.at = "timeline"
    BY <1>8 DEF Response!ReadCase
  <2>2. crossed' = crossed
    BY <1>8 DEF Response!ReadCase
  <2> QED
    BY <1>2, <1>8, <2>1, <2>2 DEF Moved, Brings
<1>9. CASE Response!ReadTimeline(w)
  <2>1. \E r : Response!Become(w, r) /\ r.at = "evidence"
    BY <1>9 DEF Response!ReadTimeline
  <2>2. crossed' = crossed
    BY <1>9 DEF Response!ReadTimeline
  <2> QED
    BY <1>2, <1>9, <2>1, <2>2 DEF Moved, Brings
<1>10. CASE Response!AddRiskFactor(w)
  <2>1. \E r : Response!Become(w, r) /\ r.at = "factor"
    BY <1>10 DEF Response!AddRiskFactor
  <2>2. crossed' = crossed
    BY <1>10 DEF Response!AddRiskFactor
  <2> QED
    BY <1>2, <1>10, <2>1, <2>2 DEF Moved, Brings
<1>11. CASE Response!DecayRiskScores(w)
  <2>1. \E r : Response!Become(w, r) /\ r.at = "decay"
    BY <1>11 DEF Response!DecayRiskScores
  <2>2. crossed' = crossed
    BY <1>11 DEF Response!DecayRiskScores
  <2> QED
    BY <1>2, <1>11, <2>1, <2>2 DEF Moved, Brings
<1>12. CASE Response!RunAction(w)
  <2>1. crossed \subseteq crossed'
    BY <1>12 DEF Response!RunAction
  <2>2. Response!End(w) \/ \E r : Response!Become(w, r) /\ r.at = "run"
    BY <1>12 DEF Response!RunAction
  <2> QED
    BY <1>2, <1>3, <1>12, <2>1, <2>2 DEF Moved, Brings
<1>13. CASE Response!Crash(w)
  <2>1. crossed \subseteq crossed'
    BY <1>13 DEF Response!Crash
  <2>2. \E dead : job' = [v \in Worker |-> IF v \in dead THEN None ELSE job[v]]
    BY <1>13 DEF Response!Crash
  <2>3. JobsAre' /\ Moved
    BY <2>2 DEF JobsAre, Moved, Stays, Response!At, Response!Idle
  <2> QED
    BY <2>1, <2>3 DEF Moved
<1> QED
  BY <1>4, <1>5, <1>6, <1>7, <1>8, <1>9, <1>10, <1>11, <1>12, <1>13
  DEF Response!Step, Response!TicketStep, Response!ThreatStep, Response!BookStep, Response!CaseStep, Response!RiskStep

\* A step that is none of those named leaves what they write.
LEMMA WrittenBy ==
  ASSUME NEW w \in Worker, Response!Step(w)
  PROVE  /\ UNCHANGED <<tickets, added>> \/ Response!CreateTicket(w) \/ Response!WriteTicket(w) \/ Response!RunAction(w)
         /\ UNCHANGED <<threats, given>> \/ Response!AddThreat(w) \/ Response!RemoveThreat(w) \/ Response!RunAction(w)
         /\ \/ UNCHANGED <<playbooks, runs>>
            \/ Response!CreatePlaybook(w) \/ Response!UpdatePlaybook(w) \/ Response!DeletePlaybook(w) \/ Response!RecordRun(w)
         /\ \/ UNCHANGED <<cases, timeline, evidence, shown>>
            \/ Response!CreateCase(w) \/ Response!UpdateCase(w) \/ Response!AddEvidence(w) \/ Response!AnswerCase(w)
         /\ UNCHANGED <<risk, due>> \/ Response!WriteRisk(w)
<1> USE DEF Response!deskVars, Response!bookVars, Response!caseVars, Response!riskVars
<1>1. CASE Response!TicketStep(w)
  BY <1>1 DEF Response!TicketStep, Response!CreateTicket, Response!UpdateTicket, Response!WriteTicket, Response!Crash
<1>2. CASE Response!ThreatStep(w)
  BY <1>2 DEF Response!ThreatStep, Response!AddThreat, Response!RemoveThreat
<1>3. CASE Response!BookStep(w)
  <2>1. CASE Response!RunAction(w)
    BY <2>1 DEF Response!RunAction
  <2>2. CASE Response!RecordRun(w) \/ Response!Crash(w) \/ Response!RunPlaybook(w)
    BY <2>2 DEF Response!RecordRun, Response!Crash, Response!RunPlaybook
  <2>3. CASE Response!CreatePlaybook(w) \/ Response!UpdatePlaybook(w) \/ Response!DeletePlaybook(w)
    BY <2>3 DEF Response!CreatePlaybook, Response!UpdatePlaybook, Response!DeletePlaybook
  <2> QED
    BY <1>3, <2>1, <2>2, <2>3 DEF Response!BookStep
<1>4. CASE Response!CaseStep(w)
  BY <1>4 DEF Response!CaseStep, Response!CreateCase, Response!UpdateCase, Response!AddEvidence, Response!ReadCase,
              Response!ReadTimeline, Response!AnswerCase, Response!Crash
<1>5. CASE Response!RiskStep(w)
  BY <1>5 DEF Response!RiskStep, Response!AddRiskFactor, Response!DecayRiskScores, Response!WriteRisk, Response!Crash
<1> QED
  BY <1>1, <1>2, <1>3, <1>4, <1>5 DEF Response!Step
\* Tickets: a note that was added is in its ticket, and in what the requests under way will write
\* over it, unless one of them was crossed.
Ticket == [status : TicketStatus \cup {"open"}, by : {"staff", "playbook"}, notes : SUBSET Code]
Updating == [at : {"update"}, id : DOMAIN tickets, status : TicketStatus \cup {None},
             note : Code \cup {None}, notes : SUBSET Code]

TicketInv ==
  /\ tickets \in Seq(Ticket)
  /\ added \subseteq (DOMAIN tickets) \X Code
  /\ Response!NotesAreKept
  /\ \A w \in Worker : Response!At(w, "update") =>
       /\ job[w] \in Updating
       /\ job[w].note # None => \A t \in added : t[1] = job[w].id => t[2] \in job[w].notes \cup crossed

LEMMA TicketsStay ==
  ASSUME TicketInv, crossed \subseteq crossed', added' = added,
         tickets' = tickets \/ \E by \in {"staff", "playbook"} : tickets' = Append(tickets, Response!Opened(by)),
         \A v \in Worker : Response!At(v, "update")' => Stays(v, "update")
  PROVE  TicketInv'
<1>1. /\ tickets' \in Seq(Ticket) /\ DOMAIN tickets \subseteq DOMAIN tickets'
      /\ \A n \in DOMAIN tickets : tickets'[n] = tickets[n]
  <2>1. \A by \in {"staff", "playbook"} : Response!Opened(by) \in Ticket
    BY DEF Response!Opened, Ticket
  <2>2. tickets \in Seq(Ticket)
    BY DEF TicketInv
  <2> QED
    BY <2>1, <2>2
<1>2. Response!NotesAreKept'
  BY <1>1 DEF TicketInv, Response!NotesAreKept
<1>3. added' \subseteq (DOMAIN tickets') \X Code
  BY <1>1 DEF TicketInv
<1>4. ASSUME NEW v \in Worker, Response!At(v, "update")'
      PROVE  /\ job'[v] \in Updating'
             /\ job'[v].note # None => \A t \in added' : t[1] = job'[v].id => t[2] \in job'[v].notes \cup crossed'
  BY <1>1, <1>4 DEF TicketInv, Stays, Updating
<1> QED
  BY <1>1, <1>2, <1>3, <1>4 DEF TicketInv

LEMMA TicketUpdates ==
  ASSUME TicketInv, JobsAre, NEW w \in Worker, Response!UpdateTicket(w),
         \A v \in Worker : Response!At(v, "update")' => Stays(v, "update") \/ v = w
  PROVE  TicketInv'
<1>1. PICK id \in DOMAIN tickets, status \in TicketStatus \cup {None}, note \in Response!Fresh \cup {None} :
        Response!Become(w, [at |-> "update", id |-> id, status |-> status, note |-> note, notes |-> tickets[id].notes])
  BY DEF Response!UpdateTicket
<1>2. UNCHANGED <<tickets, added, crossed>>
  BY DEF Response!UpdateTicket, Response!deskVars
<1>3. note \in Code \cup {None} /\ tickets[id] \in Ticket
  BY DEF Response!Fresh, TicketInv
<1>4. job'[w] = [at |-> "update", id |-> id, status |-> status, note |-> note, notes |-> tickets[id].notes]
  BY <1>1 DEF JobsAre, Response!Become
<1>5. job'[w] \in Updating' /\ job'[w].id = id /\ job'[w].notes = tickets[id].notes
  BY <1>2, <1>3, <1>4 DEF Updating, Ticket
<1>6. \A t \in added : t[1] = job'[w].id => t[2] \in job'[w].notes \cup crossed
  BY <1>5 DEF TicketInv, Response!NotesAreKept
<1>7. Response!NotesAreKept'
  BY <1>2 DEF TicketInv, Response!NotesAreKept
<1>8. ASSUME NEW v \in Worker, Response!At(v, "update")'
      PROVE  /\ job'[v] \in Updating'
             /\ job'[v].note # None => \A t \in added' : t[1] = job'[v].id => t[2] \in job'[v].notes \cup crossed'
  <2>1. CASE v = w
    BY <1>2, <1>5, <1>6, <2>1
  <2>2. CASE Stays(v, "update")
    BY <1>2, <2>2 DEF TicketInv, Stays, Updating
  <2> QED
    BY <1>8, <2>1, <2>2
<1> QED
  BY <1>2, <1>7, <1>8 DEF TicketInv

LEMMA TicketWrites ==
  ASSUME TicketInv, JobsAre, NEW w \in Worker, Response!WriteTicket(w), crossed \subseteq crossed',
         \A v \in Worker : Response!At(v, "update")' => Stays(v, "update")
  PROVE  TicketInv'
<1> DEFINE j == job[w]
           t == tickets[j.id]
           notes == IF j.note = None THEN t.notes ELSE j.notes \cup {j.note}
           status == IF j.status = None THEN t.status ELSE j.status
           s == [status |-> status, by |-> t.by, notes |-> notes]
<1>1. j \in Updating /\ j.id \in DOMAIN tickets /\ t \in Ticket
  BY DEF Response!WriteTicket, TicketInv, Updating
<1>2. tickets' = [tickets EXCEPT ![j.id] = s]
  BY <1>1 DEF Response!WriteTicket, Response!Noted
<1>3. s \in Ticket /\ s.notes = notes
  BY <1>1 DEF Ticket, Updating
<1> HIDE DEF s
<1>4. /\ tickets' \in Seq(Ticket) /\ DOMAIN tickets' = DOMAIN tickets /\ tickets'[j.id] = s
      /\ \A n \in DOMAIN tickets : n # j.id => tickets'[n] = tickets[n]
  BY <1>1, <1>2, <1>3 DEF TicketInv
<1>5. added' = added \cup (IF j.note = None THEN {} ELSE {<<j.id, j.note>>})
  BY DEF Response!WriteTicket
<1>6. added' \subseteq (DOMAIN tickets') \X Code
  BY <1>1, <1>4, <1>5 DEF TicketInv, Updating
<1>7. \A e \in added : e[1] = j.id => e[2] \in notes \cup crossed
  <2>1. CASE j.note = None
    BY <2>1 DEF TicketInv, Response!NotesAreKept
  <2>2. CASE j.note # None
    BY <2>2 DEF Response!WriteTicket, TicketInv
  <2> QED
    BY <2>1, <2>2
<1>8. Response!NotesAreKept'
  <2> SUFFICES ASSUME NEW e \in added' PROVE e[2] \in tickets'[e[1]].notes \cup crossed'
    BY DEF Response!NotesAreKept
  <2>1. CASE e \in added /\ e[1] = j.id
    BY <1>3, <1>4, <1>7, <2>1
  <2>2. CASE e \in added /\ e[1] # j.id
    BY <1>4, <2>2 DEF TicketInv, Response!NotesAreKept
  <2>3. CASE e \notin added
    BY <1>1, <1>3, <1>4, <1>5, <2>3
  <2> QED
    BY <2>1, <2>2, <2>3
<1>9. ASSUME NEW v \in Worker, Response!At(v, "update")', job'[v].note # None, NEW e \in added', e[1] = job'[v].id
      PROVE  e[2] \in job'[v].notes \cup crossed'
  <2>1. Response!At(v, "update") /\ job'[v] = job[v]
    BY <1>9 DEF Stays
  <2>2. CASE e \in added
    BY <1>9, <2>1, <2>2 DEF TicketInv
  <2>3. CASE e \notin added
    <3>1. j.note # None /\ e = <<j.id, j.note>>
      BY <1>5, <1>9, <2>3
    <3>2. v # w
      BY <1>9 DEF Response!WriteTicket, Response!End, Response!Become, Response!At, Response!Idle, JobsAre
    <3>3. v \in Response!Others(w, "update") /\ job[v].id = j.id /\ job[v].note # None
      BY <1>9, <2>1, <3>1, <3>2 DEF Response!Others
    <3>4. j.note \in crossed'
      BY <3>3 DEF Response!WriteTicket
    <3> QED
      BY <3>1, <3>4
  <2> QED
    BY <2>2, <2>3
<1>10. ASSUME NEW v \in Worker, Response!At(v, "update")' PROVE job'[v] \in Updating'
  BY <1>4, <1>10 DEF TicketInv, Stays, Updating
<1> QED
  BY <1>4, <1>6, <1>8, <1>9, <1>10 DEF TicketInv

LEMMA TicketStepKeeps ==
  ASSUME TicketInv, JobsAre, NEW w \in Worker, Response!Step(w)
  PROVE  TicketInv'
<1>1. crossed \subseteq crossed' /\ \A v \in Worker : Response!At(v, "update")' => Stays(v, "update") \/ (v = w /\ Response!UpdateTicket(w))
  BY JobMoves DEF Places, Brings
<1>2. CASE Response!UpdateTicket(w)
  BY <1>1, <1>2, TicketUpdates
<1>3. CASE Response!WriteTicket(w)
  <2>1. ~Response!UpdateTicket(w)
    BY <1>3 DEF Response!WriteTicket, Response!UpdateTicket, Response!At
  <2> QED
    BY <1>1, <1>3, <2>1, TicketWrites
<1>4. CASE Response!CreateTicket(w) \/ Response!RunAction(w)
  <2>1. \A v \in Worker : Response!At(v, "update")' => Stays(v, "update")
    <3>1. CASE Response!RunAction(w)
      <4>1. ~Response!UpdateTicket(w)
        BY <3>1 DEF Response!RunAction, Response!UpdateTicket, Response!At
      <4> QED
        BY <1>1, <4>1
    <3>2. CASE Response!CreateTicket(w)
      BY <3>2 DEF Response!CreateTicket, Stays, Response!At, Response!Idle
    <3> QED
      BY <1>4, <3>1, <3>2
  <2>2. added' = added /\ (tickets' = tickets \/ \E by \in {"staff", "playbook"} : tickets' = Append(tickets, Response!Opened(by)))
    BY <1>4 DEF Response!CreateTicket, Response!RunAction
  <2> QED
    BY <1>1, <2>1, <2>2, TicketsStay
<1>5. CASE UNCHANGED <<tickets, added>> /\ ~Response!UpdateTicket(w)
  BY <1>1, <1>5, TicketsStay
<1> QED
  BY <1>2, <1>3, <1>4, <1>5, WrittenBy

\* Indicators: a row's id was given to its indicator.
ThreatInv ==
  /\ given \in Seq(File)
  /\ threats \in [File -> DOMAIN given \cup {None}]
  /\ Response!IdsNameOneIndicator

LEMMA ThreatStepKeeps ==
  ASSUME ThreatInv, NEW w \in Worker, Response!Step(w)
  PROVE  ThreatInv'
<1> USE DEF ThreatInv, Response!IdsNameOneIndicator
<1>1. ASSUME NEW i \in File, Response!AddThreatIndicator(i) PROVE ThreatInv'
  <2>1. CASE UNCHANGED <<threats, given>>
    BY <2>1
  <2>2. CASE threats' = [threats EXCEPT ![i] = Len(given) + 1] /\ given' = Append(given, i)
    <3>1. /\ given' \in Seq(File) /\ DOMAIN given' = DOMAIN given \cup {Len(given) + 1}
          /\ given'[Len(given) + 1] = i /\ \A n \in DOMAIN given : given'[n] = given[n]
      BY <2>2
    <3>2. threats' \in [File -> DOMAIN given' \cup {None}]
      BY <2>2, <3>1
    <3>3. \A k \in File : threats'[k] # None => given'[threats'[k]] = k
      BY <2>2, <3>1
    <3> QED
      BY <3>1, <3>2, <3>3
  <2> QED
    BY <1>1, <2>1, <2>2 DEF Response!AddThreatIndicator, Response!NewThreatId
<1>2. ASSUME NEW id, threats' = Response!WithoutThreat(id), given' = given PROVE ThreatInv'
  BY <1>2 DEF Response!WithoutThreat
<1>3. CASE UNCHANGED <<threats, given>>
  BY <1>3
<1>4. CASE Response!AddThreat(w)
  BY <1>1, <1>4 DEF Response!AddThreat
<1>5. CASE Response!RemoveThreat(w)
  BY <1>2, <1>5 DEF Response!RemoveThreat
<1>6. CASE Response!RunAction(w)
  <2>1. UNCHANGED <<threats, given>> \/ \E i \in File : Response!AddThreatIndicator(i)
    BY <1>6 DEF Response!RunAction
  <2> QED
    BY <1>1, <1>3, <2>1
<1> QED
  BY <1>3, <1>4, <1>5, <1>6, WrittenBy
\* Playbooks: the count of each is that of its rows, and whoever is at a playbook that is gone was
\* there when it went.
RunsAreCounted ==
  /\ playbooks \in Seq(Response!Book \cup {None})
  /\ runs \in Seq(Response!Row \cup {None})
  /\ \A n \in DOMAIN runs : runs[n] # None =>
       /\ runs[n].book \in DOMAIN playbooks
       /\ playbooks[runs[n].book] = None => <<"book", runs[n].book>> \in crossed
  /\ \A w \in Worker : Response!At(w, "run") =>
       /\ job[w] \in Response!Running /\ job[w].book \in DOMAIN playbooks
       /\ playbooks[job[w].book] = None => <<"book", job[w].book>> \in crossed
  /\ \A b \in DOMAIN playbooks : playbooks[b] # None =>
       playbooks[b].runs = Cardinality(Response!RunsOf(b))

LEMMA RunsOfIsFinite ==
  ASSUME RunsAreCounted, NEW b
  PROVE  IsFiniteSet(Response!RunsOf(b)) /\ Response!RunsOf(b) \subseteq DOMAIN runs
<1>1. DOMAIN runs = 1 .. Len(runs) /\ Len(runs) \in Nat
  BY DEF RunsAreCounted
<1>2. IsFiniteSet(1 .. Len(runs))
  BY <1>1, FS_Interval
<1>3. Response!RunsOf(b) \subseteq 1 .. Len(runs)
  BY <1>1 DEF Response!RunsOf
<1> QED
  BY <1>1, <1>2, <1>3, FS_Subset

\* Jobs that stay, or the one that goes on with the same playbook.
LEMMA RunsGo ==
  ASSUME RunsAreCounted, UNCHANGED <<playbooks, runs>>, crossed \subseteq crossed',
         \A v \in Worker : Response!At(v, "run")' =>
            \/ Stays(v, "run")
            \/ /\ job'[v] \in Response!Running /\ job'[v].book \in DOMAIN playbooks
               /\ playbooks[job'[v].book] = None => <<"book", job'[v].book>> \in crossed
  PROVE  RunsAreCounted'
<1>1. \A b : Response!RunsOf(b)' = Response!RunsOf(b)
  BY DEF Response!RunsOf
<1>2. \A w \in Worker : Response!At(w, "run")' =>
       /\ job'[w] \in Response!Running /\ job'[w].book \in DOMAIN playbooks
       /\ playbooks[job'[w].book] = None => <<"book", job'[w].book>> \in crossed'
  BY DEF RunsAreCounted, Stays
<1> QED
  BY <1>1, <1>2 DEF RunsAreCounted

LEMMA RunBegins ==
  ASSUME RunsAreCounted, JobsAre, NEW w \in Worker, Response!RunPlaybook(w),
         \A v \in Worker : Response!At(v, "run")' => Stays(v, "run") \/ v = w
  PROVE  RunsAreCounted'
<1>1. PICK b \in Response!Books : Response!Become(w, Response!Begun(b))
  BY DEF Response!RunPlaybook
<1>2. UNCHANGED <<playbooks, runs, crossed>>
  BY DEF Response!RunPlaybook, Response!bookVars
<1>3. b \in DOMAIN playbooks /\ playbooks[b] # None /\ playbooks[b] \in Response!Book /\ b \in Nat
  BY DEF Response!Books, RunsAreCounted
<1>4. job'[w] = [at |-> "run", book |-> b, todo |-> playbooks[b].plan, results |-> <<>>]
  BY <1>1 DEF JobsAre, Response!Become, Response!Begun
<1>5. playbooks[b].plan \in Seq(STRING)
  BY <1>3, PartsAssumption DEF Response!Book, Response!ConstantsAssumption
<1>6. job'[w] \in Response!Running /\ job'[w].book = b
  <2>1. <<>> \in Seq(Nat)
    OBVIOUS
  <2> QED
    BY <1>3, <1>4, <1>5, <2>1 DEF Response!Running
<1> QED
  BY <1>2, <1>3, <1>6, RunsGo

LEMMA RunActs ==
  ASSUME RunsAreCounted, JobsAre, tickets \in Seq(Ticket), NEW w \in Worker, Response!RunAction(w),
         \A v \in Worker : Response!At(v, "run")' => Stays(v, "run") \/ v = w
  PROVE  RunsAreCounted'
<1>1. UNCHANGED <<playbooks, runs>> /\ crossed \subseteq crossed'
  BY DEF Response!RunAction, Response!bookVars
<1>2. Response!At(w, "run") /\ job[w] \in Response!Running /\ job[w].todo # <<>>
  BY DEF Response!RunAction, RunsAreCounted
<1>3. \/ Response!End(w)
      \/ \E n \in Nat : Response!Become(w, [at |-> "run", book |-> job[w].book, todo |-> Tail(job[w].todo),
                                            results |-> Append(job[w].results, n)])
  <2>1. Len(tickets) \in Nat /\ \A x : Len(Append(tickets, x)) \in Nat
    OBVIOUS
  <2> QED
    BY <2>1 DEF Response!RunAction
<1>4. CASE Response!End(w)
  <2>1. ~Response!At(w, "run")'
    BY <1>4 DEF Response!End, Response!Become, Response!At, Response!Idle, JobsAre
  <2> QED
    BY <1>1, <2>1, RunsGo
<1>5. ASSUME NEW n \in Nat,
             Response!Become(w, [at |-> "run", book |-> job[w].book, todo |-> Tail(job[w].todo),
                                 results |-> Append(job[w].results, n)])
      PROVE  RunsAreCounted'
  <2>1. job'[w] = [at |-> "run", book |-> job[w].book, todo |-> Tail(job[w].todo), results |-> Append(job[w].results, n)]
    BY <1>5 DEF JobsAre, Response!Become
  <2>a. job[w].todo \in Seq(STRING) /\ job[w].todo # <<>> /\ job[w].results \in Seq(Nat) /\ job[w].book \in Nat
    BY <1>2 DEF Response!Running
  <2>b. \A t \in Seq(STRING) : t # <<>> => Tail(t) \in Seq(STRING)
    OBVIOUS
  <2>c. \A r \in Seq(Nat) : Append(r, n) \in Seq(Nat)
    OBVIOUS
  <2>2. Tail(job[w].todo) \in Seq(STRING) /\ Append(job[w].results, n) \in Seq(Nat) /\ job[w].book \in Nat
    BY <2>a, <2>b, <2>c
  <2>3. job'[w] \in Response!Running /\ job'[w].book = job[w].book
    BY <2>1, <2>2 DEF Response!Running
  <2>4. /\ job'[w].book \in DOMAIN playbooks
        /\ playbooks[job'[w].book] = None => <<"book", job'[w].book>> \in crossed
    BY <1>2, <2>3 DEF RunsAreCounted
  <2> QED
    BY <1>1, <2>3, <2>4, RunsGo
<1> QED
  BY <1>3, <1>4, <1>5

LEMMA BookCreated ==
  ASSUME RunsAreCounted, NEW w \in Worker, Response!CreatePlaybook(w)
  PROVE  RunsAreCounted'
<1>1. PICK plan \in Playbook : playbooks' = Append(playbooks, Response!NewBook(plan))
  BY DEF Response!CreatePlaybook
<1>2. UNCHANGED <<runs, job, crossed>>
  BY DEF Response!CreatePlaybook
<1>3. Response!NewBook(plan) \in Response!Book /\ Response!NewBook(plan).runs = 0
  BY DEF Response!NewBook, Response!Book
<1> DEFINE n == Len(playbooks) + 1
<1>4. /\ playbooks' \in Seq(Response!Book \cup {None}) /\ DOMAIN playbooks' = DOMAIN playbooks \cup {n}
      /\ playbooks'[n] = Response!NewBook(plan) /\ n \notin DOMAIN playbooks
      /\ \A b \in DOMAIN playbooks : playbooks'[b] = playbooks[b]
  BY <1>1, <1>3 DEF RunsAreCounted
<1> HIDE DEF n
<1>5. \A b : Response!RunsOf(b)' = Response!RunsOf(b)
  BY <1>2 DEF Response!RunsOf
<1>6. Response!RunsOf(n) = {}
  BY <1>4 DEF Response!RunsOf, RunsAreCounted
<1>7. Cardinality(Response!RunsOf(n)) = 0
  BY <1>6, FS_EmptySet
<1>8. \A b \in DOMAIN playbooks' : playbooks'[b] # None => playbooks'[b].runs = Cardinality(Response!RunsOf(b)')
  BY <1>3, <1>4, <1>5, <1>7 DEF RunsAreCounted
<1>9. \A k \in DOMAIN runs' : runs'[k] # None =>
       /\ runs'[k].book \in DOMAIN playbooks'
       /\ playbooks'[runs'[k].book] = None => <<"book", runs'[k].book>> \in crossed'
  BY <1>2, <1>4 DEF RunsAreCounted
<1>10. \A v \in Worker : Response!At(v, "run")' =>
       /\ job'[v] \in Response!Running /\ job'[v].book \in DOMAIN playbooks'
       /\ playbooks'[job'[v].book] = None => <<"book", job'[v].book>> \in crossed'
  BY <1>2, <1>4 DEF RunsAreCounted, Response!At, Response!Idle
<1> QED
  BY <1>2, <1>4, <1>8, <1>9, <1>10 DEF RunsAreCounted

LEMMA BookUpdated ==
  ASSUME RunsAreCounted, NEW w \in Worker, Response!UpdatePlaybook(w)
  PROVE  RunsAreCounted'
<1>1. PICK b \in Response!Books : \E e \in Response!Edits(playbooks[b]) : playbooks' = [playbooks EXCEPT ![b] = e]
  BY DEF Response!UpdatePlaybook
<1>2. PICK e \in Response!Edits(playbooks[b]) : playbooks' = [playbooks EXCEPT ![b] = e]
  BY <1>1
<1>3. UNCHANGED <<runs, job, crossed>>
  BY DEF Response!UpdatePlaybook
<1>4. b \in DOMAIN playbooks /\ playbooks[b] # None /\ playbooks[b] \in Response!Book
  BY DEF Response!Books, RunsAreCounted
<1>5. e \in Response!Book /\ e.runs = playbooks[b].runs
  BY <1>4 DEF Response!Edits, Response!Book
<1>6. e # None
  BY <1>5, PartsAssumption DEF Response!ConstantsAssumption
<1>7. /\ playbooks' \in Seq(Response!Book \cup {None}) /\ DOMAIN playbooks' = DOMAIN playbooks
      /\ playbooks'[b] = e /\ \A c \in DOMAIN playbooks : c # b => playbooks'[c] = playbooks[c]
  BY <1>2, <1>4, <1>5 DEF RunsAreCounted
<1>8. \A c : Response!RunsOf(c)' = Response!RunsOf(c)
  BY <1>3 DEF Response!RunsOf
<1>9. \A c \in DOMAIN playbooks' : playbooks'[c] # None => playbooks'[c].runs = Cardinality(Response!RunsOf(c)')
  BY <1>4, <1>5, <1>7, <1>8 DEF RunsAreCounted
<1>10. \A k \in DOMAIN runs' : runs'[k] # None =>
       /\ runs'[k].book \in DOMAIN playbooks'
       /\ playbooks'[runs'[k].book] = None => <<"book", runs'[k].book>> \in crossed'
  BY <1>3, <1>4, <1>6, <1>7 DEF RunsAreCounted
<1>11. \A v \in Worker : Response!At(v, "run")' =>
       /\ job'[v] \in Response!Running /\ job'[v].book \in DOMAIN playbooks'
       /\ playbooks'[job'[v].book] = None => <<"book", job'[v].book>> \in crossed'
  BY <1>3, <1>4, <1>6, <1>7 DEF RunsAreCounted, Response!At, Response!Idle
<1> QED
  BY <1>3, <1>7, <1>9, <1>10, <1>11 DEF RunsAreCounted

LEMMA BookDeleted ==
  ASSUME RunsAreCounted, NEW w \in Worker, Response!DeletePlaybook(w)
  PROVE  RunsAreCounted'
<1>1. PICK b \in Response!Books :
        /\ playbooks' = [playbooks EXCEPT ![b] = None]
        /\ runs' = Response!WithoutRunsOf(b)
        /\ {<<"book", job[v].book>> : v \in {v \in Response!Others(w, "run") : job[v].book = b}} \subseteq crossed'
        /\ crossed \subseteq crossed'
  BY DEF Response!DeletePlaybook
<1>2. job' = job /\ Response!Idle(w)
  BY DEF Response!DeletePlaybook
<1>3. b \in DOMAIN playbooks
  BY DEF Response!Books
<1>4. /\ playbooks' \in Seq(Response!Book \cup {None}) /\ DOMAIN playbooks' = DOMAIN playbooks
      /\ playbooks'[b] = None /\ \A c \in DOMAIN playbooks : c # b => playbooks'[c] = playbooks[c]
  BY <1>1, <1>3 DEF RunsAreCounted
<1>5. /\ runs' \in Seq(Response!Row \cup {None}) /\ DOMAIN runs' = DOMAIN runs
      /\ \A k \in DOMAIN runs : runs'[k] # None => runs'[k] = runs[k] /\ runs[k].book # b
      /\ \A k \in DOMAIN runs : runs[k] # None /\ runs[k].book # b => runs'[k] = runs[k]
  <2>1. runs' = [k \in 1 .. Len(runs) |-> IF k \in Response!RunsOf(b) THEN None ELSE runs[k]]
    BY <1>1 DEF Response!WithoutRunsOf, RunsAreCounted
  <2>2. runs' \in Seq(Response!Row \cup {None}) /\ DOMAIN runs' = DOMAIN runs
    BY <2>1 DEF RunsAreCounted
  <2> QED
    BY <2>1, <2>2 DEF RunsAreCounted, Response!RunsOf
<1>6. \A c : c # b => Response!RunsOf(c)' = Response!RunsOf(c)
  BY <1>5 DEF Response!RunsOf
<1>7. \A c \in DOMAIN playbooks' : playbooks'[c] # None => playbooks'[c].runs = Cardinality(Response!RunsOf(c)')
  BY <1>4, <1>6 DEF RunsAreCounted
<1>8. \A k \in DOMAIN runs' : runs'[k] # None =>
       /\ runs'[k].book \in DOMAIN playbooks'
       /\ playbooks'[runs'[k].book] = None => <<"book", runs'[k].book>> \in crossed'
  BY <1>1, <1>4, <1>5 DEF RunsAreCounted
<1>9. ASSUME NEW v \in Worker, Response!At(v, "run")'
      PROVE  /\ job'[v] \in Response!Running /\ job'[v].book \in DOMAIN playbooks'
             /\ playbooks'[job'[v].book] = None => <<"book", job'[v].book>> \in crossed'
  <2>1. Response!At(v, "run") /\ v # w
    BY <1>2, <1>9 DEF Response!At, Response!Idle
  <2>2. job[v].book = b => <<"book", job[v].book>> \in crossed'
    BY <1>1, <2>1 DEF Response!Others
  <2> QED
    BY <1>1, <1>2, <1>4, <2>1, <2>2 DEF RunsAreCounted
<1> QED
  BY <1>4, <1>5, <1>7, <1>8, <1>9 DEF RunsAreCounted

\* What a run records: its row, and one more of its playbook, if that is still there.
LEMMA RowAdded ==
  ASSUME RunsAreCounted, NEW b \in DOMAIN playbooks, NEW r \in Response!Row, r.book = b,
         runs' = Append(runs, r), playbooks' = Response!Counted(b)
  PROVE  /\ playbooks' \in Seq(Response!Book \cup {None}) /\ DOMAIN playbooks' = DOMAIN playbooks
         /\ runs' \in Seq(Response!Row \cup {None})
         /\ \A k \in DOMAIN runs' : runs'[k] = r \/ (k \in DOMAIN runs /\ runs'[k] = runs[k])
         /\ \A c \in DOMAIN playbooks : playbooks'[c] = None => playbooks[c] = None
         /\ \A c \in DOMAIN playbooks' : playbooks'[c] # None => playbooks'[c].runs = Cardinality(Response!RunsOf(c)')
<1> DEFINE n == Len(runs) + 1
<1>4. r # None
  BY PartsAssumption DEF Response!ConstantsAssumption
<1>5. /\ runs' \in Seq(Response!Row \cup {None}) /\ DOMAIN runs' = DOMAIN runs \cup {n}
      /\ runs'[n] = r /\ n \notin DOMAIN runs /\ \A k \in DOMAIN runs : runs'[k] = runs[k]
  BY DEF RunsAreCounted
<1> HIDE DEF n
<1>6. \A c : Response!RunsOf(c)' = IF c = b THEN Response!RunsOf(c) \cup {n} ELSE Response!RunsOf(c)
  BY <1>4, <1>5 DEF Response!RunsOf
<1>7. Cardinality(Response!RunsOf(b) \cup {n}) = Cardinality(Response!RunsOf(b)) + 1
  <2>1. n \notin Response!RunsOf(b)
    BY <1>5 DEF Response!RunsOf
  <2> QED
    BY <2>1, RunsOfIsFinite, FS_AddElement
<1>8. /\ playbooks' \in Seq(Response!Book \cup {None}) /\ DOMAIN playbooks' = DOMAIN playbooks
      /\ \A c \in DOMAIN playbooks : c # b \/ playbooks[c] = None => playbooks'[c] = playbooks[c]
      /\ playbooks[b] # None => playbooks'[b] # None /\ playbooks'[b].runs = playbooks[b].runs + 1
  <2>1. CASE playbooks[b] = None
    BY <2>1 DEF Response!Counted, RunsAreCounted
  <2>2. CASE playbooks[b] # None
    <3> DEFINE e == [playbooks[b] EXCEPT !.runs = @ + 1]
    <3>1. playbooks[b] \in Response!Book
      BY <2>2 DEF RunsAreCounted
    <3>2. e \in Response!Book /\ e.runs = playbooks[b].runs + 1
      BY <3>1 DEF Response!Book
    <3>3. e # None
      BY <3>2, PartsAssumption DEF Response!ConstantsAssumption
    <3>4. playbooks' = [playbooks EXCEPT ![b] = e]
      BY <2>2 DEF Response!Counted
    <3> HIDE DEF e
    <3> QED
      BY <2>2, <3>2, <3>3, <3>4 DEF RunsAreCounted
  <2> QED
    BY <2>1, <2>2
<1>9. ASSUME NEW c \in DOMAIN playbooks', playbooks'[c] # None
      PROVE  playbooks'[c].runs = Cardinality(Response!RunsOf(c)')
  <2>1. CASE c = b
    <3>1. playbooks[b] # None
      BY <1>8, <1>9, <2>1
    <3>2. playbooks[b].runs = Cardinality(Response!RunsOf(b))
      BY <3>1 DEF RunsAreCounted
    <3>3. Response!RunsOf(c)' = Response!RunsOf(b) \cup {n}
      BY <1>6, <2>1
    <3> QED
      BY <1>7, <1>8, <2>1, <3>1, <3>2, <3>3
  <2>2. CASE c # b
    <3>1. playbooks'[c] = playbooks[c] /\ c \in DOMAIN playbooks /\ Response!RunsOf(c)' = Response!RunsOf(c)
      BY <1>6, <1>8, <1>9, <2>2
    <3> QED
      BY <1>9, <3>1 DEF RunsAreCounted
  <2> QED
    BY <2>1, <2>2
<1>10. \A c \in DOMAIN playbooks : playbooks'[c] = None => playbooks[c] = None
  BY <1>8
<1>11. \A k \in DOMAIN runs' : runs'[k] = r \/ (k \in DOMAIN runs /\ runs'[k] = runs[k])
  BY <1>5
<1> QED
  BY <1>5, <1>8, <1>9, <1>10, <1>11

LEMMA RunRecorded ==
  ASSUME RunsAreCounted, JobsAre, NEW w \in Worker, Response!RecordRun(w),
         \A v \in Worker : Response!At(v, "run")' => Stays(v, "run")
  PROVE  RunsAreCounted'
<1>1. PICK b, r : b = job[w].book /\ r = [book |-> b, results |-> job[w].results]
  OBVIOUS
<1>2. Response!At(w, "run") /\ runs' = Append(runs, r) /\ playbooks' = Response!Counted(b) /\ crossed' = crossed
  BY <1>1 DEF Response!RecordRun
<1>3. /\ b \in DOMAIN playbooks /\ b \in Nat /\ job[w].results \in Seq(Nat)
      /\ playbooks[b] = None => <<"book", b>> \in crossed
  BY <1>1, <1>2 DEF RunsAreCounted, Response!Running
<1>4. r \in Response!Row /\ r.book = b
  BY <1>1, <1>3 DEF Response!Row
<1>5. /\ playbooks' \in Seq(Response!Book \cup {None}) /\ DOMAIN playbooks' = DOMAIN playbooks
      /\ runs' \in Seq(Response!Row \cup {None})
      /\ \A k \in DOMAIN runs' : runs'[k] = r \/ (k \in DOMAIN runs /\ runs'[k] = runs[k])
      /\ \A c \in DOMAIN playbooks : playbooks'[c] = None => playbooks[c] = None
      /\ \A c \in DOMAIN playbooks' : playbooks'[c] # None => playbooks'[c].runs = Cardinality(Response!RunsOf(c)')
  BY <1>2, <1>3, <1>4, RowAdded
<1>6. ASSUME NEW k \in DOMAIN runs', runs'[k] # None
      PROVE  /\ runs'[k].book \in DOMAIN playbooks'
             /\ playbooks'[runs'[k].book] = None => <<"book", runs'[k].book>> \in crossed'
  <2>1. CASE runs'[k] = r
    BY <1>2, <1>3, <1>4, <1>5, <2>1
  <2>2. CASE k \in DOMAIN runs /\ runs'[k] = runs[k]
    BY <1>2, <1>5, <1>6, <2>2 DEF RunsAreCounted
  <2> QED
    BY <1>5, <2>1, <2>2
<1>7. \A v \in Worker : Response!At(v, "run")' =>
       /\ job'[v] \in Response!Running /\ job'[v].book \in DOMAIN playbooks'
       /\ playbooks'[job'[v].book] = None => <<"book", job'[v].book>> \in crossed'
  BY <1>2, <1>5 DEF RunsAreCounted, Stays
<1> QED
  BY <1>5, <1>6, <1>7 DEF RunsAreCounted

\* The steps that leave the playbooks and their rows.
LEMMA BookStepKeeps ==
  ASSUME RunsAreCounted, JobsAre, tickets \in Seq(Ticket), NEW w \in Worker, Response!Step(w)
  PROVE  RunsAreCounted'
<1>1. crossed \subseteq crossed'
      /\ \A v \in Worker : Response!At(v, "run")' =>
            Stays(v, "run") \/ (v = w /\ (Response!RunPlaybook(w) \/ Response!RunAction(w)))
  BY JobMoves DEF Places, Brings
<1>2. CASE Response!RunPlaybook(w)
  BY <1>1, <1>2, RunBegins
<1>3. CASE Response!RunAction(w)
  BY <1>1, <1>3, RunActs
<1>4. CASE Response!CreatePlaybook(w) \/ Response!UpdatePlaybook(w) \/ Response!DeletePlaybook(w)
  BY <1>4, BookCreated, BookUpdated, BookDeleted
<1>5. CASE Response!RecordRun(w)
  <2>1. ~Response!RunPlaybook(w) /\ ~Response!RunAction(w)
    BY <1>5 DEF Response!RecordRun, Response!RunPlaybook, Response!RunAction, Response!At
  <2> QED
    BY <1>1, <1>5, <2>1, RunRecorded
<1>6. CASE UNCHANGED <<playbooks, runs>> /\ ~Response!RunPlaybook(w) /\ ~Response!RunAction(w)
  BY <1>1, <1>6, RunsGo
<1> QED
  BY <1>2, <1>3, <1>4, <1>5, <1>6, WrittenBy
\* A run that is on goes on, unless its own step ends it or its process dies.
LEMMA RunGoesOn ==
  ASSUME JobsAre, NEW w \in Worker, Response!Step(w), NEW v \in Worker, Response!At(v, "run")
  PROVE  \/ Response!At(v, "run")' /\ job'[v] = job[v]
         \/ v = w /\ (Response!RunAction(w) \/ Response!RecordRun(w))
         \/ Response!Crash(w)
<1> DEFINE Goes == Response!At(v, "run")' /\ job'[v] = job[v]
<1>1. ASSUME job' = job PROVE Goes
  BY <1>1 DEF Response!At, Response!Idle
<1>2. ASSUME NEW r, Response!Become(w, r), v # w PROVE Goes
  BY <1>2 DEF Response!At, Response!Idle, Response!Become, JobsAre
<1> HIDE DEF Goes
<1>3. CASE \/ Response!CreateTicket(w) \/ Response!AddThreat(w) \/ Response!RemoveThreat(w) \/ Response!CreatePlaybook(w)
           \/ Response!UpdatePlaybook(w) \/ Response!DeletePlaybook(w) \/ Response!CreateCase(w)
           \/ Response!UpdateCase(w) \/ Response!AddEvidence(w)
  <2>1. job' = job
    BY <1>3 DEF Response!CreateTicket, Response!AddThreat, Response!RemoveThreat, Response!CreatePlaybook,
                Response!UpdatePlaybook, Response!DeletePlaybook, Response!CreateCase, Response!UpdateCase,
                Response!AddEvidence
  <2> QED
    BY <1>1, <2>1 DEF Goes
<1>4. CASE \/ Response!UpdateTicket(w) \/ Response!RunPlaybook(w) \/ Response!ReadCase(w)
           \/ Response!AddRiskFactor(w) \/ Response!DecayRiskScores(w)
  <2>1. Response!Idle(w) /\ \E r : Response!Become(w, r)
    BY <1>4 DEF Response!UpdateTicket, Response!RunPlaybook, Response!ReadCase, Response!AddRiskFactor,
                Response!DecayRiskScores
  <2>2. v # w
    BY <2>1 DEF Response!At
  <2> QED
    BY <1>2, <2>1, <2>2 DEF Goes
<1>5. CASE Response!WriteTicket(w) \/ Response!ReadTimeline(w) \/ Response!AnswerCase(w) \/ Response!WriteRisk(w)
  <2>1. ~Response!At(w, "run") /\ \E r : Response!Become(w, r)
    BY <1>5 DEF Response!WriteTicket, Response!ReadTimeline, Response!AnswerCase, Response!WriteRisk, Response!At,
                Response!End
  <2>2. v # w
    BY <2>1
  <2> QED
    BY <1>2, <2>1, <2>2 DEF Goes
<1>6. CASE Response!RunAction(w) \/ Response!RecordRun(w)
  <2>1. \E r : Response!Become(w, r)
    BY <1>6 DEF Response!RunAction, Response!RecordRun, Response!End
  <2> QED
    BY <1>2, <1>6, <2>1 DEF Goes
<1> QED
  BY <1>3, <1>4, <1>5, <1>6
  DEF Response!Step, Response!TicketStep, Response!ThreatStep, Response!BookStep, Response!CaseStep, Response!RiskStep

\* The tickets that one row or one run names.
Named(r) == {<<"ticket", n>> : n \in Response!Range(r.results)}

LEMMA ResultsAre ==
  /\ \A S, x : x \in Response!Results(S) <=> \E r \in S : x \in Response!Results({r})
  /\ \A r : Response!Results({r}) = Named(r)
<1>1. \A S, x : x \in Response!Results(S) <=> \E r \in S : x \in Named(r)
  BY DEF Response!Results, Named
<1>2. ASSUME NEW r PROVE Response!Results({r}) = Named(r)
  BY <1>1
<1>3. ASSUME NEW S, NEW x PROVE x \in Response!Results(S) <=> \E r \in S : x \in Response!Results({r})
  <2>1. ASSUME x \in Response!Results(S) PROVE \E r \in S : x \in Response!Results({r})
    <3>1. PICK r \in S : x \in Named(r)
      BY <1>1, <2>1
    <3> QED
      BY <1>2, <3>1
  <2>2. ASSUME NEW r \in S, x \in Response!Results({r}) PROVE x \in Response!Results(S)
    BY <1>1, <1>2, <2>2
  <2> QED
    BY <2>1, <2>2
<1> QED
  BY <1>2, <1>3

LEMMA InResults ==
  ASSUME NEW S, NEW r \in S, NEW x \in Response!Results({r})
  PROVE  x \in Response!Results(S)
BY ResultsAre, Zenon

LEMMA ResultsGrow ==
  ASSUME NEW r, NEW s, r.results \in Seq(Nat), NEW n \in Nat, s.results = Append(r.results, n)
  PROVE  Named(r) \subseteq Named(s) /\ <<"ticket", n>> \in Named(s)
<1>1. /\ DOMAIN s.results = DOMAIN r.results \cup {Len(r.results) + 1} /\ s.results[Len(r.results) + 1] = n
      /\ \A k \in DOMAIN r.results : s.results[k] = r.results[k]
  OBVIOUS
<1>2. Response!Range(r.results) \subseteq Response!Range(s.results) /\ n \in Response!Range(s.results)
  BY <1>1 DEF Response!Range
<1> QED
  BY <1>2 DEF Named

\* What is told of the tickets that playbooks opened.
ToldBy(n) ==
  \/ <<"ticket", n>> \in crossed
  \/ \E k \in DOMAIN runs : runs[k] # None /\ <<"ticket", n>> \in Response!Results({runs[k]})
  \/ \E w \in Worker : Response!At(w, "run") /\ <<"ticket", n>> \in Response!Results({job[w]})

TicketsAreTold == \A n \in DOMAIN tickets : tickets[n].by = "playbook" => ToldBy(n)

LEMMA StillTold ==
  ASSUME RunsAreCounted, JobsAre, tickets \in Seq(Ticket), NEW w \in Worker, Response!Step(w), NEW n, ToldBy(n)
  PROVE  ToldBy(n)'
<1> DEFINE x == <<"ticket", n>>
<1>1. crossed \subseteq crossed'
  BY JobMoves
<1>2. CASE x \in crossed
  BY <1>1, <1>2 DEF ToldBy
<1>3. ASSUME NEW k \in DOMAIN runs, runs[k] # None, x \in Response!Results({runs[k]}) PROVE ToldBy(n)'
  <2>1. CASE Response!DeletePlaybook(w)
    <3>1. PICK b \in Response!Books :
            runs' = Response!WithoutRunsOf(b) /\ Response!Results({runs[m] : m \in Response!RunsOf(b)}) \subseteq crossed'
      BY <2>1 DEF Response!DeletePlaybook
    <3>2. CASE k \in Response!RunsOf(b)
      <4>1. x \in Response!Results({runs[m] : m \in Response!RunsOf(b)})
        <5>1. runs[k] \in {runs[m] : m \in Response!RunsOf(b)}
          BY <3>2
        <5> QED
          BY <1>3, <5>1, InResults, Zenon
      <4> QED
        BY <3>1, <4>1 DEF ToldBy
    <3>3. CASE k \notin Response!RunsOf(b)
      <4>1. k \in DOMAIN runs' /\ runs'[k] = runs[k]
        BY <3>1, <3>3 DEF Response!WithoutRunsOf
      <4> QED
        BY <1>3, <4>1 DEF ToldBy
    <3> QED
      BY <3>2, <3>3
  <2>2. CASE Response!RecordRun(w)
    <3>1. k \in DOMAIN runs' /\ runs'[k] = runs[k]
      BY <2>2 DEF Response!RecordRun, RunsAreCounted
    <3> QED
      BY <1>3, <3>1 DEF ToldBy
  <2>3. CASE runs' = runs
    BY <1>3, <2>3 DEF ToldBy
  <2> QED
    BY <2>1, <2>2, <2>3, WrittenBy DEF Response!CreatePlaybook, Response!UpdatePlaybook
<1>4. ASSUME NEW v \in Worker, Response!At(v, "run"), x \in Response!Results({job[v]}) PROVE ToldBy(n)'
  <2>1. CASE Response!At(v, "run")' /\ job'[v] = job[v]
    BY <1>4, <2>1 DEF ToldBy
  <2>2. CASE Response!Crash(w)
    <3>1. PICK dead \in SUBSET Worker :
            /\ job' = [u \in Worker |-> IF u \in dead THEN None ELSE job[u]]
            /\ Response!Results({job[u] : u \in {u \in dead : Response!At(u, "run")}}) \subseteq crossed'
      BY <2>2 DEF Response!Crash
    <3>2. CASE v \in dead
      <4>1. x \in Response!Results({job[u] : u \in {u \in dead : Response!At(u, "run")}})
        <5>1. job[v] \in {job[u] : u \in {u \in dead : Response!At(u, "run")}}
          BY <1>4, <3>2
        <5> QED
          BY <1>4, <5>1, InResults, Zenon
      <4> QED
        BY <3>1, <4>1 DEF ToldBy
    <3>3. CASE v \notin dead
      <4>1. job'[v] = job[v]
        BY <3>1, <3>3
      <4>2. Response!At(v, "run")'
        BY <1>4, <4>1 DEF Response!At, Response!Idle
      <4> QED
        BY <1>4, <4>1, <4>2 DEF ToldBy
    <3> QED
      BY <3>2, <3>3
  <2>3. CASE v = w /\ Response!RecordRun(w)
    <3>1. PICK r : r = [book |-> job[w].book, results |-> job[w].results]
      OBVIOUS
    <3>2. runs' = Append(runs, r) /\ job[w] \in Response!Running
      BY <2>3, <3>1 DEF Response!RecordRun, RunsAreCounted
    <3>3. r \in Response!Row
      BY <3>1, <3>2 DEF Response!Running, Response!Row
    <3>4. r # None
      BY <3>3, PartsAssumption DEF Response!ConstantsAssumption
    <3>5. Len(runs) + 1 \in DOMAIN runs' /\ runs'[Len(runs) + 1] = r
      BY <3>2, <3>3 DEF RunsAreCounted
    <3>6. r.results = job[w].results
      BY <3>1
    <3>7. x \in Response!Results({r})
      BY <1>4, <2>3, <3>6, ResultsAre DEF Named
    <3> QED
      BY <3>4, <3>5, <3>7 DEF ToldBy
  <2>4. CASE v = w /\ Response!RunAction(w)
    <3>1. job[w] \in Response!Running
      BY <2>4 DEF Response!RunAction, RunsAreCounted
    <3>2. CASE Response!Results({job[w]}) \subseteq crossed'
      BY <1>4, <2>4, <3>2 DEF ToldBy
    <3>3. CASE \E m \in Nat : Response!Become(w, [at |-> "run", book |-> job[w].book, todo |-> Tail(job[w].todo),
                                                  results |-> Append(job[w].results, m)])
      <4>0. PICK m \in Nat : Response!Become(w, [at |-> "run", book |-> job[w].book, todo |-> Tail(job[w].todo),
                                                  results |-> Append(job[w].results, m)])
        BY <3>3
      <4>1. PICK r : Response!Become(w, r) /\ r = [at |-> "run", book |-> job[w].book, todo |-> Tail(job[w].todo),
                                                   results |-> Append(job[w].results, m)]
        BY <4>0
      <4>2. job'[w] = r /\ r.at = "run" /\ r.results = Append(job[w].results, m)
        BY <4>1 DEF Response!Become, JobsAre
      <4> HIDE DEF x
      <4>3. x \in Response!Results({r})
        <5>1. job[w].results \in Seq(Nat)
          BY <3>1 DEF Response!Running
        <5>2. Named(job[w]) \subseteq Named(r)
          BY <4>2, <5>1, ResultsGrow
        <5> QED
          BY <1>4, <2>4, <5>2, ResultsAre
      <4>4. r # None /\ Response!At(w, "run")'
        <5>1. r \in Response!Running
          <6>1. job[w].todo \in Seq(STRING) /\ job[w].todo # <<>> /\ job[w].results \in Seq(Nat) /\ job[w].book \in Nat
            BY <2>4, <3>1 DEF Response!Running, Response!RunAction
          <6>2. \A t \in Seq(STRING) : t # <<>> => Tail(t) \in Seq(STRING)
            OBVIOUS
          <6>3. \A q \in Seq(Nat) : Append(q, m) \in Seq(Nat)
            OBVIOUS
          <6>4. Tail(job[w].todo) \in Seq(STRING) /\ Append(job[w].results, m) \in Seq(Nat)
            BY <6>1, <6>2, <6>3
          <6> QED
            BY <4>1, <6>1, <6>4 DEF Response!Running
        <5>2. r # None
          BY <5>1, PartsAssumption DEF Response!ConstantsAssumption
        <5> QED
          BY <4>2, <5>2 DEF Response!At, Response!Idle
      <4> QED
        BY <4>2, <4>3, <4>4 DEF x, ToldBy
    <3>4. \A y : Len(Append(tickets, y)) \in Nat
      OBVIOUS
    <3> QED
      BY <2>4, <3>2, <3>3, <3>4 DEF Response!RunAction
  <2> QED
    BY <1>4, <2>1, <2>2, <2>3, <2>4, RunGoesOn
<1> QED
  BY <1>2, <1>3, <1>4 DEF ToldBy
LEMMA TicketsTold ==
  ASSUME RunsAreCounted, TicketInv, JobsAre, TicketsAreTold, NEW w \in Worker, Response!Step(w)
  PROVE  TicketsAreTold'
<1> SUFFICES ASSUME NEW n \in DOMAIN tickets', tickets'[n].by = "playbook" PROVE ToldBy(n)'
  BY DEF TicketsAreTold
<1>1. tickets \in Seq(Ticket)
  BY DEF TicketInv
<1>2. CASE n \in DOMAIN tickets /\ tickets[n].by = "playbook"
  BY <1>1, <1>2, StillTold DEF TicketsAreTold
<1>3. CASE Response!CreateTicket(w)
  <2>1. PICK t : tickets' = Append(tickets, t) /\ t.by = "staff"
    BY <1>3 DEF Response!CreateTicket, Response!Opened
  <2>2. n \in DOMAIN tickets /\ tickets'[n] = tickets[n]
    BY <1>1, <2>1
  <2> QED
    BY <1>2, <2>2
<1>4. CASE Response!WriteTicket(w)
  <2>1. PICK s : tickets' = [tickets EXCEPT ![job[w].id] = s] /\ s.by = tickets[job[w].id].by
    <3> DEFINE id == job[w].id
               t == tickets[id]
               s == [status |-> IF job[w].status = None THEN t.status ELSE job[w].status, by |-> t.by,
                     notes |-> Response!Noted(job[w], t.notes)]
    <3>1. id \in DOMAIN tickets
      BY <1>4 DEF Response!WriteTicket, TicketInv, Updating
    <3>2. tickets' = [tickets EXCEPT ![id] = s]
      BY <3>1, <1>4 DEF Response!WriteTicket
    <3>3. s.by = tickets[id].by
      OBVIOUS
    <3> QED
      BY <3>2, <3>3
  <2> QED
    BY <1>1, <1>2, <2>1
<1>5. CASE Response!RunAction(w)
  <2>1. CASE tickets' = tickets
    BY <1>2, <2>1
  <2>2. CASE tickets' # tickets
    <3>1. PICK t : tickets' = Append(tickets, t)
      BY <1>5, <2>2 DEF Response!RunAction
    <3>2. PICK m \in Nat : m = Len(tickets) + 1 /\ m = Len(tickets')
      BY <1>1, <3>1
    <3>2a. PICK r : /\ Response!Become(w, r)
                    /\ r = [at |-> "run", book |-> job[w].book, todo |-> Tail(job[w].todo),
                            results |-> Append(job[w].results, m)]
      BY <1>5, <2>2, <3>2 DEF Response!RunAction
    <3>3. /\ n \in DOMAIN tickets \cup {m}
          /\ \A k \in DOMAIN tickets : tickets'[k] = tickets[k]
      BY <1>1, <3>1, <3>2
    <3>4. job[w] \in Response!Running /\ job[w].todo # <<>>
      BY <1>5 DEF Response!RunAction, RunsAreCounted
    <3>5. r \in Response!Running /\ r.results = Append(job[w].results, m)
      <4>1. job[w].todo \in Seq(STRING) /\ job[w].results \in Seq(Nat) /\ job[w].book \in Nat
        BY <3>4 DEF Response!Running
      <4>2. \A u \in Seq(STRING) : u # <<>> => Tail(u) \in Seq(STRING)
        OBVIOUS
      <4>3. \A q \in Seq(Nat) : Append(q, m) \in Seq(Nat)
        OBVIOUS
      <4>4. Tail(job[w].todo) \in Seq(STRING) /\ Append(job[w].results, m) \in Seq(Nat)
        BY <3>4, <4>1, <4>2, <4>3
      <4> QED
        BY <3>2a, <4>1, <4>4 DEF Response!Running
    <3>6. <<"ticket", m>> \in Response!Results({r})
      <4>1. job[w].results \in Seq(Nat)
        BY <3>4 DEF Response!Running
      <4>2. <<"ticket", m>> \in Named(r)
        BY <3>5, <4>1, ResultsGrow
      <4> QED
        BY <4>2, ResultsAre
    <3>7. job'[w] = r
      BY <3>2a DEF Response!Become, JobsAre
    <3>8. r # None
      BY <3>5, PartsAssumption DEF Response!ConstantsAssumption
    <3>9. Response!At(w, "run")'
      BY <3>5, <3>7, <3>8 DEF Response!At, Response!Idle, Response!Running
    <3>10. ToldBy(m)'
      BY <3>6, <3>7, <3>9 DEF ToldBy
    <3> QED
      BY <1>2, <3>3, <3>10
  <2> QED
    BY <2>1, <2>2
<1>6. CASE tickets' = tickets
  BY <1>2, <1>6
<1> QED
  BY <1>3, <1>4, <1>5, <1>6, WrittenBy

RunsInv == RunsAreCounted /\ TicketsAreTold

LEMMA RunsAreRecorded ==
  ASSUME RunsInv
  PROVE  Response!RunsAreOnRecord
<1>1. \A b \in Response!Books : playbooks[b].runs = Response!Cardinality(Response!RunsOf(b))
  <2>1. \A S : Response!Cardinality(S) = Cardinality(S)
    BY Zenon DEF Response!Cardinality, Cardinality
  <2> QED
    BY <2>1 DEF RunsInv, RunsAreCounted, Response!Books
<1>2. \A r \in Response!Rows : r.book \notin Response!Books => <<"book", r.book>> \in crossed
  BY DEF RunsInv, RunsAreCounted, Response!Rows, Response!Range, Response!Books
<1>3. ASSUME NEW n \in DOMAIN tickets, tickets[n].by = "playbook"
      PROVE  <<"ticket", n>> \in crossed \cup Response!Results(Response!Rows)
                \cup Response!Results({job[w] : w \in {w \in Worker : Response!At(w, "run")}})
  <2>1. ToldBy(n)
    BY <1>3 DEF RunsInv, TicketsAreTold
  <2>2. ASSUME NEW k \in DOMAIN runs, runs[k] # None, <<"ticket", n>> \in Response!Results({runs[k]})
        PROVE  <<"ticket", n>> \in Response!Results(Response!Rows)
    <3>1. runs[k] \in Response!Rows
      BY <2>2 DEF Response!Rows, Response!Range
    <3> QED
      BY <2>2, <3>1, ResultsAre
  <2>3. ASSUME NEW w \in Worker, Response!At(w, "run"), <<"ticket", n>> \in Response!Results({job[w]})
        PROVE  <<"ticket", n>> \in Response!Results({job[v] : v \in {v \in Worker : Response!At(v, "run")}})
    <3>1. job[w] \in {job[v] : v \in {v \in Worker : Response!At(v, "run")}}
      BY <2>3
    <3> QED
      BY <2>3, <3>1, InResults, Zenon
  <2> QED
    BY <2>1, <2>2, <2>3 DEF ToldBy
<1> QED
  BY <1>1, <1>2, <1>3 DEF Response!RunsAreOnRecord
\* Cases: what one more entry of a timeline is to its pieces and to what it tells of the case.
Kind == {"created", "open", "closed", "evidence_added"}

LEMMA PieceAdded ==
  ASSUME NEW line \in Seq(Kind), NEW e \in Kind
  PROVE  /\ Response!Pieces(line) \in Nat
         /\ Response!Pieces(Append(line, e)) = Response!Pieces(line) + (IF e = "evidence_added" THEN 1 ELSE 0)
<1> DEFINE at(l) == Response!Entries(l, {"evidence_added"})
           n == Len(line) + 1
<1>1. \A S : Response!Cardinality(S) = Cardinality(S)
  BY Zenon DEF Response!Cardinality, Cardinality
<1>2. IsFiniteSet(at(line)) /\ n \notin at(line)
  <2>1. IsFiniteSet(1 .. Len(line))
    BY FS_Interval
  <2>2. at(line) \subseteq 1 .. Len(line) /\ n \notin 1 .. Len(line)
    BY DEF Response!Entries
  <2> QED
    BY <2>1, <2>2, FS_Subset
<1>3. at(Append(line, e)) = IF e = "evidence_added" THEN at(line) \cup {n} ELSE at(line)
  <2> DEFINE more == Append(line, e)
  <2>1. DOMAIN more = DOMAIN line \cup {n} /\ more[n] = e /\ n \notin DOMAIN line
        /\ \A k \in DOMAIN line : more[k] = line[k]
    OBVIOUS
  <2> HIDE DEF more, n
  <2>2. at(more) = IF e = "evidence_added" THEN at(line) \cup {n} ELSE at(line)
    BY <2>1 DEF Response!Entries
  <2> QED
    BY <2>2 DEF more
<1> HIDE DEF at, n
<1>4. Cardinality(at(line)) \in Nat /\ Cardinality(at(line) \cup {n}) = Cardinality(at(line)) + 1
  BY <1>2, FS_CardinalityType, FS_AddElement
<1> QED
  BY <1>1, <1>3, <1>4 DEF at, Response!Pieces

LEMMA NoPieces == Response!Pieces(<<>>) = 0
<1>1. \A S : Response!Cardinality(S) = Cardinality(S)
  BY Zenon DEF Response!Cardinality, Cardinality
<1>2. Response!Entries(<<>>, {"evidence_added"}) = {}
  BY DEF Response!Entries
<1> QED
  BY <1>1, <1>2, FS_EmptySet DEF Response!Pieces

Changes(line) == Response!Entries(line, {"open", "closed"})
CaseRow == [status : {"open", "closed"}, closed : BOOLEAN]

\* The line of a case that nothing was written of before it was there.
Telling(row, line) ==
  /\ line # <<>> /\ line[1] = "created"
  /\ Changes(line) = {} => row.status = "open"
  /\ \A n \in Changes(line) : (\A m \in Changes(line) : m <= n) => line[n] = row.status

CaseTold(row, line, torn) ==
  /\ row.status = "closed" => row.closed
  /\ ~torn => Telling(row, line)

LEMMA StillTells ==
  ASSUME NEW row, NEW line \in Seq(Kind), Telling(row, line), NEW e \in Kind \ {"open", "closed"}
  PROVE  Telling(row, Append(line, e))
<1> DEFINE more == Append(line, e)
           n == Len(line) + 1
<1>1. DOMAIN more = DOMAIN line \cup {n} /\ more[n] = e /\ n \notin DOMAIN line /\ more # <<>>
      /\ \A k \in DOMAIN line : more[k] = line[k]
  OBVIOUS
<1>2. line # <<>> => 1 \in DOMAIN line
  OBVIOUS
<1> HIDE DEF more, n
<1>3. Changes(more) = Changes(line) /\ \A k \in Changes(line) : more[k] = line[k]
  BY <1>1 DEF Changes, Response!Entries
<1> QED
  BY <1>1, <1>2, <1>3 DEF Telling, more

LEMMA UpdateTells ==
  ASSUME NEW row \in CaseRow, row.status = "closed" => row.closed,
         NEW line \in Seq(Kind), NEW e \in Kind, e \in {"open", "closed"}
  PROVE  /\ Response!Updated(row, e) \in CaseRow
         /\ Response!Updated(row, e).status = "closed" => Response!Updated(row, e).closed
         /\ Telling(row, line) => Telling(Response!Updated(row, e), Append(line, e))
<1> DEFINE more == Append(line, e)
           n == Len(line) + 1
           new == Response!Updated(row, e)
<1>1. DOMAIN more = DOMAIN line \cup {n} /\ more[n] = e /\ n \notin DOMAIN line /\ more # <<>>
      /\ \A k \in DOMAIN line : more[k] = line[k] /\ k < n
  OBVIOUS
<1>2. line # <<>> => 1 \in DOMAIN line
  OBVIOUS
<1>3. new \in CaseRow /\ new.status = e /\ (e = "closed" => new.closed)
  BY DEF Response!Updated, CaseRow
<1>4. n \in Nat /\ DOMAIN line \subseteq Nat
  OBVIOUS
<1> HIDE DEF more, n, new
<1>5. n \in Changes(more) /\ \A k \in Changes(more) : k = n \/ (k \in DOMAIN line /\ ~(n <= k))
  <2>1. \A k \in DOMAIN line : ~(n <= k)
    BY <1>1, <1>4
  <2> QED
    BY <1>1, <2>1 DEF Changes, Response!Entries
<1>6. \A k \in Changes(more) : (\A m \in Changes(more) : m <= k) => more[k] = e
  BY <1>1, <1>5
<1> QED
  BY <1>1, <1>2, <1>3, <1>5, <1>6 DEF Telling, more, new

LEMMA CreationTells ==
  ASSUME NEW line \in Seq(Kind)
  PROVE  /\ Response!NewCase \in CaseRow /\ Response!NewCase.status = "open"
         /\ line = <<>> => Telling(Response!NewCase, Append(line, "created"))
<1>1. Response!NewCase \in CaseRow /\ Response!NewCase.status = "open"
  BY DEF Response!NewCase, CaseRow
<1> DEFINE more == Append(line, "created")
<1>2. ASSUME line = <<>> PROVE more # <<>> /\ more[1] = "created" /\ Changes(more) = {}
  BY <1>2 DEF Changes, Response!Entries
<1> HIDE DEF more
<1> QED
  BY <1>1, <1>2 DEF Telling, more
LEMMA PiecesNat ==
  ASSUME NEW line \in Seq(Kind)
  PROVE  Response!Pieces(line) \in Nat
<1>1. "created" \in Kind
  BY DEF Kind
<1> QED
  BY <1>1, PieceAdded

CaseInv ==
  /\ cases \in Seq(CaseRow) /\ Len(cases) <= MaxCases
  /\ timeline \in [1 .. MaxCases -> Seq(Kind)]
  /\ evidence \in [1 .. MaxCases -> Nat]
  /\ \A c \in 1 .. MaxCases : evidence[c] = Response!Pieces(timeline[c])
  /\ \A c \in DOMAIN cases : CaseTold(cases[c], timeline[c], <<"case", c>> \in crossed)
  /\ \A w \in Worker : Response!At(w, "timeline") => job[w].id \in 1 .. MaxCases
  /\ \A w \in Worker : Response!At(w, "evidence") =>
       /\ job[w].id \in 1 .. MaxCases /\ job[w].timeline \in Seq(Kind)
       /\ Response!Pieces(job[w].timeline) <= evidence[job[w].id]
  /\ shown # None => Response!Pieces(shown.timeline) <= shown.evidence

\* A case's line grows by one entry.
LEMMA LineAdded ==
  ASSUME CaseInv, NEW c \in 1 .. MaxCases, NEW e \in Kind, Response!Entry(c, e), shown' = shown, job' = job,
         evidence' = IF e = "evidence_added" THEN [evidence EXCEPT ![c] = @ + 1] ELSE evidence,
         crossed \subseteq crossed',
         cases' \in Seq(CaseRow), Len(cases') <= MaxCases,
         \A d \in DOMAIN cases' : d # c => d \in DOMAIN cases /\ cases'[d] = cases[d],
         c \in DOMAIN cases' => CaseTold(cases'[c], Append(timeline[c], e), <<"case", c>> \in crossed')
  PROVE  CaseInv'
<1>0. MaxCases \in Nat
  BY PartsAssumption DEF Response!ConstantsAssumption
<1>1. timeline[c] \in Seq(Kind) /\ evidence[c] \in Nat
  BY DEF CaseInv
<1>2. Append(timeline[c], e) \in Seq(Kind)
  BY <1>1
<1>3. /\ timeline' \in [1 .. MaxCases -> Seq(Kind)] /\ timeline'[c] = Append(timeline[c], e)
      /\ \A d \in 1 .. MaxCases : d # c => timeline'[d] = timeline[d]
  BY <1>2 DEF Response!Entry, CaseInv
<1>4. /\ evidence' \in [1 .. MaxCases -> Nat] /\ evidence'[c] = evidence[c] + (IF e = "evidence_added" THEN 1 ELSE 0)
      /\ \A d \in 1 .. MaxCases : d # c => evidence'[d] = evidence[d]
  BY <1>1 DEF CaseInv
<1>5. \A d \in 1 .. MaxCases : evidence'[d] = Response!Pieces(timeline'[d])
  <2>1. evidence'[c] = Response!Pieces(Append(timeline[c], e))
    BY <1>1, <1>4, PieceAdded DEF CaseInv
  <2> QED
    BY <1>3, <1>4, <2>1 DEF CaseInv
<1>6. \A d \in 1 .. MaxCases : evidence[d] <= evidence'[d]
  <2>1. \A d \in 1 .. MaxCases : evidence[d] \in Nat /\ evidence'[d] \in Nat
    BY <1>4 DEF CaseInv
  <2> QED
    BY <1>4, <2>1
<1>7. \A d \in DOMAIN cases' : d \in 1 .. MaxCases
  <2>1. DOMAIN cases' = 1 .. Len(cases') /\ Len(cases') \in Nat
    OBVIOUS
  <2> QED
    BY <1>0, <2>1
<1>8. ASSUME NEW d \in DOMAIN cases' PROVE CaseTold(cases'[d], timeline'[d], <<"case", d>> \in crossed')
  <2>1. CASE d = c
    BY <1>3, <2>1
  <2>2. CASE d # c
    <3>1. CaseTold(cases[d], timeline[d], <<"case", d>> \in crossed) /\ cases'[d] = cases[d] /\ timeline'[d] = timeline[d]
      BY <1>3, <1>7, <2>2 DEF CaseInv
    <3> QED
      BY <3>1 DEF CaseTold
  <2> QED
    BY <2>1, <2>2
<1>9. ASSUME NEW w \in Worker, Response!At(w, "evidence")'
      PROVE  /\ job'[w].id \in 1 .. MaxCases /\ job'[w].timeline \in Seq(Kind)
             /\ Response!Pieces(job'[w].timeline) <= evidence'[job'[w].id]
  <2>1. /\ job'[w] = job[w] /\ job[w].id \in 1 .. MaxCases /\ job[w].timeline \in Seq(Kind)
        /\ Response!Pieces(job[w].timeline) <= evidence[job[w].id]
    BY <1>9 DEF CaseInv, Response!At, Response!Idle
  <2>2. Response!Pieces(job[w].timeline) \in Nat
    BY <2>1, PiecesNat
  <2>3. evidence[job[w].id] \in Nat /\ evidence'[job[w].id] \in Nat
    BY <1>4, <2>1 DEF CaseInv
  <2> QED
    BY <1>6, <2>1, <2>2, <2>3
<1>10. \A w \in Worker : Response!At(w, "timeline")' => job'[w].id \in 1 .. MaxCases
  BY DEF CaseInv, Response!At, Response!Idle
<1> QED
  BY <1>3, <1>4, <1>5, <1>8, <1>9, <1>10 DEF CaseInv

\* A step that writes no case: it may read one.
LEMMA CasesStay ==
  ASSUME CaseInv, UNCHANGED <<cases, timeline, evidence>>, crossed \subseteq crossed',
         \A w \in Worker : Response!At(w, "timeline")' => Stays(w, "timeline") \/ job'[w].id \in 1 .. MaxCases,
         \A w \in Worker : Response!At(w, "evidence")' =>
            \/ Stays(w, "evidence")
            \/ /\ job'[w].id \in 1 .. MaxCases /\ job'[w].timeline \in Seq(Kind)
               /\ Response!Pieces(job'[w].timeline) <= evidence[job'[w].id],
         shown' # None => shown' = shown \/ Response!Pieces(shown'.timeline) <= shown'.evidence
  PROVE  CaseInv'
<1>1. ASSUME NEW d \in DOMAIN cases' PROVE CaseTold(cases'[d], timeline'[d], <<"case", d>> \in crossed')
  <2>1. CaseTold(cases[d], timeline[d], <<"case", d>> \in crossed) /\ cases'[d] = cases[d] /\ timeline'[d] = timeline[d]
    BY DEF CaseInv
  <2> QED
    BY <2>1 DEF CaseTold
<1>2. \A w \in Worker : Response!At(w, "timeline")' => job'[w].id \in 1 .. MaxCases
  BY DEF CaseInv, Stays
<1>3. \A w \in Worker : Response!At(w, "evidence")' =>
       /\ job'[w].id \in 1 .. MaxCases /\ job'[w].timeline \in Seq(Kind)
       /\ Response!Pieces(job'[w].timeline) <= evidence'[job'[w].id]
  BY DEF CaseInv, Stays
<1>4. shown' # None => Response!Pieces(shown'.timeline) <= shown'.evidence
  BY DEF CaseInv
<1> QED
  BY <1>1, <1>2, <1>3, <1>4 DEF CaseInv

LEMMA CaseStepKeeps ==
  ASSUME CaseInv, JobsAre, NEW w \in Worker, Response!Step(w)
  PROVE  CaseInv'
<1>0. MaxCases \in Nat
  BY PartsAssumption DEF Response!ConstantsAssumption
<1>1. /\ crossed \subseteq crossed'
      /\ \A v \in Worker : Response!At(v, "timeline")' => Stays(v, "timeline") \/ (v = w /\ Response!ReadCase(w))
      /\ \A v \in Worker : Response!At(v, "evidence")' => Stays(v, "evidence") \/ (v = w /\ Response!ReadTimeline(w))
  BY JobMoves DEF Places, Brings
<1>2. CASE Response!CreateCase(w)
  <2>1. PICK c : c = Len(cases) + 1
    OBVIOUS
  <2>2. /\ cases' = Append(cases, Response!NewCase) /\ Response!Entry(c, "created") /\ Len(cases) < MaxCases
        /\ crossed' = IF timeline[c] = <<>> THEN crossed ELSE crossed \cup {<<"case", c>>}
        /\ UNCHANGED <<evidence, shown, job>>
    BY <1>2, <2>1 DEF Response!CreateCase
  <2>3. Response!NewCase \in CaseRow
    BY DEF Response!NewCase, CaseRow
  <2>4. /\ cases' \in Seq(CaseRow) /\ Len(cases') <= MaxCases /\ c \in 1 .. MaxCases /\ cases'[c] = Response!NewCase
        /\ \A d \in DOMAIN cases' : d # c => d \in DOMAIN cases /\ cases'[d] = cases[d]
    BY <1>0, <2>1, <2>2, <2>3 DEF CaseInv
  <2>5. timeline[c] \in Seq(Kind)
    BY <2>4 DEF CaseInv
  <2>6. CaseTold(Response!NewCase, Append(timeline[c], "created"), <<"case", c>> \in crossed')
    BY <2>2, <2>5, CreationTells DEF CaseTold
  <2>7. "created" \in Kind
    BY DEF Kind
  <2> QED
    BY <1>1, <2>2, <2>4, <2>6, <2>7, LineAdded
<1>3. CASE Response!UpdateCase(w)
  <2>1. PICK c \in 1 .. MaxCases, e \in {"open", "closed"} :
          /\ cases' = IF c \in DOMAIN cases THEN [cases EXCEPT ![c] = Response!Updated(@, e)] ELSE cases
          /\ Response!Entry(c, e)
    BY <1>3 DEF Response!UpdateCase
  <2>2. UNCHANGED <<evidence, shown, job, crossed>>
    BY <1>3 DEF Response!UpdateCase
  <2>3. e \in Kind /\ timeline[c] \in Seq(Kind) /\ e # "evidence_added"
    BY DEF Kind, CaseInv
  <2>4. CASE c \in DOMAIN cases
    <3>1. /\ Response!Updated(cases[c], e) \in CaseRow
          /\ CaseTold(Response!Updated(cases[c], e), Append(timeline[c], e), <<"case", c>> \in crossed)
      <4>1. cases[c] \in CaseRow /\ CaseTold(cases[c], timeline[c], <<"case", c>> \in crossed)
        BY <2>4 DEF CaseInv
      <4> QED
        BY <2>3, <4>1, UpdateTells DEF CaseTold
    <3>2. cases' = [cases EXCEPT ![c] = Response!Updated(cases[c], e)]
      BY <2>1, <2>4
    <3>3. /\ cases' \in Seq(CaseRow) /\ Len(cases') <= MaxCases /\ cases'[c] = Response!Updated(cases[c], e)
          /\ \A d \in DOMAIN cases' : d # c => d \in DOMAIN cases /\ cases'[d] = cases[d]
      BY <2>4, <3>1, <3>2 DEF CaseInv
    <3> QED
      BY <1>1, <2>1, <2>2, <2>3, <3>1, <3>3, LineAdded
  <2>5. CASE c \notin DOMAIN cases
    <3>1. cases' = cases /\ cases \in Seq(CaseRow) /\ Len(cases) <= MaxCases
      BY <2>1, <2>5 DEF CaseInv
    <3> QED
      BY <1>1, <2>1, <2>2, <2>3, <2>5, <3>1, LineAdded
  <2> QED
    BY <2>4, <2>5
<1>4. CASE Response!AddEvidence(w)
  <2>1. PICK c \in 1 .. MaxCases :
          evidence' = [evidence EXCEPT ![c] = @ + 1] /\ Response!Entry(c, "evidence_added")
    BY <1>4 DEF Response!AddEvidence
  <2>2. UNCHANGED <<cases, shown, job, crossed>>
    BY <1>4 DEF Response!AddEvidence
  <2>3. "evidence_added" \in Kind \ {"open", "closed"} /\ timeline[c] \in Seq(Kind)
    BY DEF Kind, CaseInv
  <2>4. c \in DOMAIN cases => CaseTold(cases[c], Append(timeline[c], "evidence_added"), <<"case", c>> \in crossed)
    BY <2>3, StillTells DEF CaseInv, CaseTold
  <2>5. cases \in Seq(CaseRow) /\ Len(cases) <= MaxCases
    BY DEF CaseInv
  <2> QED
    BY <1>1, <2>1, <2>2, <2>3, <2>4, <2>5, LineAdded
<1>5. CASE UNCHANGED <<cases, timeline, evidence>>
  <2>1. ASSUME Response!ReadCase(w) PROVE job'[w].id \in 1 .. MaxCases
    <3>1. PICK c \in DOMAIN cases : Response!Become(w, [at |-> "timeline", id |-> c])
      BY <2>1 DEF Response!ReadCase
    <3>2. c \in 1 .. MaxCases
      BY <1>0 DEF CaseInv
    <3> QED
      BY <3>1, <3>2 DEF Response!Become, JobsAre
  <2>2. ASSUME Response!ReadTimeline(w)
        PROVE  /\ job'[w].id \in 1 .. MaxCases /\ job'[w].timeline \in Seq(Kind)
               /\ Response!Pieces(job'[w].timeline) <= evidence[job'[w].id]
    <3>1. job[w].id \in 1 .. MaxCases
      BY <2>2 DEF Response!ReadTimeline, CaseInv
    <3>2. job'[w].id = job[w].id /\ job'[w].timeline = timeline[job[w].id]
      BY <2>2 DEF Response!ReadTimeline, Response!Become, JobsAre
    <3>3. Response!Pieces(timeline[job[w].id]) = evidence[job[w].id] /\ evidence[job[w].id] \in Nat
          /\ timeline[job[w].id] \in Seq(Kind)
      BY <3>1 DEF CaseInv
    <3> QED
      BY <3>1, <3>2, <3>3
  <2>3. shown' # None => shown' = shown \/ Response!Pieces(shown'.timeline) <= shown'.evidence
    <3>1. CASE Response!AnswerCase(w)
      BY <3>1 DEF Response!AnswerCase, CaseInv
    <3>2. CASE ~Response!AnswerCase(w)
      BY <3>2, WrittenBy DEF Response!CreateCase, Response!UpdateCase, Response!AddEvidence
    <3> QED
      BY <3>1, <3>2
  <2> QED
    BY <1>1, <1>5, <2>1, <2>2, <2>3, CasesStay
<1> QED
  BY <1>2, <1>3, <1>4, <1>5, WrittenBy DEF Response!AnswerCase

LEMMA CasesTold ==
  ASSUME CaseInv
  PROVE  Response!CasesAreTold
<1>1. ASSUME NEW c \in DOMAIN cases
      PROVE  LET changes == Response!Entries(timeline[c], {"open", "closed"}) IN
             /\ cases[c].status = "closed" => cases[c].closed
             /\ <<"case", c>> \notin crossed =>
                  /\ timeline[c][1] = "created"
                  /\ changes = {} => cases[c].status = "open"
                  /\ \A n \in changes : (\A m \in changes : m <= n) => timeline[c][n] = cases[c].status
  BY DEF CaseInv, CaseTold, Telling, Changes
<1> QED
  BY <1>1 DEF CaseInv, Response!CasesAreTold
\* Scores: what a request has read of a row is what the row holds, unless two overlapped.
Scoring(w) == Response!At(w, "factor") \/ Response!At(w, "decay")

RiskInv ==
  /\ Response!RiskIsCounted
  /\ \A w \in Worker, d \in User :
       Scoring(w) /\ d \in job[w].of /\ <<"risk", d>> \notin crossed => job[w].rows[d] = risk[d]

LEMMA ScoreWritten ==
  ASSUME RiskInv, NEW w \in Worker, Response!WriteRisk(w), NEW d \in User, <<"risk", d>> \notin crossed'
  PROVE  /\ risk'[d] = due'[d]
         /\ d \in job[w].of => \A v \in Worker \ {w} : Scoring(v) => d \notin job[v].of
         /\ d \notin job[w].of => risk'[d] = risk[d]
<1> DEFINE j == job[w]
           met == {e \in j.of : \E v \in Response!Others(w, "factor") \cup Response!Others(w, "decay") : e \in job[v].of}
<1>1. /\ risk' = [e \in User |-> IF e \in j.of THEN Response!Left(j, e) ELSE risk[e]]
      /\ due' = [e \in User |-> IF e \in j.of THEN Response!Due(j, e) ELSE due[e]]
      /\ crossed' = crossed \cup {<<"risk", e>> : e \in met}
  BY DEF Response!WriteRisk
<1>2. <<"risk", d>> \notin crossed /\ d \notin met
  BY <1>1
<1>3. risk[d] = due[d]
  BY <1>2 DEF RiskInv, Response!RiskIsCounted
<1>4. CASE d \notin j.of
  BY <1>1, <1>3, <1>4
<1>5. CASE d \in j.of
  <2>1. \A v \in Worker \ {w} : Scoring(v) => d \notin job[v].of
    BY <1>2, <1>5 DEF Response!Others, Scoring
  <2>2. Scoring(w) /\ j.rows[d] = risk[d]
    BY <1>2, <1>5 DEF RiskInv, Scoring, Response!WriteRisk
  <2>3. Response!Left(j, d) = Response!Due(j, d)
    <3>1. CASE j.at = "decay"
      BY <1>3, <2>2, <3>1 DEF Response!Left, Response!Due, Response!Decayed
    <3>2. CASE j.at = "factor"
      <4>1. ~(j.rows[d] = None /\ risk[d] # None)
        BY <2>2
      <4> QED
        BY <1>3, <2>2, <3>2, <4>1 DEF Response!Left, Response!Due
    <3> QED
      BY <2>2, <3>1, <3>2 DEF Scoring, Response!At
  <2> QED
    BY <1>1, <1>5, <2>1, <2>3
<1> QED
  BY <1>4, <1>5

LEMMA RiskStepKeeps ==
  ASSUME RiskInv, JobsAre, NEW w \in Worker, Response!Step(w)
  PROVE  RiskInv'
<1>1. /\ crossed \subseteq crossed'
      /\ \A v \in Worker : Scoring(v)' =>
           \/ Scoring(v) /\ job'[v] = job[v]
           \/ v = w /\ (Response!AddRiskFactor(w) \/ Response!DecayRiskScores(w))
  BY JobMoves DEF Places, Brings, Scoring, Stays
<1>2. CASE Response!WriteRisk(w)
  <2>1. ~Scoring(w)'
    BY <1>2 DEF Response!WriteRisk, Response!End, Response!Become, Response!At, Response!Idle, JobsAre, Scoring
  <2>2. ASSUME NEW v \in Worker, NEW d \in User, Scoring(v)', d \in job'[v].of, <<"risk", d>> \notin crossed'
        PROVE  job'[v].rows[d] = risk'[d]
    <3>1. v # w /\ ~Response!AddRiskFactor(w) /\ ~Response!DecayRiskScores(w)
      BY <1>2, <2>1, <2>2 DEF Response!WriteRisk, Response!AddRiskFactor, Response!DecayRiskScores, Response!At
    <3>2. Scoring(v) /\ job'[v] = job[v]
      BY <1>1, <2>2, <3>1
    <3>3. risk'[d] = risk[d]
      BY <1>2, <2>2, <3>1, <3>2, ScoreWritten
    <3> QED
      BY <1>1, <2>2, <3>2, <3>3 DEF RiskInv
  <2>3. Response!RiskIsCounted'
    BY <1>2, ScoreWritten DEF Response!RiskIsCounted
  <2> QED
    BY <2>2, <2>3 DEF RiskInv
<1>3. CASE UNCHANGED <<risk, due>>
  <2>1. ASSUME Response!AddRiskFactor(w) \/ Response!DecayRiskScores(w) PROVE job'[w].rows = risk
    BY <2>1 DEF Response!AddRiskFactor, Response!DecayRiskScores, Response!Become, JobsAre
  <2>2. Response!RiskIsCounted'
    BY <1>1, <1>3 DEF RiskInv, Response!RiskIsCounted
  <2>3. ASSUME NEW v \in Worker, NEW d \in User, Scoring(v)', d \in job'[v].of, <<"risk", d>> \notin crossed'
        PROVE  job'[v].rows[d] = risk'[d]
    BY <1>1, <1>3, <2>1, <2>3 DEF RiskInv
  <2> QED
    BY <2>2, <2>3 DEF RiskInv
<1> QED
  BY <1>2, <1>3, WrittenBy

-----------------------------------------------------------------------------
ResponseInv == JobsAre /\ TicketInv /\ ThreatInv /\ RunsInv /\ CaseInv /\ RiskInv

LEMMA ResponseInit ==
  ASSUME Response!Init
  PROVE  ResponseInv
<1> USE DEF Response!Init
<1>1. \A p : \A w \in Worker : ~Response!At(w, p)
  BY DEF Response!At, Response!Idle
<1>2. JobsAre
  BY DEF JobsAre
<1>3. TicketInv
  BY <1>1 DEF TicketInv, Response!NotesAreKept
<1>4. ThreatInv
  <2>1. given \in Seq(File)
    OBVIOUS
  <2> QED
    BY <2>1 DEF ThreatInv, Response!IdsNameOneIndicator
<1>5. RunsInv
  <2>1. playbooks \in Seq(Response!Book \cup {None}) /\ runs \in Seq(Response!Row \cup {None})
        /\ DOMAIN playbooks = {} /\ DOMAIN runs = {} /\ DOMAIN tickets = {}
    OBVIOUS
  <2> QED
    BY <1>1, <2>1 DEF RunsInv, RunsAreCounted, TicketsAreTold
<1>6. CaseInv
  <2>1. MaxCases \in Nat
    BY PartsAssumption DEF Response!ConstantsAssumption
  <2>2. cases \in Seq(CaseRow) /\ Len(cases) <= MaxCases /\ DOMAIN cases = {}
    BY <2>1
  <2>3. <<>> \in Seq(Kind)
    OBVIOUS
  <2> QED
    BY <1>1, <2>2, <2>3, NoPieces DEF CaseInv
<1>7. RiskInv
  BY <1>1 DEF RiskInv, Response!RiskIsCounted, Scoring
<1> QED
  BY <1>2, <1>3, <1>4, <1>5, <1>6, <1>7 DEF ResponseInv

LEMMA ResponseStep ==
  ASSUME ResponseInv, NEW w \in Worker, Response!Step(w)
  PROVE  ResponseInv'
<1>1. tickets \in Seq(Ticket)
  BY DEF ResponseInv, TicketInv
<1>2. JobsAre'
  BY JobMoves DEF ResponseInv
<1>3. RunsInv'
  BY <1>1, BookStepKeeps, TicketsTold DEF ResponseInv, RunsInv
<1> QED
  BY <1>2, <1>3, TicketStepKeeps, ThreatStepKeeps, CaseStepKeeps, RiskStepKeeps DEF ResponseInv

LEMMA ResponseStutters ==
  ASSUME ResponseInv, UNCHANGED responseVars
  PROVE  ResponseInv'
<1> USE DEF responseVars
<1>1. JobsAre'
  BY DEF ResponseInv, JobsAre
<1>2. TicketInv'
  BY DEF ResponseInv, TicketInv, Updating, Response!NotesAreKept, Response!At, Response!Idle
<1>3. ThreatInv'
  BY DEF ResponseInv, ThreatInv, Response!IdsNameOneIndicator
<1>4. RunsInv'
  BY DEF ResponseInv, RunsInv, RunsAreCounted, TicketsAreTold, ToldBy, Response!RunsOf, Response!At, Response!Idle
<1>5. CaseInv'
  BY DEF ResponseInv, CaseInv, Response!At, Response!Idle
<1>6. RiskInv'
  BY DEF ResponseInv, RiskInv, Scoring, Response!RiskIsCounted, Response!At, Response!Idle
<1> QED
  BY <1>1, <1>2, <1>3, <1>4, <1>5, <1>6 DEF ResponseInv

\* What is done about alarms stays on record: a note answered as added is in its ticket, an
\* indicator's id names it alone, playbooks count their runs and the tickets they opened are told
\* of, cases are told by their timelines, and the scores are those that the changes make one after
\* another - each unless requests overlapped as named (emarefirewall/rmm.py).
THEOREM ResponsesOnRecord == StoresSpec => []ResponsesAreOnRecord
<1>1. StoresInit => ResponseInv
  BY ResponseInit DEF StoresInit
<1>2. ResponseInv /\ [StoresNext]_<<part, vars, logVars, accountVars, centreVars, siteVars, responseVars>> => ResponseInv'
  <2> SUFFICES ASSUME ResponseInv, [StoresNext]_<<part, vars, logVars, accountVars, centreVars, siteVars, responseVars>>
               PROVE  ResponseInv'
    OBVIOUS
  <2>1. UNCHANGED responseVars \/ \E w \in Worker : Response!Step(w)
    BY DEF StoresNext, Response!Step
  <2> QED
    BY <2>1, ResponseStep, ResponseStutters
<1>3. ResponseInv => ResponsesAreOnRecord
  BY RunsAreRecorded, CasesTold
  DEF ResponseInv, TicketInv, ThreatInv, RiskInv, ResponsesAreOnRecord, Response!ResponsesAreOnRecord
<1> QED
  BY <1>1, <1>2, <1>3, PTL DEF StoresSpec
=============================================================================
