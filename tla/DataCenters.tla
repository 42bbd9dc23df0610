---------------------------- MODULE DataCenters ----------------------------
(***************************************************************************)
(* The data centres of the panel and the servers that stand in them        *)
(* (routes/datacenters.py; dc_id in routes/servers.py and models.py).      *)
(*                                                                         *)
(* A request reads the rows it is about in one statement and writes them   *)
(* in a later one, by their id.  SQLite, which the panel uses unless it is *)
(* configured otherwise, gives the id of a deleted last row to the next    *)
(* one, and does not check foreign keys; PostgreSQL does the opposite.     *)
(***************************************************************************)
EXTENDS Naturals, FiniteSets

CONSTANTS
    Server, Request, Code, None,
    Organization,
    Org,            \* the one of each server
    MaxCreated      \* bound: how many centres are created

Global == 0                             \* a super administrator who has chosen no organization
Tenant == Organization \cup {Global}
Id == 1 .. MaxCreated

Row == [code : Code, org : Tenant, nth : 1 .. MaxCreated]

ConstantsAssumption == MaxCreated \in Nat /\ None \notin Row \cup Server

VARIABLES
    database,   \* "sqlite" or "postgres"
    centre,     \* the rows: code, organization and, for the properties, the how-manieth it is
    created,
    of,         \* the dc_id of each server, 0 for NULL
    request,    \* each request: what it does, with which rows, and what it has read
    stood,      \* history: the centre each server was placed in
    blind       \* history: the servers placed in a row that no longer was, or never was looked at

vars == <<database, centre, created, of, request, stood, blind>>

Free == [kind |-> "none", tenant |-> Global, id |-> 0, nth |-> 0, code |-> None, server |-> None, read |-> 0]
Exists(i) == centre[i] # None
Nth(i) == IF i \in Id /\ Exists(i) THEN centre[i].nth ELSE 0

\* _get_dc_with_access, _build_tenant_query, _user_can_see_server
Sees(t, org) == t = Global \/ org = t
Visible(t) == {i \in Id : Exists(i) /\ Sees(t, centre[i].org)}
Taken(t, c) == {i \in Visible(t) : centre[i].code = c}

Init ==
    /\ database \in {"sqlite", "postgres"}
    /\ centre = [i \in Id |-> None] /\ created = 0
    /\ of = [s \in Server |-> 0]
    /\ request = [r \in Request |-> Free]
    /\ stood = [s \in Server |-> 0] /\ blind = {}

-----------------------------------------------------------------------------
(***************************************************************************)
(* The reads                                                               *)
(***************************************************************************)
Read(r, q) ==
    /\ request[r] = Free
    /\ request' = [request EXCEPT ![r] = q]
    /\ UNCHANGED <<database, centre, created, of, stood, blind>>

Asked(kind, t, i, c, s) ==
    [kind |-> kind, tenant |-> t, id |-> i, nth |-> Nth(i), code |-> c, server |-> s,
     read |-> IF s = None THEN 0 ELSE of[s]]

\* A code is looked for among the centres that the caller sees.
BeginCreate(r, t, c) ==
    Taken(t, c) = {} /\ Read(r, Asked("create", t, 0, c, None))

BeginUpdate(r, t, i, c) ==
    i \in Visible(t) /\ Taken(t, c) \subseteq {i} /\ Read(r, Asked("update", t, i, c, None))

BeginDelete(r, t, i) ==
    i \in Visible(t) /\ Read(r, Asked("delete", t, i, None, None))

BeginAssign(r, t, i, s) ==
    i \in Visible(t) /\ Sees(t, Org[s]) /\ Read(r, Asked("assign", t, i, None, s))

\* Only a server that is read in this centre is written.
BeginUnassign(r, t, i, s) ==
    i \in Visible(t) /\ Sees(t, Org[s]) /\ of[s] = i /\ Read(r, Asked("unassign", t, i, None, s))

-----------------------------------------------------------------------------
(***************************************************************************)
(* The commits                                                             *)
(***************************************************************************)
Does(r, kind) == request[r].kind = kind /\ request' = [request EXCEPT ![r] = Free]

\* The code is unique for all organizations: the commit is refused.
CodeIsFree(i, c) == \A j \in Id \ {i} : Exists(j) => centre[j].code # c

Newest == {i \in Id : Exists(i) /\ \A j \in Id : Exists(j) => j <= i}
NextId == IF database = "postgres" THEN created + 1
          ELSE IF Newest = {} THEN 1 ELSE (CHOOSE i \in Newest : TRUE) + 1

Create(r) ==
    /\ Does(r, "create")
    /\ IF CodeIsFree(0, request[r].code) /\ created < MaxCreated
       THEN /\ centre' = [centre EXCEPT ![NextId] =
                    [code |-> request[r].code, org |-> request[r].tenant, nth |-> created + 1]]
            /\ created' = created + 1
       ELSE UNCHANGED <<centre, created>>
    /\ UNCHANGED <<database, of, stood, blind>>

\* Whatever row has the id by now is updated.
Update(r) ==
    LET i == request[r].id IN
    /\ Does(r, "update")
    /\ centre' = IF Exists(i) /\ CodeIsFree(i, request[r].code)
                 THEN [centre EXCEPT ![i].code = request[r].code] ELSE centre
    /\ UNCHANGED <<database, created, of, stood, blind>>

\* Mutant of Detached: only the servers of the tenant are taken out.
BugDetached(s, r) == of[s] = request[r].id /\ Sees(request[r].tenant, Org[s])

\* The route empties the column for the servers it sees, the relationship for all the others.
Detached(s, r) == of[s] = request[r].id

\* A row that is gone by now is no error, and one that has its id now is deleted instead.
Delete(r) ==
    /\ Does(r, "delete")
    /\ centre' = [centre EXCEPT ![request[r].id] = None]
    /\ of' = [s \in Server |-> IF Detached(s, r) THEN 0 ELSE of[s]]
    /\ UNCHANGED <<database, created, stood, blind>>

\* PostgreSQL refuses an id that no row has.
MayStandIn(i) == database = "postgres" => i \in {0} \cup {j \in Id : Exists(j)}

Place(s, i, seen) ==
    /\ of' = [of EXCEPT ![s] = i]
    /\ stood' = [stood EXCEPT ![s] = Nth(i)]
    /\ blind' = IF seen THEN blind \ {s} ELSE blind \cup {s}

\* A column is written only if it differs from what was read.
Assign(r) ==
    LET i == request[r].id  s == request[r].server IN
    /\ Does(r, "assign")
    /\ IF request[r].read # i /\ MayStandIn(i)
       THEN Place(s, i, Nth(i) = request[r].nth)
       ELSE UNCHANGED <<of, stood, blind>>
    /\ UNCHANGED <<database, centre, created>>

Unassign(r) ==
    /\ Does(r, "unassign")
    /\ of' = [of EXCEPT ![request[r].server] = 0]
    /\ UNCHANGED <<database, centre, created, stood, blind>>

\* api_add_server and api_update_server take the id of a centre as it is sent.
PlaceUnseen(s, i) ==
    /\ MayStandIn(i) /\ of[s] # i
    /\ Place(s, i, FALSE)
    /\ UNCHANGED <<database, centre, created, request>>

Next ==
    \/ \E r \in Request, t \in Tenant :
        \/ \E c \in Code : BeginCreate(r, t, c) \/ \E i \in Id : BeginUpdate(r, t, i, c)
        \/ \E i \in Id : BeginDelete(r, t, i)
        \/ \E i \in Id, s \in Server : BeginAssign(r, t, i, s) \/ BeginUnassign(r, t, i, s)
    \/ \E r \in Request : Create(r) \/ Update(r) \/ Delete(r) \/ Assign(r) \/ Unassign(r)
    \/ \E s \in Server, i \in Id \cup {0} : PlaceUnseen(s, i)

Spec == Init /\ [][Next]_vars

-----------------------------------------------------------------------------
TypeOK ==
    /\ \A i \in Id : Exists(i) => centre[i] \in Row
    /\ created \in 0 .. MaxCreated
    /\ of \in [Server -> Id \cup {0}] /\ stood \in [Server -> 0 .. MaxCreated]
    /\ blind \subseteq Server
    /\ \A r \in Request : request[r].kind \in {"none", "create", "update", "delete", "assign", "unassign"}

(***************************************************************************)
(* A server that was placed in a centre stands in that very centre, which  *)
(* still exists, and not in one that was given its id: unless the centre   *)
(* was deleted while the request that placed it was under way, or the id   *)
(* was sent with the server itself.                                        *)
(***************************************************************************)
ServersStandWherePlaced ==
    \A s \in Server \ blind : of[s] # 0 => Exists(of[s]) /\ centre[of[s]].nth = stood[s]
=============================================================================
