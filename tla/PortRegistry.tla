---------------------------- MODULE PortRegistry ----------------------------
(***************************************************************************)
(* The central registry of ports (PortRegistry in models.py) behind the    *)
(* routes of routes/ports.py.                                              *)
(*                                                                         *)
(* A request chooses a port from what it reads of the table and inserts a  *)
(* row for it in a later statement; the requests of different workers run  *)
(* between the two.  A row is never deleted: its port is unique in the     *)
(* table, and releasing the port only changes the status of the row.       *)
(***************************************************************************)
EXTENDS Integers

CONSTANTS
    Request,        \* requests to allocate a port; each of them is made once
    Port,           \* the ports that are named anywhere
    PortMin,        \* PORT_MIN
    PortMax,        \* PORT_MAX
    Reserved,       \* RESERVED_PORTS
    SeedAllocated,  \* the ports of _SEED_DATA
    SeedReserved,   \* the ports of reserved_map
    None,           \* no port; no row
    System          \* the owner of the rows that seed() writes

ASSUME PortAssumption ==
    /\ PortMin \in Int /\ PortMax \in Int
    /\ PortMin .. PortMax \subseteq Port /\ Port \subseteq Int
    /\ SeedAllocated \cup SeedReserved \subseteq Port
    /\ None \notin Port
    /\ System \notin Request

Status == {"allocated", "reserved", "released"}
Record == [owner : Request \cup {System}, status : Status]

Entry(o, st) == [owner |-> o, status |-> st]

ASSUME NoneAssumption == None \notin Record

VARIABLES
    row,        \* the row of each port
    pc,         \* where each request stands
    choice,     \* the port a request is about to insert
    told        \* the port a request was answered with

vars == <<row, pc, choice, told>>

Init ==
    /\ row = [p \in Port |-> None]
    /\ pc = [r \in Request |-> "new"]
    /\ choice = [r \in Request |-> None]
    /\ told = [r \in Request |-> None]

InUse(p) == row[p] # None /\ row[p].status \in {"allocated", "reserved"}

\* The ports next_free_port chooses from.
Free == {p \in (PortMin .. PortMax) \ Reserved : ~InUse(p)}

IsNextFree(p) == p \in Free /\ \A q \in Free : p <= q

Choose(r, p) ==
    /\ pc[r] = "new"
    /\ pc' = [pc EXCEPT ![r] = "chosen"]
    /\ choice' = [choice EXCEPT ![r] = p]
    /\ UNCHANGED <<row, told>>

ChooseNext(r, p) == IsNextFree(p) /\ Choose(r, p)

\* Any port may be preferred, one out of the range too.
ChoosePreferred(r, p) == p \notin Reserved /\ ~InUse(p) /\ Choose(r, p)

\* No port is left, or the preferred one is taken: a ValueError, and status 409.
Refuse(r) ==
    /\ pc[r] = "new"
    /\ Free = {} \/ \E p \in Port : p \in Reserved \/ InUse(p)
    /\ pc' = [pc EXCEPT ![r] = "failed"]
    /\ UNCHANGED <<row, choice, told>>

\* Mutant of Insert: the port is not unique, the row is written over.
BugInsert(r) ==
    /\ pc[r] = "chosen"
    /\ row' = [row EXCEPT ![choice[r]] = Entry(r, "allocated")]
    /\ told' = [told EXCEPT ![r] = choice[r]]
    /\ pc' = [pc EXCEPT ![r] = "done"]
    /\ UNCHANGED choice

Insert(r) ==
    /\ pc[r] = "chosen" /\ row[choice[r]] = None
    /\ row' = [row EXCEPT ![choice[r]] = Entry(r, "allocated")]
    /\ told' = [told EXCEPT ![r] = choice[r]]
    /\ pc' = [pc EXCEPT ![r] = "done"]
    /\ UNCHANGED choice

\* The unique index refuses the row: an IntegrityError that allocate() does not catch.
InsertFails(r) ==
    /\ pc[r] = "chosen" /\ row[choice[r]] # None
    /\ pc' = [pc EXCEPT ![r] = "failed"]
    /\ UNCHANGED <<row, choice, told>>

Release(p) ==
    /\ row[p] # None /\ row[p].status # "reserved"
    /\ row' = [row EXCEPT ![p] = Entry(row[p].owner, "released")]
    /\ UNCHANGED <<pc, choice, told>>

\* One transaction adds the known rows that are missing.  When a request has added one
\* of them since it was looked for, nothing is added.
Seed ==
    /\ row' = [p \in Port |->
                 IF row[p] # None THEN row[p]
                 ELSE IF p \in SeedAllocated THEN Entry(System, "allocated")
                 ELSE IF p \in SeedReserved THEN Entry(System, "reserved")
                 ELSE None]
    /\ UNCHANGED <<pc, choice, told>>

RequestStep(r) ==
    \/ \E p \in Port : ChooseNext(r, p) \/ ChoosePreferred(r, p)
    \/ Refuse(r) \/ Insert(r) \/ InsertFails(r)

Next ==
    \/ \E r \in Request : RequestStep(r)
    \/ \E p \in Port : Release(p)
    \/ Seed

Spec == Init /\ [][Next]_vars

-----------------------------------------------------------------------------
TypeOK ==
    /\ row \in [Port -> Record \cup {None}]
    /\ pc \in [Request -> {"new", "chosen", "done", "failed"}]
    /\ choice \in [Request -> Port \cup {None}]
    /\ told \in [Request -> Port \cup {None}]

\* The port a project was told is its own in the registry from then on, however
\* requests interleave, and after it was released too: no other project is ever
\* told the same port, and seed() does not take it over.
GrantedIsOwned ==
    \A r \in Request : told[r] # None =>
        row[told[r]] # None /\ row[told[r]].owner = r

\* No project is told one of the reserved ports, neither by choice nor by preference.
ReservedIsNotGranted ==
    \A r \in Request : told[r] # None => told[r] \notin Reserved

\* What requests are told holds against other requests, releases and the seed: both of the above.
GrantsAreSound == GrantedIsOwned /\ ReservedIsNotGranted

\* What a request that has chosen a port relies on.
ChosenIsGood ==
    \A r \in Request : pc[r] = "chosen" => choice[r] \in Port \ Reserved

IInv == TypeOK /\ GrantedIsOwned /\ ReservedIsNotGranted /\ ChosenIsGood

\* "Kullanilmayan en kucuk portu dondurur" (models.py:1255): the port next_free_port
\* returns can be allocated, as long as no other request gets in between.
NextFreeCanBeAllocated ==
    \A p \in Port : IsNextFree(p) => row[p] = None
=============================================================================
