--------------------------- MODULE NetworkDevices ---------------------------
(***************************************************************************)
(* The network devices of the panel: their rows and the routes that read   *)
(* them (routes/domain_network/network.py), and the SSH clients that       *)
(* NetworkDeviceManager keeps for them (network_manager.py).               *)
(*                                                                         *)
(* A request reads the row of its device once.  The manager looks at its   *)
(* clients with the lock and connects without it, so two requests may      *)
(* connect to a device at a time; the client that is registered first is   *)
(* forgotten by the second and stays open.  Editing a device leaves its    *)
(* client as it is.                                                        *)
(***************************************************************************)
EXTENDS Naturals, FiniteSets

CONSTANTS Device, Host, Client, Request, None

Absent == "absent"      \* there is no row, or none any more

ConstantsAssumption == None \notin Client /\ Absent \notin Host

VARIABLES
    row,        \* the host of each device, Absent if it has no row
    clients,    \* NetworkDeviceManager._clients
    link,       \* each client: "unused", "open", "dead", "closed"
    target,     \* the device and the host it was opened for
    request,    \* each request: kind, device, the host it has read, where it stands, its new client
    overtaken   \* history: see ConnectionsAreOwned

vars == <<row, clients, link, target, request, overtaken>>

Free == [kind |-> "none", dev |-> None, host |-> None, at |-> "idle", client |-> None]
NoTarget == [dev |-> None, host |-> None]

Init ==
    /\ row \in [Device -> Host \cup {Absent}]
    /\ clients = [d \in Device |-> None]
    /\ link = [c \in Client |-> "unused"] /\ target = [c \in Client |-> NoTarget]
    /\ request = [r \in Request |-> Free]
    /\ overtaken = {}

Goto(r, at) == request' = [request EXCEPT ![r].at = at]
Finish(r) == request' = [request EXCEPT ![r] = Free]

\* The requests that are on their way to a client of d.
Connecting(d) == {r \in Request : request[r].dev = d /\ request[r].at \in {"open", "register"}}
Deleting(d) == {r \in Request : request[r].dev = d /\ request[r].at = "forget"}

-----------------------------------------------------------------------------
(***************************************************************************)
(* The rows                                                                *)
(***************************************************************************)
\* Ids are random: a deleted one does not come back.
AddDevice(d, h) ==
    /\ row[d] = Absent /\ \A c \in Client : target[c].dev # d
    /\ \A r \in Request : request[r].dev # d
    /\ row' = [row EXCEPT ![d] = h]
    /\ UNCHANGED <<clients, link, target, request, overtaken>>

EditDevice(d, h) ==
    /\ row[d] # Absent
    /\ row' = [row EXCEPT ![d] = h]
    /\ UNCHANGED <<clients, link, target, request, overtaken>>

\* Every route but the one that disconnects begins with the row.
Begin(r, d, kind) ==
    /\ request[r] = Free /\ row[d] # Absent
    /\ request' = [request EXCEPT ![r] =
            [kind |-> kind, dev |-> d, host |-> row[d], client |-> None,
             at |-> CASE kind = "connect" -> "look" [] kind = "use" -> "check" [] kind = "delete" -> "disconnect"]]
    /\ UNCHANGED <<row, clients, link, target, overtaken>>

-----------------------------------------------------------------------------
(***************************************************************************)
(* NetworkDeviceManager                                                    *)
(***************************************************************************)
Active(d) == clients[d] # None /\ link[clients[d]] = "open"

\* What is registered for d is taken out and closed.
DropClient(d) ==
    /\ clients' = [clients EXCEPT ![d] = None]
    /\ link' = IF clients[d] = None THEN link ELSE [link EXCEPT ![clients[d]] = "closed"]

\* connect has nothing to do.
Usable(d) == Active(d)

\* is_connected, in execute_auto_connect
Check(r) ==
    /\ request[r].at = "check"
    /\ Goto(r, IF Active(request[r].dev) THEN "run" ELSE "look")
    /\ UNCHANGED <<row, clients, link, target, overtaken>>

\* The first critical section of connect: a dead client is forgotten, and not closed.
Look(r) ==
    LET d == request[r].dev IN
    /\ request[r].at = "look"
    /\ IF Usable(d)
       THEN /\ IF request[r].kind = "use" THEN Goto(r, "run") ELSE Finish(r)
            /\ UNCHANGED <<clients, overtaken>>
       ELSE /\ clients' = [clients EXCEPT ![d] = None]
            /\ Goto(r, "open")
            /\ overtaken' = IF Connecting(d) \cup Deleting(d) # {} \/ row[d] = Absent
                            THEN overtaken \cup {d} ELSE overtaken
    /\ UNCHANGED <<row, link, target>>

\* client.connect with what was read of the row, and the command that switches paging off.
Open(r) ==
    /\ request[r].at = "open"
    /\ \/ \E c \in Client :
            /\ link[c] = "unused"
            /\ link' = [link EXCEPT ![c] = "open"]
            /\ target' = [target EXCEPT ![c] = [dev |-> request[r].dev, host |-> request[r].host]]
            /\ request' = [request EXCEPT ![r].at = "register", ![r].client = c]
       \/ Finish(r) /\ UNCHANGED <<link, target>>
    /\ UNCHANGED <<row, clients, overtaken>>

\* The second critical section.
Register(r) ==
    /\ request[r].at = "register"
    /\ clients' = [clients EXCEPT ![request[r].dev] = request[r].client]
    /\ IF request[r].kind = "use" THEN request' = [request EXCEPT ![r].at = "run", ![r].client = None]
                                  ELSE Finish(r)
    /\ UNCHANGED <<row, link, target, overtaken>>

\* execute takes whatever client is registered by then; without one, or with a dead one, it fails.
Execute(r) ==
    /\ request[r].at = "run"
    /\ Finish(r)
    /\ UNCHANGED <<row, clients, link, target, overtaken>>

\* The route that disconnects looks at no row.
Disconnect(d) ==
    /\ clients[d] # None
    /\ DropClient(d)
    /\ UNCHANGED <<row, target, request, overtaken>>

\* Mutant of LetGo: the client of a deleted device stays registered.
BugLetGo(d) == UNCHANGED <<clients, link>>

LetGo(d) == DropClient(d)

\* api_delete_device disconnects ...
DeleteBegins(r) ==
    LET d == request[r].dev IN
    /\ request[r].at = "disconnect"
    /\ LetGo(d)
    /\ Goto(r, "forget")
    /\ overtaken' = IF Connecting(d) # {} THEN overtaken \cup {d} ELSE overtaken
    /\ UNCHANGED <<row, target>>

\* ... and then deletes the row.
DeleteEnds(r) ==
    /\ request[r].at = "forget"
    /\ row' = [row EXCEPT ![request[r].dev] = Absent]
    /\ Finish(r)
    /\ UNCHANGED <<clients, link, target, overtaken>>

\* The device, or the network, ends a connection.
Lose(c) ==
    /\ link[c] = "open"
    /\ link' = [link EXCEPT ![c] = "dead"]
    /\ UNCHANGED <<row, clients, target, request, overtaken>>

Next ==
    \/ \E d \in Device, h \in Host : AddDevice(d, h) \/ EditDevice(d, h)
    \/ \E r \in Request, d \in Device, kind \in {"connect", "use", "delete"} : Begin(r, d, kind)
    \/ \E r \in Request : Check(r) \/ Look(r) \/ Open(r) \/ Register(r) \/ Execute(r)
                          \/ DeleteBegins(r) \/ DeleteEnds(r)
    \/ \E d \in Device : Disconnect(d)
    \/ \E c \in Client : Lose(c)

Spec == Init /\ [][Next]_vars

-----------------------------------------------------------------------------
TypeOK ==
    /\ row \in [Device -> Host \cup {Absent}]
    /\ clients \in [Device -> Client \cup {None}]
    /\ link \in [Client -> {"unused", "open", "dead", "closed"}]
    /\ \A c \in Client : link[c] = "unused" <=> target[c] = NoTarget
    /\ \A r \in Request : request[r].at \in
        {"idle", "check", "look", "open", "register", "run", "disconnect", "forget"}
    /\ overtaken \subseteq Device

OpenFor(d) == {c \in Client : link[c] = "open" /\ target[c].dev = d}
Owned(d) == {clients[d]} \cup {request[r].client : r \in Connecting(d)}

(***************************************************************************)
(* Unless requests about it have overtaken each other (two connected at a  *)
(* time, or one while the device was being deleted), a device has at most  *)
(* one open client, which is registered or about to be, and none once its  *)
(* row is gone.                                                            *)
(***************************************************************************)
ConnectionsAreOwned ==
    \A d \in Device \ overtaken :
        /\ Cardinality(OpenFor(d)) <= 1
        /\ OpenFor(d) \subseteq Owned(d)
        /\ row[d] = Absent => OpenFor(d) = {}
=============================================================================
