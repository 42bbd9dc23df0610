------------------------------- MODULE MCSSH --------------------------------
(***************************************************************************)
(* The three users of paramiko, a part each: the connection manager of the *)
(* panel, its manager of network devices, and the pool of the firewall     *)
(* library.  A behaviour is one of a single part, the others stay as they  *)
(* begin.                                                                  *)
(***************************************************************************)
EXTENDS SSHManager, TLC

CONSTANTS Thread, PoolSize, MaxConnects, MaxDisconnects, Device, Host

VARIABLES
    part,
    configured, currentPool, currentSem, idle, permits, clients, lock, pc, client, pools, sem,
    connects, disconnects,
    row, registered, link, target, request, overtaken

Library == INSTANCE SSHPool WITH state <- clients, pool <- pools

Network == INSTANCE NetworkDevices WITH Request <- Caller, clients <- registered

libraryVars == <<configured, currentPool, currentSem, idle, permits, clients, lock, pc, client,
                 pools, sem, connects, disconnects>>
deviceVars  == <<row, registered, link, target, request, overtaken>>

ASSUME PartsAssumption == Library!ConstantsAssumption /\ Network!ConstantsAssumption

SSHInit ==
    /\ part \in {"panel", "library", "devices"}
    /\ Init /\ Library!Init /\ Network!Init
    /\ part # "panel" => \A s \in Server : keyFile[s] = "missing"
    /\ part # "devices" => \A d \in Device : row[d] = Network!Absent

SSHNext ==
    /\ part' = part
    /\ \/ part = "panel" /\ Next /\ UNCHANGED <<libraryVars, deviceVars>>
       \/ part = "library" /\ Library!Next /\ UNCHANGED <<vars, deviceVars>>
       \/ part = "devices" /\ Network!Next /\ UNCHANGED <<vars, libraryVars>>

SSHSpec == SSHInit /\ [][SSHNext]_<<part, vars, libraryVars, deviceVars>>

Symmetry == Permutations(Caller) \cup Permutations(Client)

\* Whatever connects, disconnects and fails meanwhile: no client of the library is used twice,
\* its permits stay as many as its pools were made for, and the connections to a device are its
\* row's.
PoolIsSound ==
    /\ Library!ExclusiveUse
    /\ Library!PermitsBound
    /\ Network!ConnectionsAreOwned
=============================================================================
