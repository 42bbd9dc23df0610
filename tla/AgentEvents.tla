---------------------------- MODULE AgentEvents ----------------------------
(***************************************************************************)
(* The user events of the remote monitoring agent: what emare_agent.py     *)
(* collects before each heartbeat, and what the server keeps of it         *)
(* (_store_user_events in rmm.py).                                         *)
(*                                                                         *)
(* The agent reports differences to what it knew: the USB devices and the  *)
(* processes of the last look, the stamp of the last record it read.  It   *)
(* takes over what it sees before the heartbeat is sent, so what was in a  *)
(* lost heartbeat is not reported again.  A look that fails half way is    *)
(* taken for a complete one, and knowing nothing for the first look.  An   *)
(* agent that gives a heartbeat up does not know whether the server still  *)
(* works on it.                                                            *)
(***************************************************************************)
EXTENDS Naturals, FiniteSets

CONSTANTS
    Usb, Process,
    Width,          \* how many records one look reads: 20
    Most,           \* how many new processes one heartbeat reports: 50
    Every,          \* the inventory of software goes with every tenth heartbeat
    MaxRecords,     \* bound: how many records the machine writes
    MaxFaults,      \* bound: how many looks fail and heartbeats are given up
    MaxRestarts     \* bound: how often the agent is started again

ConstantsAssumption ==
    /\ {Width, Most, Every, MaxRecords, MaxRestarts} \subseteq Nat
    /\ Usb \cap Process = {}

VARIABLES
    windows,    \* the platform
    attached,   \* the machine: its USB devices
    running,    \* its processes
    log,        \* its records of sign-ins and file accesses, 1 .. log
    knownUsb, knownProcs, lastTs, counter,      \* the agent's memory
    batch,      \* the events of the heartbeat that is under way, NoBatch if there is none
    late,       \* those of a heartbeat that was given up and may still reach the server
    stored,     \* how often the server has stored each record, up to Often
    told,       \* what the server stored last of each device and process
    inventories,\* the inventories the server has stored, saturating
    lost, pushed, dirty,        \* history: see the properties
    faults, restarts

machine == <<windows, attached, running, log>>
memory  == <<knownUsb, knownProcs, lastTs, counter>>
server  == <<stored, told, inventories>>
history == <<lost, pushed, dirty>>
vars == <<machine, memory, batch, late, server, history, faults, restarts>>

NoBatch == [records |-> {}, connected |-> {}, disconnected |-> {}, started |-> {},
            software |-> FALSE, sent |-> FALSE]
Reports(b) == b.connected \cup b.disconnected

Init ==
    /\ windows \in BOOLEAN
    /\ attached \in SUBSET Usb /\ running = {} /\ log = 0
    /\ knownUsb = {} /\ knownProcs = {} /\ lastTs = 0 /\ counter = 0
    /\ batch = NoBatch /\ late = NoBatch
    /\ stored = [r \in 1 .. MaxRecords |-> 0]
    /\ told = [x \in Usb \cup Process |-> "nothing"]
    /\ inventories = 0
    /\ lost = {} /\ pushed = {} /\ dirty = {}
    /\ faults = 0 /\ restarts = 0

(***************************************************************************)
(* The machine                                                             *)
(***************************************************************************)
AgentRests == UNCHANGED <<memory, batch, late, server, history, faults, restarts>>

Plug(d) ==
    /\ attached' = IF d \in attached THEN attached \ {d} ELSE attached \cup {d}
    /\ UNCHANGED <<windows, running, log>> /\ AgentRests

Spawn(p) ==
    /\ running' = IF p \in running THEN running \ {p} ELSE running \cup {p}
    /\ UNCHANGED <<windows, attached, log>> /\ AgentRests

Write ==
    /\ log < MaxRecords
    /\ log' = log + 1
    /\ UNCHANGED <<windows, attached, running>> /\ AgentRests

(***************************************************************************)
(* collect_ueba_events                                                     *)
(***************************************************************************)
\* What a look at the devices sees: on Linux a failure comes after any of them.
SeenUsb(fails) == IF ~fails THEN {attached} ELSE IF windows THEN {{}} ELSE SUBSET attached
SeenProcs(fails) == IF fails THEN {} ELSE running

\* What is new and what is gone, unless nothing was known.
New(known, seen)  == IF known = {} THEN {} ELSE seen \ known

\* Mutant of Gone: a look that saw nothing reports no end.
BugGone(known, seen) == IF seen = {} THEN {} ELSE known \ seen

Gone(known, seen) == known \ seen

\* At most Most of the new processes are reported, in the order of a set.
Reported(new) ==
    IF Cardinality(new) <= Most THEN {new} ELSE {s \in SUBSET new : Cardinality(s) = Most}

InWindow == {r \in 1 .. log : r + Width > log}

\* On Linux every look reports the last records anew.
Fresh == {r \in InWindow : windows => r > lastTs}

Watermark(fails) == IF windows /\ ~fails /\ Fresh # {} THEN log ELSE lastTs

\* The list of installed software: an empty one, and one whose command failed, is not sent.
Inventory(fails) == counter = 0 /\ ~fails

Collect ==
    /\ batch = NoBatch
    /\ \E failing \in SUBSET {"usb", "processes", "records", "software"} :
        /\ faults + Cardinality(failing) <= MaxFaults
        /\ faults' = faults + Cardinality(failing)
        /\ \E seen \in SeenUsb("usb" \in failing) :
           LET procs == SeenProcs("processes" \in failing)
               blind == "records" \in failing IN
            \E started \in Reported(New(knownProcs, procs)) :
                /\ batch' = [records |-> IF blind THEN {} ELSE Fresh,
                             connected |-> New(knownUsb, seen), disconnected |-> Gone(knownUsb, seen),
                             started |-> started,
                             software |-> Inventory("software" \in failing), sent |-> TRUE]
                /\ knownUsb' = seen /\ knownProcs' = procs
                /\ lastTs' = Watermark(blind)
                /\ pushed' = IF blind THEN pushed ELSE pushed \cup {r \in 1 .. log : r > lastTs /\ r \notin InWindow}
    /\ counter' = (counter + 1) % Every
    /\ UNCHANGED <<machine, late, server, lost, dirty, restarts>>

(***************************************************************************)
(* _store_user_events: the events of one heartbeat are one transaction     *)
(***************************************************************************)
Often == MaxRestarts + 2     \* bound: more is not counted

Store(b) ==
    /\ stored' = [r \in DOMAIN stored |->
                    IF r \in b.records /\ stored[r] < Often THEN stored[r] + 1 ELSE stored[r]]
    /\ told' = [x \in DOMAIN told |->
                    IF x \in b.connected \cup b.started THEN "there"
                    ELSE IF x \in b.disconnected THEN "gone"
                    ELSE told[x]]
    /\ inventories' = IF b.software THEN 1 ELSE inventories

\* The server stores the events and the answer arrives in time.
Heartbeat ==
    /\ batch # NoBatch
    /\ Store(batch)
    /\ batch' = NoBatch
    /\ dirty' = (dirty \ Reports(batch)) \cup (Reports(batch) \cap Reports(late))
    /\ UNCHANGED <<machine, memory, late, lost, pushed, faults, restarts>>

\* No answer within 30 seconds, or an error: the next heartbeat starts from a new look.
GiveUp ==
    /\ batch # NoBatch /\ late = NoBatch /\ faults < MaxFaults
    /\ faults' = faults + 1
    /\ late' = batch /\ batch' = NoBatch
    /\ dirty' = dirty \cup Reports(batch)
    /\ UNCHANGED <<machine, memory, server, lost, pushed, restarts>>

\* The heartbeat that was given up is stored all the same ...
StoreLate ==
    /\ late # NoBatch
    /\ Store(late)
    /\ late' = NoBatch
    /\ UNCHANGED <<machine, memory, batch, history, faults, restarts>>

\* ... or has never reached the server.
LoseLate ==
    /\ late # NoBatch
    /\ late' = NoBatch
    /\ lost' = lost \cup late.records
    /\ UNCHANGED <<machine, memory, batch, server, pushed, dirty, faults, restarts>>

\* The agent is started again: its memory is that of the process.
Restart ==
    /\ restarts < MaxRestarts /\ late = NoBatch
    /\ restarts' = restarts + 1
    /\ knownUsb' = {} /\ knownProcs' = {} /\ lastTs' = 0 /\ counter' = 0
    /\ late' = batch /\ batch' = NoBatch
    /\ dirty' = Usb
    /\ UNCHANGED <<machine, server, lost, pushed, faults>>

Next ==
    \/ \E d \in Usb : Plug(d)
    \/ \E p \in Process : Spawn(p)
    \/ Write \/ Collect \/ Heartbeat \/ GiveUp \/ StoreLate \/ LoseLate \/ Restart

Spec == Init /\ [][Next]_vars

-----------------------------------------------------------------------------
TypeOK ==
    /\ attached \subseteq Usb /\ knownUsb \subseteq Usb /\ dirty \subseteq Usb
    /\ running \subseteq Process /\ knownProcs \subseteq Process
    /\ log \in 0 .. MaxRecords /\ lastTs \in 0 .. log /\ counter \in 0 .. Every - 1
    /\ \A b \in {batch, late} :
        /\ b.records \subseteq 1 .. log /\ b.started \subseteq Process
        /\ Reports(b) \subseteq Usb /\ b.connected \cap b.disconnected = {}
    /\ stored \in [1 .. MaxRecords -> 0 .. Often]
    /\ told \in [Usb \cup Process -> {"nothing", "there", "gone"}]
    /\ lost \subseteq 1 .. log /\ pushed \subseteq 1 .. log

(***************************************************************************)
(* Every record of a Windows machine that the agent has passed is stored,  *)
(* or was in a heartbeat that never reached the server or is under way, or *)
(* was followed by too many others before the next look; and it is stored  *)
(* at most once for each start of the agent, although heartbeats that were *)
(* given up are stored late.                                               *)
(***************************************************************************)
RecordsAreAccountedFor ==
    windows =>
        /\ \A r \in 1 .. lastTs :
            stored[r] > 0 \/ r \in lost \cup pushed \cup batch.records \cup late.records
        /\ \A r \in 1 .. log : stored[r] <= 1 + restarts

(***************************************************************************)
(* A device that the server was last told to be there is one that the      *)
(* agent still knows or whose end is in the heartbeat under way, unless a  *)
(* heartbeat about it was given up or the agent was started again.         *)
(***************************************************************************)
ToldIsKnown ==
    \A d \in Usb \ dirty : told[d] = "there" => d \in knownUsb \cup batch.disconnected

\* What the server has of a machine is what its agent has passed on.
EventsArePassedOn == RecordsAreAccountedFor /\ ToldIsKnown
=============================================================================
