-------------------------------- MODULE MCRmm --------------------------------
(***************************************************************************)
(* The remote monitoring agent and its server, in parts: the queue of      *)
(* tasks, and the events that the agent collects, once those of devices,   *)
(* once those of processes and once those of records.  They share no       *)
(* state, so a behaviour is one of a single part and the others stay as    *)
(* they begin.                                                             *)
(***************************************************************************)
EXTENDS RmmTasks

CONSTANTS Usb, Process, Width, Most, Every, MaxRecords, MaxMisses, MaxRestarts, ProcessMisses

VARIABLES
    part,
    windows, attached, running, log, knownUsb, knownProcs, lastTs, counter, batch, late,
    stored, told, inventories, lost, pushed, dirty, misses, restarts

Events == INSTANCE AgentEvents WITH MaxFaults <- MaxMisses, faults <- misses

eventVars == <<windows, attached, running, log, knownUsb, knownProcs, lastTs, counter, batch, late,
               stored, told, inventories, lost, pushed, dirty, misses, restarts>>
rmmVars == <<part, vars, eventVars>>

ASSUME PartsAssumption == Events!ConstantsAssumption

RmmInit ==
    /\ part \in {"tasks", "devices", "processes", "records"}
    /\ Init /\ Events!Init
    /\ part # "devices" => attached = {}
    /\ part = "tasks" => windows

\* The events of one part are those of one thing.
RmmNext ==
    \/ part = "tasks" /\ Next /\ UNCHANGED <<part, eventVars>>
    \/ /\ part # "tasks" /\ Events!Next
       /\ \/ part = "devices" /\ UNCHANGED <<running, log>>
          \/ part = "processes" /\ UNCHANGED <<attached, log>> /\ misses' <= ProcessMisses
          \/ part = "records" /\ UNCHANGED <<attached, running>>
       /\ UNCHANGED <<part, vars>>

RmmSpec ==
    /\ RmmInit /\ [][RmmNext]_rmmVars
    /\ WF_vars(part = "tasks" /\ AgentStep)
    /\ WF_vars(part = "tasks" /\ GreetFails /\ key \notin devices)
    /\ \A w \in Worker : WF_vars(part = "tasks" /\ WorkerStep(w))
    /\ WF_vars(part = "tasks" /\ \E r \in results : Complete(r))

EventsArePassedOn == Events!EventsArePassedOn
=============================================================================
