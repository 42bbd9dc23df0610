------------------------------ MODULE MCPanel ------------------------------
(***************************************************************************)
(* Parts of the program that run on their own, each on an instance of its  *)
(* own size: the installation, the port registry, the deployment jobs and  *)
(* the failover monitor of the panel, the bulk jobs and the webhooks of    *)
(* the firewall service.  They share no state, so a behaviour is one of a single part   *)
(* and the others stay as they begin.                                      *)
(***************************************************************************)
EXTENDS PortRegistry, TLC

CONSTANTS
    Job, Dc1, Dc2, Run, d1, d2, d3, Hook, Alert,
    DnsRecord, Home, Threshold, MaxKills, MaxRefusals,
    Tries, Limit, MaxOps, MaxFaults, MaxStarts, MaxWrites

ASSUME PanelAssumption ==
    /\ Dc1 # Dc2 /\ Home \in [DnsRecord -> {Dc1, Dc2}]
    /\ {Threshold, MaxKills, MaxRefusals, Tries, Limit, MaxOps, MaxFaults, MaxStarts, MaxWrites} \subseteq Nat
    /\ Limit > 0

VARIABLES
    part,
    status, kind, request, marked, thread, outcome, kills,
    file, run, dns, up, streak, killedRuns, refusals,
    store, bulkRow, tally, ops, worker, hook, active, fails, peak, dispatch, faults,
    tables, columns, owner, password, settings, plans, orgs, subs, quotas, config, job,
    starts, writes, younger, migrated, deleted, saved, crossed

\* Two records are at home in one centre, the third one in the other.
MCHome == d1 :> Dc1 @@ d2 :> Dc1 @@ d3 :> Dc2

Deploy == INSTANCE DeployJobs

Failover == INSTANCE Failover WITH Record <- DnsRecord, kills <- killedRuns

Bulk == INSTANCE IspJobs WITH Hook <- {}, Alert <- {}, Job <- Run, thread <- worker, row <- bulkRow

Hooks == INSTANCE IspJobs WITH Job <- Run, MaxOps <- 0, thread <- worker, row <- bulkRow

Installed == INSTANCE Installation WITH Process <- Hook, file <- config

ASSUME InstallationAssumption == None \notin {"", "plain", "masked"} \cup Installed!Org

ASSUME FailoverAssumption == None \notin Failover!RunState

deployVars   == <<status, kind, request, marked, thread, outcome, kills>>
failoverVars == <<file, run, dns, up, streak, killedRuns, refusals>>
ispVars      == <<store, bulkRow, tally, ops, worker, hook, active, fails, peak, dispatch, faults>>
installVars  == <<tables, columns, owner, password, settings, plans, orgs, subs, quotas, config, job,
                  starts, writes, younger, migrated, deleted, saved, crossed>>
panelVars    == <<part, vars, deployVars, failoverVars, ispVars, installVars>>

PanelInit ==
    /\ part \in {"ports", "deploy", "failover", "bulk", "hooks", "installation"}
    /\ Init /\ Deploy!Init /\ Failover!Init /\ Installed!Init /\ (part # "installation" => tables)
    /\ IF part = "hooks" THEN Hooks!Init ELSE Bulk!Init
    /\ part \notin {"bulk", "hooks"} => store = "memory"

PanelNext ==
    /\ part' = part
    /\ \/ part = "ports" /\ Next /\ UNCHANGED <<deployVars, failoverVars, ispVars, installVars>>
       \/ part = "deploy" /\ Deploy!Next /\ UNCHANGED <<vars, failoverVars, ispVars, installVars>>
       \/ part = "failover" /\ Failover!Next /\ UNCHANGED <<vars, deployVars, ispVars, installVars>>
       \/ part = "bulk" /\ Bulk!Next /\ UNCHANGED <<vars, deployVars, failoverVars, installVars>>
       \/ part = "hooks" /\ Hooks!Next /\ UNCHANGED <<vars, deployVars, failoverVars, installVars>>
       \/ part = "installation" /\ Installed!Next /\ UNCHANGED <<vars, deployVars, failoverVars, ispVars>>

PanelSpec ==
    /\ PanelInit /\ [][PanelNext]_panelVars
    /\ \A j \in Job : WF_deployVars(part = "deploy" /\ Deploy!Advance(j))
    /\ \A r \in Run : WF_failoverVars(part = "failover" /\ Failover!RunStep(r))
    /\ \A j \in Run : WF_ispVars(part = "bulk" /\ Bulk!JobStep(j))

SuccessIsTrue        == Deploy!SuccessIsTrue
WebhookJobsEnd       == Deploy!WebhookJobsEnd
ThresholdIsRespected == Failover!ThresholdIsRespected
RecordsComeHome      == Failover!RecordsComeHome
ThreadsAreTold       == IF part = "hooks" THEN Hooks!ThreadsAreTold ELSE Bulk!ThreadsAreTold
BulkJobsEnd          == Bulk!BulkJobsEnd
InstallationIsWhole  == Installed!InstallationIsWhole
=============================================================================
