---------------------------- MODULE MCScheduler ----------------------------
(***************************************************************************)
(* The background scheduler, in units of five seconds and with the         *)
(* constants of the code, and, on its own, the pass over the alert rules   *)
(* that its alert job makes: one of the rules watches every server, the    *)
(* other one of them only.  A behaviour is one of a single part.           *)
(***************************************************************************)
EXTENDS Scheduler

CONSTANTS
    t1, t2, b1, Long, Rule, Server, everywhere, s1,
    ServerId, Cooldown, AlertHorizon, AlertPasses, AlertKills

ASSUME AlertAssumption ==
    /\ None \notin Nat
    /\ ServerId \in [Rule -> Server \cup {None}] /\ Cooldown \in [Rule -> Nat]
    /\ AlertKills \in Nat

VARIABLES
    part,
    alertClock, rules, lastTriggered, cached, rest, rule, targets, alarm, place, pass,
    recorded, sent, kills

MCMinute == 12
MCStart == 65
MCInterval == [metric |-> 60, alert |-> 24, backup |-> 12, task |-> 12]

\* t1 matches in every minute, t2 and b1 in one each.
MCMinutes == [r \in Row |-> CASE r = t2 -> {6} [] r = b1 -> {8} [] OTHER -> 0 .. 100]

\* One of the tasks and the two jobs that talk to every server may take their time.
MCWork == [x \in Job \cup Row |-> IF x \in {"alert", "metric", t1} THEN {0, Long} ELSE {0}]

ServerOf == [r \in Rule |-> IF r = everywhere THEN None ELSE s1]
CooldownOf == [r \in Rule |-> IF r = everywhere THEN 2 ELSE 1]

Alert == INSTANCE Alerts WITH
    Horizon <- AlertHorizon, Passes <- AlertPasses, Crashes <- AlertKills,
    clock <- alertClock, todo <- rest, at <- place, crashes <- kills, history <- recorded

alertVars == <<alertClock, rules, lastTriggered, cached, rest, rule, targets, alarm, place,
               pass, recorded, sent, kills>>

PartsInit == part \in {"scheduler", "alerts"} /\ Init /\ Alert!Init

PartsNext ==
    /\ part' = part
    /\ \/ part = "scheduler" /\ Next /\ UNCHANGED alertVars
       \/ part = "alerts" /\ Alert!Next /\ UNCHANGED vars

PartsSpec == PartsInit /\ [][PartsNext]_<<part, vars, alertVars>>

\* The state of a part that does not run is that of an initial state, where the part may run.
AlertsAreKept == part = "alerts" => Alert!AlertsAreKept
=============================================================================
