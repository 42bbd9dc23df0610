------------------------------- MODULE Alerts -------------------------------
(***************************************************************************)
(* The alert check of alert_manager.py, run by the scheduler: one pass     *)
(* over the active rules, and for each of them over the servers it is      *)
(* about.  An alert is sent to the webhook of the rule first and recorded  *)
(* afterwards, in one commit with last_triggered, from which the cooldown  *)
(* of the rule counts.                                                     *)
(*                                                                         *)
(* A commit expires every object of the session: the next use of a rule    *)
(* reads its row again, and fails when the row has been deleted since; the *)
(* failure ends the pass.  Time passes at every step, as each of them but  *)
(* the first ones waits for a server or a webhook.                         *)
(***************************************************************************)
EXTENDS Naturals, FiniteSets

CONSTANTS
    Rule, Server, None,
    ServerId,   \* server_id of each rule: None when it is about all servers
    Cooldown,   \* cooldown_minutes of each rule
    Horizon,    \* bound: the time at which the exploration ends
    Passes,     \* bound: how many passes are made
    Crashes     \* bound: how often the process is killed

VARIABLES
    clock,
    rules,          \* the rows of alert_rules
    lastTriggered,  \* their last_triggered, as committed
    cached,         \* the rules whose attributes the session holds
    todo,           \* the rules the pass has yet to come to
    rule,           \* the rule in hand, None between rules
    targets,        \* its servers that the pass has yet to come to
    alarm,          \* the alert that is not committed yet, None if there is none
    at,             \* where the pass stands
    pass,           \* how many passes have begun
    history,        \* the rows of alert_history
    sent,           \* the notifications the webhooks received
    crashes

vars == <<clock, rules, lastTriggered, cached, todo, rule, targets, alarm, at, pass,
          history, sent, crashes>>
db == <<rules, lastTriggered, history>>
outside == <<clock, sent, crashes>>

Init ==
    /\ clock = 0
    /\ rules = Rule
    /\ lastTriggered = [r \in Rule |-> None]
    /\ cached = {} /\ todo = {} /\ targets = {}
    /\ rule = None /\ alarm = None
    /\ at = "idle"
    /\ pass = 0
    /\ history = {} /\ sent = {}
    /\ crashes = 0

Tick ==
    /\ clock < Horizon
    /\ clock' = clock + 1
    /\ UNCHANGED <<db, cached, todo, rule, targets, alarm, at, pass, sent, crashes>>

(***************************************************************************)
(* check_alert_rules                                                       *)
(***************************************************************************)
BeginPass ==
    /\ at = "idle" /\ rules # {} /\ pass < Passes
    /\ at' = "rules"
    /\ pass' = pass + 1
    /\ todo' = rules /\ cached' = rules
    /\ UNCHANGED <<db, rule, targets, alarm, outside>>

\* An attribute of the rule is read, from the session or from its row.
Readable(r) == r \in cached \cup rules
Read(r) == Readable(r) /\ cached' = cached \cup {r}

\* Mutant of CoolsDown: the rule never cools down.
BugCoolsDown(r) == FALSE

CoolsDown(r) == lastTriggered[r] # None /\ clock < lastTriggered[r] + Cooldown[r]

SkipRule(r) ==
    /\ at = "rules" /\ r \in todo /\ Read(r) /\ CoolsDown(r)
    /\ todo' = todo \ {r}
    /\ UNCHANGED <<db, rule, targets, alarm, at, pass, outside>>

TargetIds(r) == IF ServerId[r] = None THEN Server ELSE {ServerId[r]}

BeginRule(r) ==
    /\ at = "rules" /\ r \in todo /\ Read(r) /\ ~CoolsDown(r)
    /\ at' = "servers"
    /\ todo' = todo \ {r}
    /\ rule' = r
    /\ targets' = TargetIds(r)
    /\ UNCHANGED <<db, alarm, pass, outside>>

\* The server is not connected, or gives no metrics.
SkipServer(s) ==
    /\ at = "servers" /\ s \in targets
    /\ targets' = targets \ {s}
    /\ UNCHANGED <<db, cached, todo, rule, alarm, at, pass, outside>>

\* The metric does not meet the condition.
QuietServer(s) ==
    /\ at = "servers" /\ s \in targets /\ Read(rule)
    /\ targets' = targets \ {s}
    /\ UNCHANGED <<db, todo, rule, alarm, at, pass, outside>>

\* The metric meets the condition, and the webhook is called.  It may have received what is reported as not delivered.
Notify(s) ==
    /\ at = "servers" /\ s \in targets /\ Read(rule)
    /\ at' = "committing"
    /\ targets' = targets \ {s}
    /\ \E delivered, notified \in BOOLEAN :
        /\ notified => delivered
        /\ alarm' = [rule |-> rule, server |-> s, pass |-> pass, notified |-> notified]
        /\ sent' = IF delivered THEN sent \cup {[rule |-> rule, server |-> s, pass |-> pass]} ELSE sent
    /\ UNCHANGED <<db, todo, rule, pass, clock, crashes>>

EndRule ==
    /\ at = "servers" /\ targets = {}
    /\ at' = "rules" /\ rule' = None
    /\ UNCHANGED <<db, cached, todo, targets, alarm, pass, outside>>

ForgetPass ==
    /\ at' = "idle"
    /\ cached' = {} /\ todo' = {} /\ targets' = {}
    /\ rule' = None /\ alarm' = None

Row(a, t) ==
    [rule |-> a.rule, server |-> a.server, pass |-> a.pass, notified |-> a.notified, at |-> t]

\* The alert and last_triggered become one transaction.
Commit ==
    /\ at = "committing" /\ rule \in rules
    /\ at' = "servers" /\ alarm' = None
    /\ history' = history \cup {Row(alarm, clock)}
    /\ lastTriggered' = [lastTriggered EXCEPT ![rule] = clock]
    /\ cached' = {}
    /\ UNCHANGED <<rules, todo, rule, targets, pass, outside>>

\* The row of the rule in hand, or of the next one, is gone: the exception leaves
\* check_alert_rules and takes what is not committed with it.
Abort ==
    /\ \/ at = "committing" /\ rule \notin rules
       \/ at = "servers" /\ targets # {} /\ ~Readable(rule)
       \/ at = "rules" /\ \E r \in todo : ~Readable(r)
    /\ ForgetPass
    /\ UNCHANGED <<db, pass, outside>>

EndPass ==
    /\ at = "rules" /\ todo = {}
    /\ ForgetPass
    /\ UNCHANGED <<db, pass, outside>>

(***************************************************************************)
(* delete_alert_rule, and the end of the process                           *)
(***************************************************************************)
DeleteRule(r) ==
    /\ r \in rules
    /\ rules' = rules \ {r}
    /\ UNCHANGED <<lastTriggered, history, cached, todo, rule, targets, alarm, at, pass, outside>>

Crash ==
    /\ crashes < Crashes
    /\ crashes' = crashes + 1
    /\ ForgetPass
    /\ UNCHANGED <<db, pass, clock, sent>>

PassStep ==
    \/ BeginPass \/ EndRule \/ Commit \/ Abort \/ EndPass
    \/ \E r \in Rule : SkipRule(r) \/ BeginRule(r)
    \/ \E s \in Server : SkipServer(s) \/ QuietServer(s) \/ Notify(s)

Next == Tick \/ PassStep \/ Crash \/ \E r \in Rule : DeleteRule(r)

Spec == Init /\ [][Next]_vars

-----------------------------------------------------------------------------
Alarm == [rule : Rule, server : Server, pass : Nat, notified : BOOLEAN]

TypeOK ==
    /\ clock \in Nat
    /\ rules \subseteq Rule
    /\ lastTriggered \in [Rule -> Nat \cup {None}]
    /\ cached \subseteq Rule /\ todo \subseteq Rule /\ targets \subseteq Server
    /\ rule \in Rule \cup {None}
    /\ alarm \in Alarm \cup {None}
    /\ at \in {"idle", "rules", "servers", "committing"}
    /\ pass \in Nat
    /\ history \subseteq [rule : Rule, server : Server, pass : Nat, notified : BOOLEAN, at : Nat]
    /\ sent \subseteq [rule : Rule, server : Server, pass : Nat]
    /\ crashes \in 0 .. Crashes

\* Two alerts of a rule that different passes recorded are at least its cooldown apart:
\* last_triggered is that of the latest of them, whatever server it was about.
AlertsAreSpaced ==
    \A g, h \in history :
        g.rule = h.rule /\ g.pass < h.pass => h.at >= g.at + Cooldown[h.rule]

\* A notification that went out is in the history, or its alert is being committed,
\* unless the process was killed or the rule deleted in between.
DeliveredIsRecorded ==
    \A n \in sent :
        \/ \E h \in history : h.rule = n.rule /\ h.server = n.server /\ h.pass = n.pass
        \/ at = "committing" /\ alarm.rule = n.rule /\ alarm.server = n.server
        \/ crashes > 0 \/ n.rule \notin rules

\* Alerts are spaced and none is told without being kept.
AlertsAreKept == AlertsAreSpaced /\ DeliveredIsRecorded
=============================================================================
