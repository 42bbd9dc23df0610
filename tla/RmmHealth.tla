----------------------------- MODULE RmmHealth -----------------------------
(***************************************************************************)
(* What the server of the remote monitoring does with a heartbeat          *)
(* (emarefirewall/rmm.py): it stores the values, raises an alarm when they *)
(* pass a threshold, and evaluates the correlation rules over what was     *)
(* stored and raised; and what operators do meanwhile to alarms, rules and *)
(* the device.                                                             *)
(*                                                                         *)
(* One process, one device, one metric.  Each step is a section under the  *)
(* lock of the store, in which the database changes in one transaction.    *)
(* The heartbeats of a device overlap when the agent has given one up.     *)
(* Values below the thresholds leave nothing that is looked at here, nor   *)
(* does what is only written or shown: risk scores, status and tickets (an *)
(* alarm's ticket is in its transaction).  The tasks are in RmmTasks.      *)
(***************************************************************************)
EXTENDS Integers, FiniteSets

CONSTANTS
    Worker,     \* threads that serve requests
    Rule,       \* correlation rules, "threshold" or "frequency"
    Least,      \* count: how many matches make an event
    Window,     \* window_minutes
    Cooldown,   \* values of cooldown_minutes
    Horizon,    \* bound: the time at which the exploration ends
    MaxBeats,   \* bound: heartbeats
    MaxCalls,   \* bound: requests of operators that change something
    None

ConstantsAssumption == Cooldown \subseteq Nat /\ Window \in Nat

VARIABLES
    clock,
    device,     \* its label: "none" or "given"; None when there is no such device
    metrics,    \* its critical values: when they were sent
    config,     \* alert_config
    alarms,
    on,         \* the rules that are enabled
    rules,      \* the rules there are
    events,     \* correlation_events
    op,         \* the request of each worker
    beats, calls,
    overlapped  \* two heartbeats were being served at a time

vars == <<clock, device, metrics, config, alarms, on, rules, events, op, beats, calls, overlapped>>
database == <<device, metrics, config, alarms, on, rules, events>>
outside == <<clock, beats, calls, overlapped>>

Init ==
    /\ clock = 0
    /\ device = "none"
    /\ metrics = {} /\ alarms = {} /\ events = {}
    /\ config \in [enabled : {TRUE}, cooldown : Cooldown]
    /\ rules \in SUBSET Rule /\ on = rules
    /\ op = [w \in Worker |-> None]
    /\ beats = 0 /\ calls = 0 /\ overlapped = FALSE

-----------------------------------------------------------------------------
Idle(w) == op[w] = None
At(w, place) == op[w] # None /\ op[w].at = place
Become(w, r) == op' = [op EXCEPT ![w] = r]
Goto(w, place) == Become(w, [op[w] EXCEPT !.at = place])
End(w) == Become(w, None)

\* Tells the rows of one time apart, as their number in the table does.
Nth(rows, time) == Cardinality({x \in rows : x.at = time})

\* A heartbeat of a device that is known, dated before the lock is taken.
Heartbeat(w, level) ==
    /\ Idle(w) /\ device # None
    /\ beats < MaxBeats /\ beats' = beats + 1
    /\ Become(w, [at |-> "record", level |-> level, now |-> clock, since |-> 0,
                  todo |-> {}, rule |-> None])
    /\ overlapped' = (overlapped \/ \E v \in Worker : op[v] # None /\ op[v].at # "label")
    /\ UNCHANGED <<clock, database, calls>>

\* heartbeat: what the agent sends takes the place of what was in extra, the label included.
Record(w) ==
    /\ At(w, "record")
    /\ device' = IF device = None THEN None ELSE "none"
    /\ metrics' = IF op[w].level = "critical" THEN metrics \cup {[at |-> op[w].now, nth |-> Nth(metrics, op[w].now)]}
                  ELSE metrics
    /\ Goto(w, "configure")
    /\ UNCHANGED <<outside, config, alarms, on, rules, events>>

\* _check_thresholds reads the configuration, and from when an alarm counts as recent.
Configure(w) ==
    /\ At(w, "configure")
    /\ Become(w, [op[w] EXCEPT !.at = IF config.enabled THEN "check" ELSE "rules",
                               !.since = clock - config.cooldown])
    /\ UNCHANGED <<outside, database>>

\* Mutant of Recent: an alarm of another severity does not count.
BugRecent(level, since) == {a \in alarms : a.at > since /\ ~a.acknowledged /\ a.level = level}

Recent(level, since) == {a \in alarms : a.at > since /\ ~a.acknowledged}

\* The alarm, unless there is a recent one, whatever its severity.
CheckThresholds(w) ==
    /\ At(w, "check")
    /\ alarms' = IF Recent(op[w].level, op[w].since) # {} THEN alarms
                 ELSE alarms \cup {[at |-> clock, nth |-> Nth(alarms, clock), level |-> op[w].level, acknowledged |-> FALSE]}
    /\ Goto(w, "rules")
    /\ UNCHANGED <<outside, device, metrics, config, on, rules, events>>

\* evaluate_correlation_rules: the rules that are left, or the end of the heartbeat.
GoOn(w, todo) ==
    IF todo = {} THEN End(w) ELSE Become(w, [op[w] EXCEPT !.at = "count", !.todo = todo])

ListRules(w) ==
    /\ At(w, "rules")
    /\ GoOn(w, on)
    /\ UNCHANGED <<outside, database>>

\* Alarms count whether they are acknowledged or not.
Matches(r, since) ==
    IF r = "frequency" THEN {a \in alarms : a.at > since} ELSE {m \in metrics : m.at > since}

CountMatches(w, r) ==
    /\ At(w, "count") /\ r \in op[w].todo
    /\ LET since == clock - Window
       IN  IF Cardinality(Matches(r, since)) < Least
           THEN GoOn(w, op[w].todo \ {r})
           ELSE Become(w, [op[w] EXCEPT !.at = "duplicate", !.todo = @ \ {r}, !.rule = r, !.since = since])
    /\ UNCHANGED <<outside, database>>

Duplicate(r, since) == \E e \in events : e.rule = r /\ e.at > since

LookForDuplicate(w) ==
    /\ At(w, "duplicate")
    /\ IF Duplicate(op[w].rule, op[w].since) THEN GoOn(w, op[w].todo) ELSE Goto(w, "create")
    /\ UNCHANGED <<outside, database>>

CreateEvent(w) ==
    /\ At(w, "create")
    /\ events' = events \cup {[rule |-> op[w].rule, at |-> clock, by |-> w]}
    /\ GoOn(w, op[w].todo)
    /\ UNCHANGED <<outside, device, metrics, config, alarms, on, rules>>

-----------------------------------------------------------------------------
Call == calls < MaxCalls /\ calls' = calls + 1 /\ UNCHANGED <<clock, beats, overlapped>>

Acknowledge(a) ==
    /\ Call /\ ~a.acknowledged
    /\ alarms' = (alarms \ {a}) \cup {[a EXCEPT !.acknowledged = TRUE]}
    /\ UNCHANGED <<device, metrics, config, on, rules, events, op>>

SaveConfig(c) ==
    /\ Call /\ c # config
    /\ config' = c
    /\ UNCHANGED <<device, metrics, alarms, on, rules, events, op>>

ToggleRule(r) ==
    /\ Call /\ r \in rules
    /\ on' = IF r \in on THEN on \ {r} ELSE on \cup {r}
    /\ UNCHANGED <<device, metrics, config, alarms, rules, events, op>>

DeleteRule(r) ==
    /\ Call /\ r \in rules
    /\ rules' = rules \ {r} /\ on' = on \ {r}
    /\ events' = {e \in events : e.rule # r}
    /\ UNCHANGED <<device, metrics, config, alarms, op>>

\* What refers to the device stays, its values excepted.
RemoveDevice ==
    /\ Call /\ device # None
    /\ device' = None /\ metrics' = {}
    /\ UNCHANGED <<config, alarms, on, rules, events, op>>

\* update_device reads the row, and writes what it has made of it.
BeginLabel(w) ==
    /\ Idle(w) /\ Call /\ device # None
    /\ Become(w, [at |-> "label"])
    /\ UNCHANGED database

WriteLabel(w) ==
    /\ At(w, "label")
    /\ device' = IF device = None THEN None ELSE "given"
    /\ End(w)
    /\ UNCHANGED <<outside, metrics, config, alarms, on, rules, events>>

-----------------------------------------------------------------------------
Tick ==
    /\ clock < Horizon
    /\ clock' = clock + 1
    /\ UNCHANGED <<database, op, beats, calls, overlapped>>

Serve(w) ==
    \/ Record(w) \/ Configure(w) \/ CheckThresholds(w)
    \/ ListRules(w) \/ (\E r \in Rule : CountMatches(w, r))
    \/ LookForDuplicate(w) \/ CreateEvent(w) \/ WriteLabel(w)

Next ==
    \/ Tick
    \/ \E w \in Worker :
         (\E level \in {"warning", "critical"} : Heartbeat(w, level)) \/ BeginLabel(w) \/ Serve(w)
    \/ \E a \in alarms : Acknowledge(a)
    \/ \E c \in [enabled : BOOLEAN, cooldown : Cooldown] : SaveConfig(c)
    \/ \E r \in Rule : ToggleRule(r) \/ DeleteRule(r)
    \/ RemoveDevice

Spec == Init /\ [][Next]_vars

-----------------------------------------------------------------------------
\* Within less than n of one another.
Close(s, t, n) == s - t < n /\ t - s < n

Shortest == CHOOSE c \in Cooldown : \A d \in Cooldown : c <= d

\* However heartbeats overlap, and whatever is acknowledged or configured meanwhile, nobody has
\* two open alarms of one metric from within a cooldown, be they of one severity or of two.
AlarmsAreSpaced ==
    \A a, b \in {x \in alarms : ~x.acknowledged} : a # b => ~Close(a.at, b.at, Shortest)

\* As long as the heartbeats of the device do not overlap, a rule is reported once in its window.
EventsAreSpaced ==
    ~overlapped => \A e, f \in events : e # f /\ e.rule = f.rule => ~Close(e.at, f.at, Window)

\* What one device reports again and again is shown once in a while.
ReportsAreSpaced == AlarmsAreSpaced /\ EventsAreSpaced

\* "Duplicate check - same rule+device within window" (rmm.py:1137), of heartbeats that overlap.
RuleReportsOnce ==
    \A e, f \in events : e # f /\ e.rule = f.rule => ~Close(e.at, f.at, Window)

\* "Cihaz sahiplik/etiket bilgisini gunceller" (rmm.py:888): a label stays until the device goes.
LabelIsKept == [][device = "given" => device' \in {"given", None}]_vars

\* "Esik kontrolu - gerekirse alarm olusturur" (rmm.py:716): a critical value has a critical alarm.
CriticalIsRaised ==
    [][\A w \in Worker : At(w, "check") /\ op[w].level = "critical" /\ ~At(w, "check")'
         => \E a \in alarms' : a.level = "critical"]_vars
=============================================================================
