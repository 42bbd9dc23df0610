------------------------------ MODULE Failover ------------------------------
(***************************************************************************)
(* The failover monitor (failover_monitor.py), a script that cron starts   *)
(* every two minutes: it loads its state file, checks each data centre,    *)
(* moves the DNS records of a centre that is down to the other one and     *)
(* those of a centre that is back home, and saves its state at the end.    *)
(*                                                                         *)
(* A run can take longer than the two minutes (eight timeouts), so runs    *)
(* overlap.  The records of a centre are updated one after the other.      *)
(***************************************************************************)
EXTENDS Integers, Sequences

CONSTANTS
    Dc1, Dc2,
    Record,         \* the DNS records, those of DC1_RECORDS and DC2_RECORDS
    Home,           \* the centre a record belongs to
    Run,            \* runs of the script that may be under way at a time
    Threshold,      \* THRESHOLD
    MaxKills, MaxRefusals,  \* bounds: killed runs, updates that fail
    None            \* no run under way

Centre == <<Dc1, Dc2>>
Sites == {Dc1, Dc2}

VARIABLES
    file,       \* the state file: failures and active centre of each centre; None when empty
    run,        \* each run: its copy of the state, the centre it has come to, the
                \* updates it still has to make, and where they point
    dns,        \* the centre each record points to
    up,         \* whether each centre answers
    streak,     \* the checks of each centre that failed since one succeeded
    kills, refusals

vars == <<file, run, dns, up, streak, kills, refusals>>

Init ==
    /\ file = [c \in Sites |-> [fails |-> 0, active |-> c]]
    /\ run = [r \in Run |-> None]
    /\ dns = Home
    /\ up = [c \in Sites |-> TRUE] /\ streak = [c \in Sites |-> 0]
    /\ kills = 0 /\ refusals = 0

Other(c) == IF c = Dc1 THEN Dc2 ELSE Dc1

Busy(r) == run[r] # None
Site(r) == Centre[run[r].at]
State(r) == run[r].state[Site(r)]

Load(r) ==
    /\ ~Busy(r) /\ file # None
    /\ run' = [run EXCEPT ![r] = [state |-> file, at |-> 1, todo |-> {}, target |-> Dc1]]
    /\ UNCHANGED <<file, dns, up, streak, kills, refusals>>

\* The run goes on with the next centre, with a new state of this one and the updates it
\* asks for.  (Failures beyond the threshold are all alike.)
Decide(r, st, records, target) ==
    run' = [run EXCEPT ![r].state[Site(r)] = st, ![r].at = @ + 1,
                       ![r].todo = records, ![r].target = target]

\* Mutant of FailsNow: the failures are not counted one by one.
BugFailsNow(r) == IF State(r).fails = 0 THEN 1 ELSE Threshold

FailsNow(r) == IF State(r).fails < Threshold THEN State(r).fails + 1 ELSE Threshold

\* check_health: port 80 accepts, and what answers there, if anything, is below 500
Healthy(c) == up[c]

Idle(r) == Busy(r) /\ run[r].todo = {}

RecordsOf(c) == {d \in Record : Home[d] = c}

CheckUp(r) ==
    /\ Idle(r) /\ run[r].at <= 2 /\ Healthy(Site(r))
    /\ LET c == Site(r)
       IN  /\ Decide(r, [fails |-> 0, active |-> c],
                     IF State(r).active = c THEN {} ELSE RecordsOf(c), c)
           /\ streak' = [streak EXCEPT ![c] = 0]
    /\ UNCHANGED <<file, dns, up, kills, refusals>>

CheckDown(r) ==
    /\ Idle(r) /\ run[r].at <= 2 /\ ~Healthy(Site(r))
    /\ LET c == Site(r)
           moves == FailsNow(r) >= Threshold /\ State(r).active = c
       IN  /\ Decide(r, [fails |-> FailsNow(r), active |-> IF moves THEN Other(c) ELSE State(r).active],
                     IF moves THEN RecordsOf(c) ELSE {}, Other(c))
           /\ streak' = [streak EXCEPT ![c] = IF @ < Threshold THEN @ + 1 ELSE @]
    /\ UNCHANGED <<file, dns, up, kills, refusals>>

\* update_dns: what the service refuses is logged.
Update(r, d, accepted) ==
    /\ Busy(r) /\ d \in run[r].todo
    /\ dns' = IF accepted THEN [dns EXCEPT ![d] = run[r].target] ELSE dns
    /\ ~accepted => refusals < MaxRefusals
    /\ refusals' = refusals + (IF accepted THEN 0 ELSE 1)
    /\ run' = [run EXCEPT ![r].todo = @ \ {d}]
    /\ UNCHANGED <<file, up, streak, kills>>

\* Mutant of Saved: the centre that is active is not written.
BugSaved(r) == [c \in Sites |-> [run[r].state[c] EXCEPT !.active = file[c].active]]

Saved(r) == run[r].state

Save(r) ==
    /\ Idle(r) /\ run[r].at = 3
    /\ file' = Saved(r)
    /\ run' = [run EXCEPT ![r] = None]
    /\ UNCHANGED <<dns, up, streak, kills, refusals>>

\* A run that is killed as it saves leaves an empty file, which no later run can load.
Kill(r) ==
    /\ Busy(r) /\ kills < MaxKills
    /\ run' = [run EXCEPT ![r] = None]
    /\ kills' = kills + 1
    /\ \/ file' = file
       \/ Idle(r) /\ run[r].at = 3 /\ file' = None
    /\ UNCHANGED <<dns, up, streak, refusals>>

Change(c) ==
    /\ up' = [up EXCEPT ![c] = ~@]
    /\ UNCHANGED <<file, run, dns, streak, kills, refusals>>

RunStep(r) ==
    \/ Load(r) \/ CheckUp(r) \/ CheckDown(r) \/ Save(r)
    \/ \E d \in Record, ok \in BOOLEAN : Update(r, d, ok)

Next == \/ \E r \in Run : RunStep(r) \/ Kill(r)
        \/ \E c \in Sites : Change(c)

Spec == Init /\ [][Next]_vars /\ \A r \in Run : WF_vars(RunStep(r))

-----------------------------------------------------------------------------
CentreState == [fails : 0 .. Threshold, active : Sites]
RunState == [state : [Sites -> CentreState], at : 1 .. 3, todo : SUBSET Record, target : Sites]

TypeOK ==
    /\ file \in [Sites -> CentreState] \cup {None}
    /\ run \in [Run -> RunState \cup {None}]
    /\ dns \in [Record -> Sites]
    /\ up \in [Sites -> BOOLEAN]
    /\ streak \in [Sites -> 0 .. Threshold]
    /\ kills \in Nat /\ refusals \in Nat

\* The records of a centre are moved away only after as many failed checks in a row as
\* THRESHOLD says: an outage that ends before does not move them, whatever updates fail.
\* (A run that is killed forgets a check that succeeded.)
ThresholdIsRespected ==
    [][\A d \in Record : kills = 0 /\ dns[d] = Home[d] /\ dns'[d] # Home[d]
                            => streak[Home[d]] >= Threshold]_vars

\* A centre that is back gets its records back, as long as no update fails, no run is
\* killed and runs do not overlap.
RecordsComeHome ==
    \A d \in Record : <>[]up[Home[d]] => <>[](dns[d] = Home[d] \/ kills + refusals > 0)

\* "DNS'i otomatik degistirir" (failover_monitor.py:4), refused updates included.
RecordsComeHomeAnyway ==
    \A d \in Record : <>[]up[Home[d]] => <>[](dns[d] = Home[d])
=============================================================================
