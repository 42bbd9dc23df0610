------------------------------ MODULE Scheduler ------------------------------
(***************************************************************************)
(* The background scheduler (scheduler.py), the scheduled tasks it runs,   *)
(* the backups it takes (backup_manager.py) and the "run now" route of the *)
(* tasks (routes/domain_ops/monitoring.py).                                *)
(*                                                                         *)
(* One thread wakes up, looks at the time once, and does one after the     *)
(* other the jobs whose interval has gone by.  The task job and the backup *)
(* job look at the time again and go through the rows of their table.      *)
(* Time is explicit: it stands still while the thread computes and passes  *)
(* while it sleeps or a remote command runs.  The process may be killed    *)
(* and started again; only last_run survives, in the database.             *)
(***************************************************************************)
EXTENDS Integers, FiniteSets

CONSTANTS
    Task,           \* rows of scheduled_tasks that are active
    Backup,         \* rows of backup_profiles that are active
    None,           \* no row; no last_run
    Minutes,        \* the minutes in which the cron fields of each row match
    Minute,         \* units of time in a minute
    Pause,          \* the 30 seconds between two rounds, and before the first
    Interval,       \* METRIC_INTERVAL, ALERT_INTERVAL, BACKUP_INTERVAL, TASK_INTERVAL
    TaskGap,        \* the 55 seconds of _cron_matches
    BackupGap,      \* the 60 seconds of _should_run
    Work,           \* how long the jobs, and the commands of the rows, may take
    Start,          \* the time at the beginning: last_... = 0 is long ago
    Horizon,        \* bound: the time at which the exploration ends
    Crashes,        \* bound: how often the process is killed
    Requests        \* bound: how many requests the users make

Row == Task \cup Backup
Job == {"alert", "metric", "backup", "task"}

ASSUME RowAssumption ==
    /\ Task \cap Backup = {} /\ Job \cap Row = {}
    /\ None \notin Row /\ None \notin Nat
ASSUME TimeAssumption ==
    /\ {Minute, Pause, TaskGap, BackupGap} \subseteq Nat \ {0}
    /\ Interval \in [Job -> Nat \ {0}]
    /\ Work \in [Job \cup Row -> SUBSET Nat]
    /\ Start \in Nat /\ \A j \in Job : Start >= Interval[j]
    /\ Horizon \in Nat /\ Horizon >= Start
    /\ {Crashes, Requests} \subseteq Nat

VARIABLES
    clock,
    at,         \* where the thread stands
    job,        \* the job it has come to
    until,      \* when its sleep, its job or its remote command is over
    now,        \* the time of the round: time.time()
    last,       \* last_alert, last_metric, last_backup, last_task
    passNow,    \* the time of the pass over the rows: datetime.utcnow()
    todo,       \* the rows the pass has yet to look at
    doing,      \* the row whose command runs
    lastRun,    \* last_run of each row, as committed
    rows,       \* the rows that have not been deleted
    manual,     \* the tasks that "run now" is executing
    crashes,
    requests,   \* the requests made
    started,    \* history: when the scheduler last started each row and was not killed
    aborted,    \* history: the pass ended early
    checked     \* history: the minutes in which a pass over the tasks began

vars == <<clock, at, job, until, now, last, passNow, todo, doing, lastRun, rows,
          manual, crashes, requests, started, aborted, checked>>
thread == <<at, job, until, now, last, passNow, todo, doing>>
world == <<rows, manual, crashes, requests>>
history == <<started, aborted, checked>>

MinuteOf(t) == t \div Minute

Init ==
    /\ clock = Start
    /\ at = "asleep"
    /\ until = Start + Pause
    /\ job = "alert"
    /\ now = 0
    /\ last = [j \in Job |-> 0]
    /\ passNow = 0
    /\ todo = {}
    /\ doing = None
    /\ lastRun = [r \in Row |-> None]
    /\ rows = Row
    /\ manual = {}
    /\ crashes = 0
    /\ requests = 0
    /\ started = [r \in Row |-> None]
    /\ aborted = FALSE
    /\ checked = {}

(***************************************************************************)
(* Time and the loop                                                       *)
(***************************************************************************)
Tick ==
    /\ clock < Horizon
    /\ at \in {"asleep", "working", "executing"} => clock < until
    /\ at \notin {"testing", "passing"}
    /\ clock' = clock + 1
    /\ UNCHANGED <<thread, lastRun, world, history>>

NextJob == [alert |-> "metric", metric |-> "backup", backup |-> "task", task |-> "sleep"]

\* A new round: the time is read once for all its jobs.
BeginRound ==
    /\ at = "asleep" /\ clock = until
    /\ at' = "testing"
    /\ job' = "alert"
    /\ now' = clock
    /\ UNCHANGED <<clock, until, last, passNow, todo, doing, lastRun, world, history>>

\* The interval of the job has gone by.
JobIsDue(j) == now - last[j] >= Interval[j]

\* What follows a job, or its omission.
Advance ==
    IF job = "task"
    THEN at' = "asleep" /\ until' = clock + Pause /\ UNCHANGED job
    ELSE at' = "testing" /\ job' = NextJob[job] /\ UNCHANGED until

SkipJob ==
    /\ at = "testing" /\ ~JobIsDue(job)
    /\ Advance
    /\ UNCHANGED <<clock, now, last, passNow, todo, doing, lastRun, world, history>>

\* check_alert_rules and collect_metric_snapshots talk to every connected server.
BeginWork ==
    /\ at = "testing" /\ JobIsDue(job) /\ job \in {"alert", "metric"}
    /\ at' = "working"
    /\ \E w \in Work[job] : until' = clock + w
    /\ UNCHANGED <<clock, job, now, last, passNow, todo, doing, lastRun, world, history>>

\* Mutant of EndWork: a failure is left to the handler around the whole round.
BugEndWork ==
    /\ at = "working" /\ clock = until
    /\ at' = "asleep" /\ until' = clock + Pause
    /\ UNCHANGED <<clock, job, now, last, passNow, todo, doing, lastRun, world, history>>

\* A job that fails has been done too: _run_alert_check and _run_metric_collection log it.
EndWork ==
    /\ at = "working" /\ clock = until
    /\ last' = [last EXCEPT ![job] = now]
    /\ at' = "testing" /\ job' = NextJob[job]
    /\ UNCHANGED <<clock, until, now, passNow, todo, doing, lastRun, world, history>>

\* The query of the active rows, and the time the pass goes by.
BeginPass ==
    /\ at = "testing" /\ JobIsDue(job) /\ job \in {"backup", "task"}
    /\ at' = "passing"
    /\ passNow' = clock
    /\ todo' = (IF job = "task" THEN Task ELSE Backup) \cap rows
    /\ aborted' = FALSE
    /\ checked' = IF job = "task" THEN checked \cup {MinuteOf(clock)} ELSE checked
    /\ UNCHANGED <<clock, job, until, now, last, doing, lastRun, world, started>>

EndPass ==
    /\ at = "passing" /\ todo = {}
    /\ last' = [last EXCEPT ![job] = now]
    /\ Advance
    /\ UNCHANGED <<clock, now, passNow, todo, doing, lastRun, world, history>>

(***************************************************************************)
(* _cron_matches, _should_run                                              *)
(***************************************************************************)
Matches(r) == MinuteOf(passNow) \in Minutes[r]

\* Mutant of TaskIsDue: the 55 seconds are not looked at.
BugTaskIsDue(r) == Matches(r)

TaskIsDue(r) == Matches(r) /\ (lastRun[r] # None => passNow - lastRun[r] >= TaskGap)

\* A profile that has never been run is due whatever its schedule.
BackupIsDue(r) ==
    lastRun[r] # None => Matches(r) /\ passNow - lastRun[r] >= BackupGap

IsDue(r) == IF r \in Task THEN TaskIsDue(r) ELSE BackupIsDue(r)

(***************************************************************************)
(* The rows of a pass                                                      *)
(***************************************************************************)
SkipRow(r) ==
    /\ at = "passing" /\ r \in todo /\ ~IsDue(r)
    /\ todo' = todo \ {r}
    /\ UNCHANGED <<clock, at, job, until, now, last, passNow, doing, lastRun, world, history>>

\* Mutant of TaskNotConnected: the loop is left instead of continued.
BugTaskNotConnected(r) ==
    /\ at = "passing" /\ r \in todo \cap Task /\ IsDue(r)
    /\ lastRun' = [lastRun EXCEPT ![r] = passNow]
    /\ todo' = {}
    /\ UNCHANGED <<clock, at, job, until, now, last, passNow, doing, world, history>>

\* ssh_mgr.is_connected says no: the task has failed at the time of the pass.
TaskNotConnected(r) ==
    /\ at = "passing" /\ r \in todo \cap Task /\ IsDue(r)
    /\ lastRun' = [lastRun EXCEPT ![r] = passNow]
    /\ todo' = todo \ {r}
    /\ UNCHANGED <<clock, at, job, until, now, last, passNow, doing, world, history>>

\* The profile is set to failed in a session that is not the one that is committed.
BackupNotConnected(r) ==
    /\ at = "passing" /\ r \in todo \cap Backup /\ IsDue(r)
    /\ todo' = todo \ {r}
    /\ UNCHANGED <<clock, at, job, until, now, last, passNow, doing, lastRun, world, history>>

\* The command is sent to the server.
StartRow(r) ==
    /\ at = "passing" /\ r \in todo /\ IsDue(r)
    /\ at' = "executing"
    /\ doing' = r
    /\ \E w \in Work[r] : until' = clock + w
    /\ started' = [started EXCEPT ![r] = clock]
    /\ UNCHANGED <<clock, job, now, last, passNow, todo, lastRun, world, aborted, checked>>

\* The result is committed with the time it came.  If the row is gone the commit fails,
\* and so does that of the handler of the failure, which ends the pass.
EndTask(r) ==
    /\ at = "executing" /\ doing = r /\ r \in Task /\ clock = until
    /\ at' = "passing" /\ doing' = None
    /\ IF r \in rows
       THEN /\ lastRun' = [lastRun EXCEPT ![r] = clock]
            /\ todo' = todo \ {r}
            /\ UNCHANGED aborted
       ELSE /\ todo' = {}
            /\ aborted' = TRUE
            /\ UNCHANGED lastRun
    /\ UNCHANGED <<clock, job, until, now, last, passNow, world, started, checked>>

\* run_backup works under an application context of its own, hence with a session of
\* its own: the commit there does not write the profile, which the session of
\* check_backup_schedules holds and throws away.
EndBackup(r) ==
    /\ at = "executing" /\ doing = r /\ r \in Backup /\ clock = until
    /\ at' = "passing" /\ doing' = None
    /\ todo' = todo \ {r}
    /\ UNCHANGED <<clock, job, until, now, last, passNow, lastRun, world, history>>

(***************************************************************************)
(* The routes, and the end of the process                                  *)
(***************************************************************************)
\* run_task_now, from the check of the connection to the answer of the server.
BeginManual(r) ==
    /\ at # "down" /\ r \in (Task \cap rows) \ manual
    /\ requests < Requests /\ requests' = requests + 1
    /\ manual' = manual \cup {r}
    /\ UNCHANGED <<clock, thread, lastRun, rows, crashes, history>>

EndManual(r) ==
    /\ r \in manual
    /\ manual' = manual \ {r}
    /\ lastRun' = IF r \in rows THEN [lastRun EXCEPT ![r] = clock] ELSE lastRun
    /\ UNCHANGED <<clock, thread, rows, crashes, requests, history>>

DeleteRow(r) ==
    /\ at # "down" /\ r \in rows
    /\ requests < Requests /\ requests' = requests + 1
    /\ rows' = rows \ {r}
    /\ UNCHANGED <<clock, thread, lastRun, manual, crashes, history>>

Crash ==
    /\ at # "down" /\ crashes < Crashes
    /\ crashes' = crashes + 1
    /\ at' = "down"
    /\ doing' = None /\ todo' = {} /\ manual' = {}
    /\ started' = IF doing # None THEN [started EXCEPT ![doing] = None] ELSE started
    /\ UNCHANGED <<clock, job, until, now, last, passNow, lastRun, rows, requests, aborted, checked>>

Restart ==
    /\ at = "down"
    /\ at' = "asleep" /\ until' = clock + Pause
    /\ last' = [j \in Job |-> 0]
    /\ UNCHANGED <<clock, job, now, passNow, todo, doing, lastRun, world, history>>

RowStep(r) ==
    \/ SkipRow(r) \/ TaskNotConnected(r) \/ BackupNotConnected(r)
    \/ StartRow(r) \/ EndTask(r) \/ EndBackup(r)

Next ==
    \/ Tick \/ BeginRound \/ SkipJob \/ BeginWork \/ EndWork \/ BeginPass \/ EndPass
    \/ Crash \/ Restart
    \/ \E r \in Row : RowStep(r) \/ BeginManual(r) \/ EndManual(r) \/ DeleteRow(r)

Spec == Init /\ [][Next]_vars

-----------------------------------------------------------------------------
TypeOK ==
    /\ clock \in Start .. Horizon
    /\ at \in {"asleep", "testing", "working", "passing", "executing", "down"}
    /\ job \in Job
    /\ {until, now, passNow} \subseteq Nat
    /\ last \in [Job -> Nat]
    /\ todo \subseteq Row
    /\ doing \in Row \cup {None}
    /\ lastRun \in [Row -> Nat \cup {None}]
    /\ rows \subseteq Row
    /\ manual \subseteq Task
    /\ crashes \in 0 .. Crashes
    /\ requests \in 0 .. Requests
    /\ started \in [Row -> Nat \cup {None}]
    /\ aborted \in BOOLEAN
    /\ checked \subseteq Nat

\* Whatever happens to the process, the scheduler does not start a task again within the
\* 55 seconds of _cron_matches of its last start, if it was not killed during that run:
\* last_run is what keeps a restarted process from repeating what was just done.
SpacedStarts ==
    [][\A r \in Task :
        started[r] # None /\ started'[r] \notin {None, started[r]}
            => started'[r] - started[r] >= TaskGap]_vars

\* When a pass over the tasks has come to its end no task that its minute asks for is
\* left out: each was run or found unreachable, in this pass or within the last 55
\* seconds.  The exception is a pass that a deleted row has cut short.
DueAreServed ==
    at = "passing" /\ job = "task" /\ todo = {} /\ ~aborted
        => \A r \in Task \cap rows :
               Matches(r) => lastRun[r] # None /\ passNow - lastRun[r] < TaskGap

\* While the process is up the tasks are never left unexamined for two whole minutes
\* in a row, as long as a round takes less than a minute.
NoTwoMinutesMissed ==
    crashes = 0 =>
        \A m \in MinuteOf(Start + Pause) .. MinuteOf(clock) - 2 :
            m \in checked \/ m + 1 \in checked

\* "1 dakika - scheduled task kontrolu" (scheduler.py:21): the tasks are examined in
\* every minute in which the scheduler is running.
EveryMinuteIsChecked ==
    crashes = 0 =>
        \A m \in MinuteOf(Start + Pause) + 1 .. MinuteOf(clock) - 1 : m \in checked

\* "Cron schedule'a gore profilin calistirilmasi gerekip gerekmedigini kontrol eder"
\* (backup_manager.py:107): after the first time a backup is taken in the minutes of
\* its schedule only.
BackupsFollowSchedule ==
    [][\A r \in Backup : started[r] # None /\ StartRow(r) => Matches(r)]_vars
=============================================================================
