--------------------------- MODULE SchedulerProofs ---------------------------
(***************************************************************************)
(* Theorems about the background scheduler, for every set of tasks and     *)
(* backups, every cron schedule and every choice of the intervals: starts  *)
(* of a task are spaced across kills and restarts of the process, and a    *)
(* pass over the tasks leaves out nothing that its minute asks for.        *)
(*                                                                         *)
(* The invariant has four parts: where the thread stands and which row it  *)
(* holds (ThreadInv), the order of the times (ClockInv), what last_run     *)
(* remembers of a start (KeptInv), and what a pass has done so far         *)
(* (ServedInv).                                                            *)
(***************************************************************************)
EXTENDS MCScheduler, TLAPS

\* The thread goes through the rows of a table.
InPass == at \in {"passing", "executing"}

\* Where the thread stands agrees with its job, the rows it has yet to look at and the
\* row whose command runs.
ThreadInv ==
    /\ at = "working" => job \in {"alert", "metric"}
    /\ InPass => job \in {"backup", "task"}
    /\ InPass \/ todo = {}
    /\ job = "task" => todo \subseteq Task
    /\ job # "task" => todo \subseteq Backup
    /\ at = "executing" => doing \in todo
    /\ at # "executing" => doing = None

\* Nothing that was written down lies in the future.
ClockInv ==
    /\ passNow <= clock
    /\ \A r \in Row : lastRun[r] # None => lastRun[r] <= clock
    /\ \A r \in Row : started[r] # None => started[r] <= clock

\* A start that is over, and was not cut off by a kill, is remembered in last_run, unless
\* the row is gone for this pass and for every later one.
KeptInv ==
    \A r \in Task :
        started[r] # None /\ doing # r =>
            \/ lastRun[r] # None /\ started[r] <= lastRun[r]
            \/ r \notin rows /\ r \notin todo

\* The tasks that the pass has been at, and that its minute asks for, were run lately.
ServedInv ==
    InPass /\ job = "task" /\ ~aborted
        => \A r \in (Task \cap rows) \ todo :
               Matches(r) => lastRun[r] # None /\ passNow - lastRun[r] < TaskGap

IInv == TypeOK /\ ThreadInv /\ ClockInv /\ KeptInv /\ ServedInv

-----------------------------------------------------------------------------
(***************************************************************************)
(* Types and the thread                                                    *)
(***************************************************************************)
\* Types are kept; only the jobs that talk to the servers go on to the next one.
LEMMA TypeStep ==
    ASSUME TypeOK, ThreadInv, [Next]_vars
    PROVE  TypeOK'
<1> USE RowAssumption, TimeAssumption DEF TypeOK, ThreadInv, InPass, Job, Row, Advance, NextJob, MinuteOf, vars, thread, world, history
<1>1. CASE Tick
  BY <1>1 DEF Tick
<1>2. CASE BeginRound
  BY <1>2 DEF BeginRound
<1>3. CASE SkipJob
  BY <1>3 DEF SkipJob
<1>4. CASE BeginWork
  BY <1>4 DEF BeginWork
<1>5. CASE EndWork
  BY <1>5 DEF EndWork
<1>6. CASE BeginPass
  <2>1. MinuteOf(clock) \in Nat
    BY DEF MinuteOf
  <2> HIDE DEF MinuteOf
  <2>2. checked' \subseteq checked \cup {MinuteOf(clock)} /\ checked \subseteq Nat
    BY <1>6, Zenon DEF BeginPass
  <2>3. checked' \subseteq Nat
    BY <2>1, <2>2
  <2>4. todo' \subseteq Row
    BY <1>6, Zenon DEF BeginPass
  <2>5. clock' = clock /\ at' = "passing" /\ passNow' = clock /\ aborted' = FALSE
    BY <1>6, Zenon DEF BeginPass
  <2>6. UNCHANGED <<job, until, now, last, doing, lastRun, rows, manual, crashes, requests, started>>
    BY <1>6, Zenon DEF BeginPass
  <2>7. /\ clock' \in Start .. Horizon /\ {until, now, passNow}' \subseteq Nat
        /\ crashes' \in 0 .. Crashes /\ requests' \in 0 .. Requests
    BY <2>5, <2>6
  <2> QED
    BY <2>3, <2>4, <2>5, <2>6, <2>7, Zenon
<1>7. CASE EndPass
  BY <1>7 DEF EndPass
<1>8. CASE Crash
  BY <1>8 DEF Crash
<1>9. CASE Restart
  BY <1>9 DEF Restart
<1>10. ASSUME NEW r \in Row, SkipRow(r)  PROVE TypeOK'
  BY <1>10 DEF SkipRow
<1>11. ASSUME NEW r \in Row, TaskNotConnected(r)  PROVE TypeOK'
  BY <1>11 DEF TaskNotConnected
<1>12. ASSUME NEW r \in Row, BackupNotConnected(r)  PROVE TypeOK'
  BY <1>12 DEF BackupNotConnected
<1>13. ASSUME NEW r \in Row, StartRow(r)  PROVE TypeOK'
  BY <1>13 DEF StartRow
<1>14. ASSUME NEW r \in Row, EndTask(r)  PROVE TypeOK'
  <2>1. CASE r \in rows
    BY <1>14, <2>1 DEF EndTask
  <2>2. CASE r \notin rows
    BY <1>14, <2>2 DEF EndTask
  <2> QED
    BY <2>1, <2>2
<1>15. ASSUME NEW r \in Row, EndBackup(r)  PROVE TypeOK'
  BY <1>15 DEF EndBackup
<1>16. ASSUME NEW r \in Row, BeginManual(r)  PROVE TypeOK'
  BY <1>16 DEF BeginManual
<1>17. ASSUME NEW r \in Row, EndManual(r)  PROVE TypeOK'
  BY <1>17 DEF EndManual
<1>18. ASSUME NEW r \in Row, DeleteRow(r)  PROVE TypeOK'
  BY <1>18 DEF DeleteRow
<1>19. CASE UNCHANGED vars
  BY <1>19
<1> QED
  BY <1>1, <1>2, <1>3, <1>4, <1>5, <1>6, <1>7, <1>8, <1>9, <1>10, <1>11, <1>12, <1>13, <1>14, <1>15, <1>16, <1>17, <1>18, <1>19 DEF Next, RowStep

\* The rows left to look at are rows of the table of the job.
LEMMA ThreadStep ==
    ASSUME TypeOK, ThreadInv, [Next]_vars
    PROVE  ThreadInv'
<1> USE RowAssumption, TimeAssumption DEF TypeOK, ThreadInv, InPass, Job, Row, Advance, NextJob, vars, thread, world, history
<1>1. CASE Tick
  BY <1>1 DEF Tick
<1>2. CASE BeginRound
  BY <1>2 DEF BeginRound
<1>3. CASE SkipJob
  BY <1>3 DEF SkipJob
<1>4. CASE BeginWork
  BY <1>4 DEF BeginWork
<1>5. CASE EndWork
  BY <1>5 DEF EndWork
<1>6. CASE BeginPass
  BY <1>6 DEF BeginPass
<1>7. CASE EndPass
  BY <1>7 DEF EndPass
<1>8. CASE Crash
  BY <1>8 DEF Crash
<1>9. CASE Restart
  BY <1>9 DEF Restart
<1>10. ASSUME NEW r \in Row, SkipRow(r)  PROVE ThreadInv'
  BY <1>10 DEF SkipRow
<1>11. ASSUME NEW r \in Row, TaskNotConnected(r)  PROVE ThreadInv'
  BY <1>11 DEF TaskNotConnected
<1>12. ASSUME NEW r \in Row, BackupNotConnected(r)  PROVE ThreadInv'
  BY <1>12 DEF BackupNotConnected
<1>13. ASSUME NEW r \in Row, StartRow(r)  PROVE ThreadInv'
  BY <1>13 DEF StartRow
<1>14. ASSUME NEW r \in Row, EndTask(r)  PROVE ThreadInv'
  BY <1>14 DEF EndTask
<1>15. ASSUME NEW r \in Row, EndBackup(r)  PROVE ThreadInv'
  BY <1>15 DEF EndBackup
<1>16. ASSUME NEW r \in Row, BeginManual(r)  PROVE ThreadInv'
  BY <1>16 DEF BeginManual
<1>17. ASSUME NEW r \in Row, EndManual(r)  PROVE ThreadInv'
  BY <1>17 DEF EndManual
<1>18. ASSUME NEW r \in Row, DeleteRow(r)  PROVE ThreadInv'
  BY <1>18 DEF DeleteRow
<1>19. CASE UNCHANGED vars
  BY <1>19
<1> QED
  BY <1>1, <1>2, <1>3, <1>4, <1>5, <1>6, <1>7, <1>8, <1>9, <1>10, <1>11, <1>12, <1>13, <1>14, <1>15, <1>16, <1>17, <1>18, <1>19 DEF Next, RowStep

\* Every time that is written down is the time on the clock or that of the pass.
LEMMA ClockStep ==
    ASSUME TypeOK, ClockInv, [Next]_vars
    PROVE  ClockInv'
<1> USE RowAssumption, TimeAssumption DEF TypeOK, ClockInv, Job, Row, Advance, vars, thread, world, history
<1>1. CASE Tick
  BY <1>1 DEF Tick
<1>2. CASE BeginRound
  BY <1>2 DEF BeginRound
<1>3. CASE SkipJob
  BY <1>3 DEF SkipJob
<1>4. CASE BeginWork
  BY <1>4 DEF BeginWork
<1>5. CASE EndWork
  BY <1>5 DEF EndWork
<1>6. CASE BeginPass
  BY <1>6 DEF BeginPass
<1>7. CASE EndPass
  BY <1>7 DEF EndPass
<1>8. CASE Crash
  BY <1>8 DEF Crash
<1>9. CASE Restart
  BY <1>9 DEF Restart
<1>10. ASSUME NEW r \in Row, SkipRow(r)  PROVE ClockInv'
  BY <1>10 DEF SkipRow
<1>11. ASSUME NEW r \in Row, TaskNotConnected(r)  PROVE ClockInv'
  BY <1>11 DEF TaskNotConnected
<1>12. ASSUME NEW r \in Row, BackupNotConnected(r)  PROVE ClockInv'
  BY <1>12 DEF BackupNotConnected
<1>13. ASSUME NEW r \in Row, StartRow(r)  PROVE ClockInv'
  BY <1>13 DEF StartRow
<1>14. ASSUME NEW r \in Row, EndTask(r)  PROVE ClockInv'
  BY <1>14 DEF EndTask
<1>15. ASSUME NEW r \in Row, EndBackup(r)  PROVE ClockInv'
  BY <1>15 DEF EndBackup
<1>16. ASSUME NEW r \in Row, BeginManual(r)  PROVE ClockInv'
  BY <1>16 DEF BeginManual
<1>17. ASSUME NEW r \in Row, EndManual(r)  PROVE ClockInv'
  BY <1>17 DEF EndManual
<1>18. ASSUME NEW r \in Row, DeleteRow(r)  PROVE ClockInv'
  BY <1>18 DEF DeleteRow
<1>19. CASE UNCHANGED vars
  BY <1>19
<1> QED
  BY <1>1, <1>2, <1>3, <1>4, <1>5, <1>6, <1>7, <1>8, <1>9, <1>10, <1>11, <1>12, <1>13, <1>14, <1>15, <1>16, <1>17, <1>18, <1>19 DEF Next, RowStep

\* A start is remembered when its command is over, before the row can be started again.
LEMMA KeptStep ==
    ASSUME TypeOK, ThreadInv, ClockInv, KeptInv, [Next]_vars
    PROVE  KeptInv'
<1> USE RowAssumption, TimeAssumption DEF TypeOK, ThreadInv, ClockInv, KeptInv, InPass, Job, Row, Advance, vars, thread, world, history
<1>1. CASE Tick
  BY <1>1 DEF Tick
<1>2. CASE BeginRound
  BY <1>2 DEF BeginRound
<1>3. CASE SkipJob
  BY <1>3 DEF SkipJob
<1>4. CASE BeginWork
  BY <1>4 DEF BeginWork
<1>5. CASE EndWork
  BY <1>5 DEF EndWork
<1>6. CASE BeginPass
  BY <1>6 DEF BeginPass
<1>7. CASE EndPass
  BY <1>7 DEF EndPass
<1>8. CASE Crash
  BY <1>8 DEF Crash
<1>9. CASE Restart
  BY <1>9 DEF Restart
<1>10. ASSUME NEW r \in Row, SkipRow(r)  PROVE KeptInv'
  BY <1>10 DEF SkipRow
<1>11. ASSUME NEW r \in Row, TaskNotConnected(r)  PROVE KeptInv'
  BY <1>11 DEF TaskNotConnected, IsDue, TaskIsDue
<1>12. ASSUME NEW r \in Row, BackupNotConnected(r)  PROVE KeptInv'
  BY <1>12 DEF BackupNotConnected
<1>13. ASSUME NEW r \in Row, StartRow(r)  PROVE KeptInv'
  BY <1>13 DEF StartRow
<1>14. ASSUME NEW r \in Row, EndTask(r)  PROVE KeptInv'
  BY <1>14 DEF EndTask
<1>15. ASSUME NEW r \in Row, EndBackup(r)  PROVE KeptInv'
  BY <1>15 DEF EndBackup
<1>16. ASSUME NEW r \in Row, BeginManual(r)  PROVE KeptInv'
  BY <1>16 DEF BeginManual
<1>17. ASSUME NEW r \in Row, EndManual(r)  PROVE KeptInv'
  BY <1>17 DEF EndManual
<1>18. ASSUME NEW r \in Row, DeleteRow(r)  PROVE KeptInv'
  BY <1>18 DEF DeleteRow
<1>19. CASE UNCHANGED vars
  BY <1>19
<1> QED
  BY <1>1, <1>2, <1>3, <1>4, <1>5, <1>6, <1>7, <1>8, <1>9, <1>10, <1>11, <1>12, <1>13, <1>14, <1>15, <1>16, <1>17, <1>18, <1>19 DEF Next, RowStep

\* A task leaves the rows to look at when it is not due or has just been run or missed.
LEMMA ServedStep ==
    ASSUME TypeOK, ThreadInv, ClockInv, ServedInv, [Next]_vars
    PROVE  ServedInv'
<1> USE RowAssumption, TimeAssumption DEF TypeOK, ThreadInv, ClockInv, ServedInv, InPass, Job, Row, Advance, Matches, vars, thread, world, history
<1>1. CASE Tick
  BY <1>1 DEF Tick
<1>2. CASE BeginRound
  BY <1>2 DEF BeginRound
<1>3. CASE SkipJob
  BY <1>3 DEF SkipJob
<1>4. CASE BeginWork
  BY <1>4 DEF BeginWork
<1>5. CASE EndWork
  BY <1>5 DEF EndWork
<1>6. CASE BeginPass
  BY <1>6 DEF BeginPass
<1>7. CASE EndPass
  BY <1>7 DEF EndPass
<1>8. CASE Crash
  BY <1>8 DEF Crash
<1>9. CASE Restart
  BY <1>9 DEF Restart
<1>10. ASSUME NEW r \in Row, SkipRow(r)  PROVE ServedInv'
  BY <1>10 DEF SkipRow, IsDue, TaskIsDue
<1>11. ASSUME NEW r \in Row, TaskNotConnected(r)  PROVE ServedInv'
  BY <1>11 DEF TaskNotConnected
<1>12. ASSUME NEW r \in Row, BackupNotConnected(r)  PROVE ServedInv'
  BY <1>12 DEF BackupNotConnected
<1>13. ASSUME NEW r \in Row, StartRow(r)  PROVE ServedInv'
  BY <1>13 DEF StartRow
<1>14. ASSUME NEW r \in Row, EndTask(r)  PROVE ServedInv'
  BY <1>14 DEF EndTask
<1>15. ASSUME NEW r \in Row, EndBackup(r)  PROVE ServedInv'
  BY <1>15 DEF EndBackup
<1>16. ASSUME NEW r \in Row, BeginManual(r)  PROVE ServedInv'
  BY <1>16 DEF BeginManual
<1>17. ASSUME NEW r \in Row, EndManual(r)  PROVE ServedInv'
  BY <1>17 DEF EndManual
<1>18. ASSUME NEW r \in Row, DeleteRow(r)  PROVE ServedInv'
  BY <1>18 DEF DeleteRow
<1>19. CASE UNCHANGED vars
  BY <1>19
<1> QED
  BY <1>1, <1>2, <1>3, <1>4, <1>5, <1>6, <1>7, <1>8, <1>9, <1>10, <1>11, <1>12, <1>13, <1>14, <1>15, <1>16, <1>17, <1>18, <1>19 DEF Next, RowStep

-----------------------------------------------------------------------------
(***************************************************************************)
(* The theorems                                                            *)
(***************************************************************************)
\* A process that has just been started, with no row run yet.
LEMMA InitIInv == Init => IInv
<1> SUFFICES ASSUME Init  PROVE IInv
  OBVIOUS
<1> USE RowAssumption, TimeAssumption DEF Init
<1>1. TypeOK
  <2>1. {until, now, passNow} \subseteq Nat /\ clock \in Start .. Horizon
    OBVIOUS
  <2>2. last \in [Job -> Nat]
    OBVIOUS
  <2>3. lastRun \in [Row -> Nat \cup {None}] /\ started \in [Row -> Nat \cup {None}]
    OBVIOUS
  <2>4. crashes \in 0 .. Crashes /\ requests \in 0 .. Requests
    OBVIOUS
  <2> QED
    BY <2>1, <2>2, <2>3, <2>4 DEF TypeOK, Job
<1>2. ThreadInv
  BY DEF ThreadInv, InPass
<1>3. ClockInv
  BY DEF ClockInv, Row
<1>4. KeptInv /\ ServedInv
  BY DEF KeptInv, ServedInv, InPass, Row
<1> QED
  BY <1>1, <1>2, <1>3, <1>4 DEF IInv

\* No step of the thread, of a request or of a crash breaks it.
LEMMA StepIInv == IInv /\ [Next]_vars => IInv'
<1> SUFFICES ASSUME IInv, [Next]_vars  PROVE IInv'
  OBVIOUS
<1> QED
  BY TypeStep, ThreadStep, ClockStep, KeptStep, ServedStep DEF IInv

\* Whatever the users, the servers and the killing of the process do, the invariant holds.
THEOREM SchedulerAlways == Spec => []IInv
BY InitIInv, StepIInv, PTL DEF Spec

\* The variables keep their types: in particular the loop never comes to a job that it
\* does not know (scheduler.py, _scheduler_loop).
THEOREM TypeCorrect == Spec => []TypeOK
<1>1. IInv => TypeOK
  BY DEF IInv
<1> QED
  BY <1>1, SchedulerAlways, PTL

\* A step that starts a task again comes at least 55 seconds after the last start that was
\* not killed: what is due was run by then, and last_run holds the end of that run.
LEMMA StartsAreSpaced ==
    ASSUME IInv, [Next]_vars
    PROVE  \A r \in Task :
               started[r] # None /\ started'[r] \notin {None, started[r]}
                   => started'[r] - started[r] >= TaskGap
<1> SUFFICES ASSUME NEW r \in Task,
                    started[r] # None, started'[r] # None, started'[r] # started[r]
             PROVE  started'[r] - started[r] >= TaskGap
  OBVIOUS
<1>1. started \in [Row -> Nat \cup {None}] /\ r \in Row
  BY DEF IInv, TypeOK, Row
<1>2. StartRow(r)
  <2>1. ASSUME NEW q \in Row, StartRow(q)  PROVE q = r
    BY <2>1, <1>1 DEF StartRow
  <2>2. ASSUME Crash  PROVE FALSE
    BY <2>2, <1>1 DEF Crash
  <2>3. \/ started' = started
        \/ Crash
        \/ \E q \in Row : StartRow(q)
    BY DEF Next, RowStep, Tick, BeginRound, SkipJob, BeginWork, EndWork, BeginPass, EndPass,
           Restart, SkipRow, TaskNotConnected, BackupNotConnected, EndTask, EndBackup,
           BeginManual, EndManual, DeleteRow, vars, history
  <2> QED
    BY <2>1, <2>2, <2>3
<1>3. started'[r] = clock /\ r \in todo /\ at = "passing" /\ TaskIsDue(r)
  BY <1>1, <1>2 DEF StartRow, IsDue
<1>4. doing # r
  BY <1>1, <1>3, RowAssumption DEF IInv, ThreadInv
<1>5. lastRun[r] # None /\ started[r] <= lastRun[r]
  BY <1>3, <1>4 DEF IInv, KeptInv
<1>6. passNow - lastRun[r] >= TaskGap /\ passNow <= clock
  BY <1>3, <1>5 DEF TaskIsDue, IInv, ClockInv
<1>7. /\ started[r] \in Nat /\ lastRun[r] \in Nat
      /\ passNow \in Nat /\ clock \in Nat /\ TaskGap \in Nat
  BY <1>1, <1>5, TimeAssumption DEF IInv, TypeOK
<1> QED
  BY <1>3, <1>5, <1>6, <1>7

\* For every schedule, and however often the process is killed and started again, two
\* starts of a task by the scheduler are 55 seconds apart, unless the first of them was
\* killed (scheduler.py, _cron_matches and check_scheduled_tasks).
THEOREM StartsAreAlwaysSpaced == Spec => SpacedStarts
<1>1. IInv /\ [Next]_vars
          => [\A r \in Task :
                 started[r] # None /\ started'[r] \notin {None, started[r]}
                     => started'[r] - started[r] >= TaskGap]_vars
  BY StartsAreSpaced
<1> QED
  BY <1>1, SchedulerAlways, PTL DEF Spec, SpacedStarts

\* When a pass over the tasks is at its end, every task that the minute of the pass asks
\* for was run or found unreachable by it or within the 55 seconds before, unless a row
\* that was deleted while its command ran has cut the pass short.
THEOREM PassesServeWhatIsDue == Spec => []DueAreServed
<1>1. IInv => DueAreServed
  BY DEF IInv, ServedInv, InPass, DueAreServed
<1> QED
  BY <1>1, SchedulerAlways, PTL

-----------------------------------------------------------------------------
(***************************************************************************)
(* The pass over the alert rules                                           *)
(***************************************************************************)
InHand == place \in {"servers", "committing"}

\* Where the pass stands agrees with the rule in hand and the alert that is not committed.
AlertPlaceInv ==
    /\ InHand => rule \in Rule \ rest
    /\ place = "committing" =>
        /\ alarm \in [rule : {rule}, server : Server, pass : {pass}, notified : BOOLEAN]
    /\ place = "idle" => rest = {}

\* What is recorded lies in the past, and last_triggered is that of the latest alert.
RecordedInv ==
    \A h \in recorded :
        /\ h.pass <= pass /\ h.at <= alertClock
        /\ lastTriggered[h.rule] # None /\ h.at <= lastTriggered[h.rule]

\* A rule the pass has yet to come to has no alert of this pass.
FreshInv == \A h \in recorded : h.rule \in rest => h.pass < pass

\* The rule in hand has cooled down since the alerts of the earlier passes.
CooledInv ==
    InHand => \A h \in recorded :
        h.rule = rule /\ h.pass < pass => alertClock >= h.at + Cooldown[rule]

\* A notification is recorded, or about to be, unless the process or the rule is gone.
SentInv ==
    \A n \in sent :
        \/ \E h \in recorded : h.rule = n.rule /\ h.server = n.server /\ h.pass = n.pass
        \/ place = "committing" /\ alarm.rule = n.rule /\ alarm.server = n.server /\ alarm.pass = n.pass
        \/ kills > 0 \/ n.rule \notin rules

AlertInv ==
    /\ Alert!TypeOK /\ AlertPlaceInv /\ RecordedInv /\ FreshInv /\ CooledInv /\ SentInv
    /\ Alert!AlertsAreSpaced

LEMMA AlertInit == Alert!Init => AlertInv
BY AlertAssumption DEF Alert!Init, AlertInv, Alert!TypeOK, AlertPlaceInv, InHand, RecordedInv, FreshInv, CooledInv, SentInv, Alert!AlertsAreSpaced

LEMMA AlertTypeStep ==
  ASSUME AlertInv, Alert!Next
  PROVE  Alert!TypeOK'
<1> USE AlertAssumption DEF AlertInv, Alert!TypeOK, AlertPlaceInv, InHand, Alert!outside, Alert!db, Alert!ForgetPass, Alert!Alarm
<1>1. CASE Alert!Tick
  BY <1>1 DEF Alert!Tick
<1>2. CASE Alert!BeginPass
  BY <1>2 DEF Alert!BeginPass
<1>3. ASSUME NEW r \in Rule, Alert!SkipRule(r) PROVE Alert!TypeOK'
  BY <1>3 DEF Alert!SkipRule, Alert!Read
<1>4. ASSUME NEW r \in Rule, Alert!BeginRule(r) PROVE Alert!TypeOK'
  BY <1>4 DEF Alert!BeginRule, Alert!Read, Alert!TargetIds
<1>5. ASSUME NEW s \in Server, Alert!SkipServer(s) PROVE Alert!TypeOK'
  BY <1>5 DEF Alert!SkipServer
<1>6. ASSUME NEW s \in Server, Alert!QuietServer(s) PROVE Alert!TypeOK'
  BY <1>6 DEF Alert!QuietServer, Alert!Read
<1>7. ASSUME NEW s \in Server, Alert!Notify(s) PROVE Alert!TypeOK'
  BY <1>7 DEF Alert!Notify, Alert!Read
<1>8. CASE Alert!EndRule
  BY <1>8 DEF Alert!EndRule
<1>9. CASE Alert!Commit
  BY <1>9 DEF Alert!Commit, Alert!Row
<1>10. CASE Alert!Abort
  BY <1>10 DEF Alert!Abort
<1>11. CASE Alert!EndPass
  BY <1>11 DEF Alert!EndPass
<1>12. CASE Alert!Crash
  BY <1>12 DEF Alert!Crash
<1>13. ASSUME NEW r \in Rule, Alert!DeleteRule(r) PROVE Alert!TypeOK'
  BY <1>13 DEF Alert!DeleteRule
<1> QED
  BY <1>1, <1>2, <1>3, <1>4, <1>5, <1>6, <1>7, <1>8, <1>9, <1>10, <1>11, <1>12, <1>13 DEF Alert!Next, Alert!PassStep

LEMMA AlertStep ==
  ASSUME AlertInv, Alert!Next
  PROVE  AlertInv'
<1> DEFINE Rest == AlertPlaceInv /\ RecordedInv /\ FreshInv /\ CooledInv /\ SentInv /\ Alert!AlertsAreSpaced
<1>0. Alert!TypeOK'
  BY AlertTypeStep
<1> SUFFICES Rest'
  BY <1>0 DEF AlertInv
<1> USE AlertAssumption DEF AlertInv, Alert!TypeOK, AlertPlaceInv, InHand, RecordedInv, FreshInv, CooledInv, SentInv, Alert!AlertsAreSpaced,
        Alert!outside, Alert!db, Alert!ForgetPass, Alert!Alarm
<1>1. CASE Alert!Tick
  BY <1>1 DEF Alert!Tick
<1>2. CASE Alert!BeginPass
  BY <1>2 DEF Alert!BeginPass
<1>3. ASSUME NEW r \in Rule, Alert!SkipRule(r) PROVE Rest'
  BY <1>3 DEF Alert!SkipRule, Alert!Read
<1>4. ASSUME NEW r \in Rule, Alert!BeginRule(r) PROVE Rest'
  BY <1>4 DEF Alert!BeginRule, Alert!Read, Alert!TargetIds, Alert!CoolsDown
<1>5. ASSUME NEW s \in Server, Alert!SkipServer(s) PROVE Rest'
  BY <1>5 DEF Alert!SkipServer
<1>6. ASSUME NEW s \in Server, Alert!QuietServer(s) PROVE Rest'
  BY <1>6 DEF Alert!QuietServer, Alert!Read
<1>7. ASSUME NEW s \in Server, Alert!Notify(s) PROVE Rest'
  BY <1>7 DEF Alert!Notify, Alert!Read
<1>8. CASE Alert!EndRule
  BY <1>8 DEF Alert!EndRule
<1>9. CASE Alert!Commit
  <2> DEFINE new == Alert!Row(alarm, alertClock)
  <2>1. /\ new.rule = rule /\ new.pass = pass /\ new.at = alertClock /\ new.server = alarm.server
        /\ rule \in Rule /\ rule \notin rest
    BY <1>9 DEF Alert!Commit, Alert!Row
  <2>2. /\ recorded' = recorded \cup {new} /\ alertClock' = alertClock /\ pass' = pass /\ rest' = rest
        /\ rule' = rule /\ sent' = sent /\ rules' = rules /\ kills' = kills
        /\ lastTriggered'[rule] = alertClock
        /\ \A r \in Rule \ {rule} : lastTriggered'[r] = lastTriggered[r]
        /\ place = "committing" /\ place' = "servers"
    BY <1>9 DEF Alert!Commit
  <2> HIDE DEF new
  <2>3. AlertPlaceInv'
    BY <2>1, <2>2
  <2>4. RecordedInv'
    BY <2>1, <2>2
  <2>5. FreshInv' /\ CooledInv'
    BY <2>1, <2>2
  <2>6. SentInv'
    BY <2>1, <2>2
  <2>7. Alert!AlertsAreSpaced'
    BY <2>1, <2>2
  <2> QED
    BY <2>3, <2>4, <2>5, <2>6, <2>7
<1>10. CASE Alert!Abort
  BY <1>10 DEF Alert!Abort
<1>11. CASE Alert!EndPass
  BY <1>11 DEF Alert!EndPass
<1>12. CASE Alert!Crash
  BY <1>12 DEF Alert!Crash
<1>13. ASSUME NEW r \in Rule, Alert!DeleteRule(r) PROVE Rest'
  BY <1>13 DEF Alert!DeleteRule
<1> QED
  BY <1>1, <1>2, <1>3, <1>4, <1>5, <1>6, <1>7, <1>8, <1>9, <1>10, <1>11, <1>12, <1>13 DEF Alert!Next, Alert!PassStep

\* An alert is spaced from those of the earlier passes and no notification is left out of
\* the history, whatever server an alert was about and wherever a pass was cut off
\* (check_alert_rules).
THEOREM AlertsKept == PartsSpec => []AlertsAreKept
<1>1. PartsInit => AlertInv
  BY AlertInit DEF PartsInit
<1>2. AlertInv /\ [PartsNext]_<<part, vars, alertVars>> => AlertInv'
  <2> SUFFICES ASSUME AlertInv, [PartsNext]_<<part, vars, alertVars>> PROVE AlertInv'
    OBVIOUS
  <2>1. CASE Alert!Next
    BY <2>1, AlertStep
  <2>2. CASE UNCHANGED alertVars
    BY <2>2 DEF alertVars, AlertInv, Alert!TypeOK, AlertPlaceInv, InHand, RecordedInv, FreshInv, CooledInv, SentInv,
                Alert!AlertsAreSpaced, Alert!Alarm
  <2> QED
    BY <2>1, <2>2 DEF PartsNext
<1>3. AlertInv => AlertsAreKept
  BY DEF AlertInv, AlertsAreKept, Alert!AlertsAreKept, Alert!DeliveredIsRecorded, SentInv, Alert!TypeOK
<1> QED
  BY <1>1, <1>2, <1>3, PTL DEF PartsSpec
=============================================================================
