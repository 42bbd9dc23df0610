------------------------------ MODULE IspJobs ------------------------------
(***************************************************************************)
(* The threads that the /api/isp routes start and do not wait for          *)
(* (emarefirewall/routes.py, tenants.py): one for each bulk job, which     *)
(* runs its operations one after the other and records the tally, and one  *)
(* for each alert, which calls the webhooks of the tenant.                 *)
(*                                                                         *)
(* A store writes what it is told by a thread, or logs an error and writes *)
(* nothing; the thread does not learn of it.  A job is run although its    *)
(* row could not be inserted.  An exception that nothing catches ends the  *)
(* thread, the end of the process ends all of them, and in memory the      *)
(* store with them.                                                        *)
(***************************************************************************)
EXTENDS Naturals, Sequences, FiniteSets

CONSTANTS
    Job, Hook, Alert,
    Tries,          \* how often a webhook is called: 3
    Limit,          \* failures in a row that switch a webhook off: 10
    MaxOps,         \* bound: the operations of a job
    MaxFaults       \* bound: errors of the database and ends of the process

Outcome == {"works", "fails", "raises", "malformed"}    \* what an operation comes to

VARIABLES
    store,      \* "postgres" or "memory"
    row,        \* bulk_jobs.status, "none" without a row
    tally,      \* its columns completed and failed
    ops,        \* the operations of each job
    thread,     \* the thread of each job: where it stands and what it has counted
    hook,       \* each webhook: "none", "usable", "unusable" (its url), "removed"
    active, fails,          \* its columns
    peak,                   \* history: the most failures recorded in a row
    dispatch,   \* the thread of each alert
    faults

jobVars == <<row, tally, ops, thread>>
hookVars == <<hook, active, fails, peak, dispatch>>
vars == <<store, jobVars, hookVars, faults>>

NoTally == [completed |-> 0, failed |-> 0]
Idle == [at |-> "none", left |-> {}, hook |-> "none", attempt |-> 0]

Init ==
    /\ store \in {"postgres", "memory"}
    /\ row = [j \in Job |-> "none"] /\ tally = [j \in Job |-> NoTally]
    /\ ops = [j \in Job |-> <<>>]
    /\ thread = [j \in Job |-> [at |-> "none", completed |-> 0, failed |-> 0]]
    /\ hook = [h \in Hook |-> "none"] /\ active = [h \in Hook |-> FALSE]
    /\ fails = [h \in Hook |-> 0] /\ peak = [h \in Hook |-> 0]
    /\ dispatch = [a \in Alert |-> Idle]
    /\ faults = 0

\* Only the database fails.
Fault == store = "postgres" /\ faults < MaxFaults /\ faults' = faults + 1
NoFault == faults' = faults

(***************************************************************************)
(* Bulk jobs                                                               *)
(***************************************************************************)
\* api_isp_bulk_operation: the row, and the thread in any case.  The insert also fails for an unknown tenant.
Create(j) ==
    /\ thread[j].at = "none"
    /\ \E n \in 1 .. MaxOps : \E o \in [1 .. n -> Outcome] : ops' = [ops EXCEPT ![j] = o]
    /\ \/ row' = [row EXCEPT ![j] = "running"] /\ NoFault
       \/ row' = row /\ Fault
    /\ thread' = [thread EXCEPT ![j].at = "running"]
    /\ UNCHANGED <<store, tally, hookVars>>

Handled(j) == thread[j].completed + thread[j].failed

\* Mutant of Worked: an operation that raises is counted as one that worked.
BugWorked(o) == o \in {"works", "raises"}

Worked(o) == o = "works"

\* Mutant of EndsThread: nothing catches what an operation raises.
BugEndsThread(o) == o \in {"raises", "malformed"}

\* One that is not an object fails outside of the try.
EndsThread(o) == o = "malformed"

Operate(j) ==
    /\ thread[j].at = "running" /\ Handled(j) < Len(ops[j])
    /\ LET o == ops[j][Handled(j) + 1] IN
        thread' = [thread EXCEPT ![j] =
            [at |-> IF EndsThread(o) THEN "died" ELSE "running",
             completed |-> IF Worked(o) THEN @.completed + 1 ELSE @.completed,
             failed |-> IF Worked(o) \/ EndsThread(o) THEN @.failed ELSE @.failed + 1]]
    /\ UNCHANGED <<store, row, tally, ops, hookVars, faults>>

Status(completed, failed) == IF failed > 0 /\ completed = 0 THEN "failed" ELSE "completed"

\* update_bulk_job, which touches no row when there is none.
Settle(j) ==
    /\ thread[j].at = "running" /\ Handled(j) = Len(ops[j])
    /\ thread' = [thread EXCEPT ![j].at = "ended"]
    /\ \/ /\ row[j] # "none"
          /\ row' = [row EXCEPT ![j] = Status(thread[j].completed, thread[j].failed)]
          /\ tally' = [tally EXCEPT ![j] = [completed |-> thread[j].completed, failed |-> thread[j].failed]]
          /\ NoFault
       \/ row[j] = "none" /\ UNCHANGED <<row, tally>> /\ NoFault
       \/ UNCHANGED <<row, tally>> /\ Fault
    /\ UNCHANGED <<store, ops, hookVars>>

(***************************************************************************)
(* Webhooks                                                                *)
(***************************************************************************)
\* add_webhook: only the database looks at the url.
AddHook(h, kind) ==
    /\ hook[h] = "none" /\ (kind = "unusable" => store = "memory")
    /\ hook' = [hook EXCEPT ![h] = kind]
    /\ active' = [active EXCEPT ![h] = TRUE]
    /\ UNCHANGED <<store, jobVars, fails, peak, dispatch, faults>>

RemoveHook(h) ==
    /\ hook[h] \in {"usable", "unusable"}
    /\ hook' = [hook EXCEPT ![h] = "removed"]
    /\ UNCHANGED <<store, jobVars, active, fails, peak, dispatch, faults>>

Exists(h) == hook[h] \in {"usable", "unusable"}

\* api_isp_create_alert, trigger and get_webhooks_for_event: the list is read once.
RaiseAlert(a) ==
    /\ dispatch[a].at = "none"
    /\ dispatch' = [dispatch EXCEPT ![a] =
            [at |-> "next", left |-> {h \in Hook : Exists(h) /\ active[h]}, hook |-> "none", attempt |-> 0]]
    /\ UNCHANGED <<store, jobVars, hook, active, fails, peak, faults>>

\* The next webhook of the list, whatever has become of it since; a url that is none ends the thread.
Take(a, h) ==
    /\ dispatch[a].at = "next" /\ h \in dispatch[a].left
    /\ \E unusable \in BOOLEAN :
        /\ hook[h] = "usable" => ~unusable
        /\ hook[h] = "unusable" => unusable
        /\ unusable => store = "memory"
        /\ dispatch' = [dispatch EXCEPT ![a].at = IF unusable THEN "died" ELSE "calling",
                                        ![a].left = @ \ {h}, ![a].hook = h, ![a].attempt = 0]
    /\ UNCHANGED <<store, jobVars, hook, active, fails, peak, faults>>

\* One call; after a failure the thread sleeps and calls again, Tries times at most.
Call(a) ==
    /\ dispatch[a].at = "calling"
    /\ \/ dispatch' = [dispatch EXCEPT ![a].at = "delivered"]
       \/ dispatch' = [dispatch EXCEPT ![a].attempt = @ + 1,
                                       ![a].at = IF dispatch[a].attempt + 1 = Tries THEN "failed" ELSE @]
    /\ UNCHANGED <<store, jobVars, hook, active, fails, peak, faults>>

\* The webhook is switched off with this failure; SQL sees the count before it.
SwitchedOff(h) == fails[h] >= Limit - 1

\* update_webhook_status
Record(a) ==
    /\ dispatch[a].at \in {"delivered", "failed"}
    /\ LET h == dispatch[a].hook IN
        \/ /\ Exists(h) /\ dispatch[a].at = "delivered"
           /\ fails' = [fails EXCEPT ![h] = 0]
           /\ NoFault /\ UNCHANGED <<active, peak>>
        \/ /\ Exists(h) /\ dispatch[a].at = "failed"
           /\ fails' = [fails EXCEPT ![h] = @ + 1]
           /\ active' = [active EXCEPT ![h] = @ /\ ~SwitchedOff(h)]
           /\ peak' = [peak EXCEPT ![h] = IF fails'[h] > @ THEN fails'[h] ELSE @]
           /\ NoFault
        \/ ~Exists(h) /\ NoFault /\ UNCHANGED <<active, fails, peak>>
        \/ Fault /\ UNCHANGED <<active, fails, peak>>
    /\ dispatch' = [dispatch EXCEPT ![a].at = "next"]
    /\ UNCHANGED <<store, jobVars, hook>>

(***************************************************************************)
(* The end of the process                                                  *)
(***************************************************************************)
Died(at) == IF at \in {"none", "ended"} THEN at ELSE "died"

Kill ==
    /\ faults < MaxFaults /\ faults' = faults + 1
    /\ thread' = [j \in Job |-> [thread[j] EXCEPT !.at = Died(@)]]
    /\ dispatch' = [a \in Alert |-> [dispatch[a] EXCEPT !.at = Died(@)]]
    /\ IF store = "memory"
       THEN /\ row' = [j \in Job |-> "none"]
            /\ hook' = [h \in Hook |-> IF hook[h] = "none" THEN "none" ELSE "removed"]
       ELSE UNCHANGED <<row, hook>>
    /\ UNCHANGED <<store, tally, ops, active, fails, peak>>

JobStep(j) == Operate(j) \/ Settle(j)
DispatchStep(a) == (\E h \in Hook : Take(a, h)) \/ Call(a) \/ Record(a)

Next ==
    \/ \E j \in Job : Create(j) \/ JobStep(j)
    \/ \E h \in Hook : AddHook(h, "usable") \/ AddHook(h, "unusable") \/ RemoveHook(h)
    \/ \E a \in Alert : RaiseAlert(a) \/ DispatchStep(a)
    \/ Kill

Spec == Init /\ [][Next]_vars /\ \A j \in Job : WF_vars(JobStep(j))

-----------------------------------------------------------------------------
TypeOK ==
    /\ row \in [Job -> {"none", "running", "completed", "failed"}]
    /\ tally \in [Job -> [completed : 0 .. MaxOps, failed : 0 .. MaxOps]]
    /\ \A j \in Job : thread[j].at \in {"none", "running", "ended", "died"} /\ Handled(j) <= Len(ops[j])
    /\ hook \in [Hook -> {"none", "usable", "unusable", "removed"}]
    /\ active \in [Hook -> BOOLEAN] /\ fails \in [Hook -> Nat]
    /\ \A a \in Alert : dispatch[a].at \in {"none", "next", "calling", "delivered", "failed", "died"}

Count(s, outcomes) == Cardinality({i \in DOMAIN s : s[i] \in outcomes})

\* A row with this status and tally tells the truth about these operations.
Tells(status, t, s) ==
    status \in {"completed", "failed"} =>
        /\ t = [completed |-> Count(s, {"works"}), failed |-> Count(s, {"fails", "raises"})]
        /\ t.completed + t.failed = Len(s)
        /\ status = "failed" <=> t.completed = 0

(***************************************************************************)
(* What the row of a bulk job says when it is settled is true: each of its *)
(* operations was carried out once, as many have worked and failed as are  *)
(* counted, and "failed" stands for none that worked.                      *)
(***************************************************************************)
SettledJobIsTrue == \A j \in Job : Tells(row[j], tally[j], ops[j])

(***************************************************************************)
(* A webhook is switched off after Limit failures in a row and never       *)
(* before, however the threads of several alerts overlap.                  *)
(***************************************************************************)
FailingHookIsOff == \A h \in Hook : hook[h] # "none" => (active[h] <=> peak[h] < Limit)

\* What the threads leave behind in the store is what has happened.
ThreadsAreTold == SettledJobIsTrue /\ FailingHookIsOff

(***************************************************************************)
(* A bulk job that says it is running ends, unless one of its operations   *)
(* is malformed, the database fails or the process ends.                   *)
(***************************************************************************)
BulkJobsEnd ==
    \A j \in Job : row[j] = "running" ~>
        row[j] # "running" \/ faults > 0 \/ \E i \in DOMAIN ops[j] : ops[j][i] = "malformed"

(***************************************************************************)
(* "Creates a bulk job and returns its job_id" (tenants.py, line 855).     *)
(* The code does not keep it: after a failed insert, or for a tenant that  *)
(* does not exist, the job is run without a row and answered with the id 0.*)
(***************************************************************************)
JobHasARow == \A j \in Job : thread[j].at = "running" => row[j] # "none"
=============================================================================
