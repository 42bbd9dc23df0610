------------------------------ MODULE RmmTasks ------------------------------
(***************************************************************************)
(* The task queue of the remote monitoring server (emarefirewall/rmm.py    *)
(* behind emarefirewall/routes.py) and the agent that works it off         *)
(* (emarefirewall/agent/emare_agent.py).                                   *)
(*                                                                         *)
(* An agent registers its machine as a device and keeps the key it gets in *)
(* a file.  It polls the server for the pending tasks of its device, runs  *)
(* them one after the other, and sends each result.  The server runs as    *)
(* several processes on one database; the lock of the store is one of each *)
(* process.  An agent gives a request up after 30 seconds; the server may  *)
(* still serve it.  One machine is modelled: a device is only ever seen by *)
(* the agent that has its key.  Heartbeats in the main loop change nothing *)
(* here; the one at the start decides whether the key is kept.             *)
(***************************************************************************)
EXTENDS Naturals, FiniteSets

CONSTANTS
    Task,       \* bounds the tasks created
    Device,     \* bounds the registrations
    Worker,     \* processes of the server
    Request,    \* polls that are under way at a time
    None,       \* no device, request or task; no work
    MaxFaults   \* bound: messages lost, processes killed

ASSUME NoneAssumption == None \notin Device \cup Request \cup Task
ASSUME FaultAssumption == MaxFaults \in Nat

VARIABLES
    devices,    \* the rows of the table devices
    ever,       \* the devices that have been registered
    owner,      \* device_id of each task
    status,     \* status of each task: "none" before it is created
    wire,       \* polls that no process has come to yet
    serving,    \* the poll each process is in, with the rows it has read
    results,    \* results that no process has come to yet
    saved,      \* the key in KEY_FILE
    key,        \* client.agent_key
    at,         \* where the agent stands
    waiting,    \* the poll it waits for
    inbox,      \* the tasks it has yet to run
    current,    \* the task whose result it is about to send
    ran,        \* history: how often each task has been run
    outcome,    \* history: how it ended
    faults

server == <<devices, ever, owner, status>>
net == <<wire, serving, results>>
client == <<saved, key, at, waiting, inbox, current>>
history == <<ran, outcome>>
vars == <<server, net, client, history, faults>>

Settled == {"completed", "failed"}
Free == [id |-> None, device |-> None, batch |-> {}]

Init ==
    /\ devices = {} /\ ever = {}
    /\ owner = [t \in Task |-> None]
    /\ status = [t \in Task |-> "none"]
    /\ wire = {} /\ results = {}
    /\ serving = [w \in Worker |-> Free]
    /\ saved = None /\ key = None
    /\ at = "off" /\ waiting = None /\ inbox = {} /\ current = None
    /\ ran = [t \in Task |-> 0]
    /\ outcome = [t \in Task |-> "none"]
    /\ faults = 0

Fault == faults < MaxFaults /\ faults' = faults + 1

(***************************************************************************)
(* The start of the agent                                                  *)
(***************************************************************************)
Start ==
    /\ at = "off"
    /\ key' = saved
    /\ at' = IF saved = None THEN "registering" ELSE "greeting"
    /\ UNCHANGED <<server, net, saved, waiting, inbox, current, history, faults>>

\* The heartbeat of the start comes back.
Greet ==
    /\ at = "greeting" /\ key \in devices
    /\ at' = "looping"
    /\ UNCHANGED <<server, net, saved, key, waiting, inbox, current, history, faults>>

\* It is refused, or it is not answered at all: the agent registers again.
GreetFails ==
    /\ at = "greeting"
    /\ at' = "registering"
    /\ IF key \in devices THEN Fault ELSE UNCHANGED faults
    /\ UNCHANGED <<server, net, saved, key, waiting, inbox, current, history>>

\* register_device makes a new row for every request.
Register(d) ==
    /\ at = "registering" /\ d \notin ever
    /\ devices' = devices \cup {d} /\ ever' = ever \cup {d}
    /\ \/ at' = "saving" /\ key' = d /\ UNCHANGED faults
       \/ at' = "off" /\ key' = None /\ Fault
    /\ UNCHANGED <<owner, status, net, saved, waiting, inbox, current, history>>

\* The request does not get through: sys.exit(1).
RegisterFails ==
    /\ at = "registering" /\ Fault
    /\ at' = "off" /\ key' = None
    /\ UNCHANGED <<server, net, saved, waiting, inbox, current, history>>

SaveKey ==
    /\ at = "saving"
    /\ saved' = key
    /\ at' = "looping"
    /\ UNCHANGED <<server, net, key, waiting, inbox, current, history, faults>>

(***************************************************************************)
(* The poll: get_tasks, and get_pending_tasks in a process of the server   *)
(***************************************************************************)
UnderWay == {p.id : p \in wire} \cup {serving[w].id : w \in Worker}

SendPoll(i) ==
    /\ at = "looping" /\ i \notin UnderWay
    /\ at' = "polling" /\ waiting' = i
    /\ wire' = wire \cup {[id |-> i, device |-> key]}
    /\ UNCHANGED <<server, serving, results, saved, key, inbox, current, history, faults>>

\* What the agent makes of no answer, or of status 401: there are no tasks.
NoTasks == at' = "looping" /\ waiting' = None

\* The timeout, or a connection that breaks before the server has read the request.
GiveUp ==
    /\ at = "polling" /\ Fault
    /\ NoTasks
    /\ wire' \in {wire, {p \in wire : p.id # waiting}}
    /\ UNCHANGED <<server, serving, results, saved, key, inbox, current, history>>

Pending(d) == {t \in Task : owner[t] = d /\ status[t] = "pending"}

\* The key is accepted, and the rows are selected.
ReadPending(w, p) ==
    /\ serving[w] = Free /\ p \in wire /\ p.device \in devices
    /\ serving' = [serving EXCEPT ![w] =
                     [id |-> p.id, device |-> p.device, batch |-> Pending(p.device)]]
    /\ wire' = wire \ {p}
    /\ UNCHANGED <<server, results, client, history, faults>>

RefusePoll(w, p) ==
    /\ serving[w] = Free /\ p \in wire /\ p.device \notin devices
    /\ wire' = wire \ {p}
    /\ IF waiting = p.id THEN NoTasks ELSE UNCHANGED <<at, waiting>>
    /\ UNCHANGED <<server, serving, results, saved, key, inbox, current, history, faults>>

\* Mutant of Taken: the rows are returned as they are.
BugTaken(batch) == status

\* UPDATE tasks SET status='running', for the rows that are still there
Taken(batch) ==
    [t \in Task |-> IF t \in batch /\ status[t] # "deleted" THEN "running" ELSE status[t]]

\* The rows are marked and committed, and returned to the agent if it still waits.
MarkRunning(w) ==
    /\ serving[w] # Free
    /\ status' = Taken(serving[w].batch)
    /\ serving' = [serving EXCEPT ![w] = Free]
    /\ IF waiting = serving[w].id
       THEN at' = "working" /\ waiting' = None /\ inbox' = serving[w].batch
       ELSE UNCHANGED <<at, waiting, inbox>>
    /\ UNCHANGED <<devices, ever, owner, wire, results, saved, key, current, history, faults>>

\* A process of the server is killed before its commit.
WorkerDies(w) ==
    /\ serving[w] # Free /\ Fault
    /\ serving' = [serving EXCEPT ![w] = Free]
    /\ IF waiting = serving[w].id THEN NoTasks ELSE UNCHANGED <<at, waiting>>
    /\ UNCHANGED <<server, wire, results, saved, key, inbox, current, history>>

(***************************************************************************)
(* The tasks: execute_task, send_task_result, complete_task                *)
(***************************************************************************)
Execute(t) ==
    /\ at = "working" /\ t \in inbox
    /\ at' = "reporting" /\ current' = t
    /\ inbox' = inbox \ {t}
    /\ ran' = [ran EXCEPT ![t] = @ + 1]
    /\ \E end \in Settled : outcome' = [outcome EXCEPT ![t] = end]
    /\ UNCHANGED <<server, net, saved, key, waiting, faults>>

\* Mutant of Report: the first task that fails ends the batch.
BugReport ==
    /\ at = "reporting"
    /\ at' = "working" /\ current' = None
    /\ results' = results \cup {[task |-> current, device |-> key, end |-> outcome[current]]}
    /\ inbox' = IF outcome[current] = "failed" THEN {} ELSE inbox
    /\ UNCHANGED <<server, wire, serving, saved, key, waiting, history, faults>>

\* The next task is run whether the result was delivered or not.
Report ==
    /\ at = "reporting"
    /\ at' = "working" /\ current' = None
    /\ \/ /\ results' = results \cup {[task |-> current, device |-> key, end |-> outcome[current]]}
          /\ UNCHANGED faults
       \/ UNCHANGED results /\ Fault
    /\ UNCHANGED <<server, wire, serving, saved, key, waiting, inbox, history>>

EndBatch ==
    /\ at = "working" /\ inbox = {}
    /\ at' = "looping"
    /\ UNCHANGED <<server, net, saved, key, waiting, inbox, current, history, faults>>

\* Mutant of Complete: every result is a success.
BugComplete(r) ==
    /\ r \in results
    /\ results' = results \ {r}
    /\ status' = IF r.device \in devices /\ status[r.task] # "deleted"
                 THEN [status EXCEPT ![r.task] = "completed"] ELSE status
    /\ UNCHANGED <<devices, ever, owner, wire, serving, client, history, faults>>

\* A result with a key that is accepted settles its task, if the row is still there.
Complete(r) ==
    /\ r \in results
    /\ results' = results \ {r}
    /\ status' = IF r.device \in devices /\ status[r.task] # "deleted"
                 THEN [status EXCEPT ![r.task] = r.end] ELSE status
    /\ UNCHANGED <<devices, ever, owner, wire, serving, client, history, faults>>

LoseResult(r) ==
    /\ r \in results /\ Fault
    /\ results' = results \ {r}
    /\ UNCHANGED <<server, wire, serving, client, history>>

\* The agent is killed; what it had taken is forgotten.
Crash ==
    /\ at # "off" /\ Fault
    /\ at' = "off" /\ key' = None
    /\ waiting' = None /\ inbox' = {} /\ current' = None
    /\ UNCHANGED <<server, net, saved, history>>

(***************************************************************************)
(* The operator: create_task, remove_device                                *)
(***************************************************************************)
\* The device is not looked up: it may have been removed.
CreateTask(t, d) ==
    /\ status[t] = "none" /\ d \in ever
    /\ owner' = [owner EXCEPT ![t] = d]
    /\ status' = [status EXCEPT ![t] = "pending"]
    /\ UNCHANGED <<devices, ever, net, client, history, faults>>

RemoveDevice(d) ==
    /\ d \in devices
    /\ devices' = devices \ {d}
    /\ status' = [t \in Task |-> IF owner[t] = d THEN "deleted" ELSE status[t]]
    /\ UNCHANGED <<ever, owner, net, client, history, faults>>

AgentStep ==
    \/ Start \/ Greet \/ SaveKey \/ EndBatch \/ Report
    \/ \E d \in Device : Register(d)
    \/ \E i \in Request : SendPoll(i)
    \/ \E t \in Task : Execute(t)

WorkerStep(w) == MarkRunning(w) \/ \E p \in wire : ReadPending(w, p) \/ RefusePoll(w, p)

Misfortune ==
    \/ GreetFails \/ RegisterFails \/ GiveUp \/ Crash
    \/ \E w \in Worker : WorkerDies(w)
    \/ \E r \in results : LoseResult(r)

Next ==
    \/ AgentStep
    \/ \E w \in Worker : WorkerStep(w)
    \/ \E r \in results : Complete(r)
    \/ Misfortune
    \/ \E d \in Device : RemoveDevice(d) \/ \E t \in Task : CreateTask(t, d)

\* Processes that are up go on: the agent's loop, the workers, and what is on its way.
Spec ==
    /\ Init /\ [][Next]_vars
    /\ WF_vars(AgentStep)
    /\ WF_vars(GreetFails /\ key \notin devices)
    /\ \A w \in Worker : WF_vars(WorkerStep(w))
    /\ WF_vars(\E r \in results : Complete(r))

-----------------------------------------------------------------------------
Poll == [id : Request, device : Device]

TypeOK ==
    /\ devices \subseteq ever /\ ever \subseteq Device
    /\ owner \in [Task -> Device \cup {None}]
    /\ status \in [Task -> {"none", "pending", "running", "deleted"} \cup Settled]
    /\ wire \subseteq Poll
    /\ serving \in [Worker -> [id : Request, device : Device, batch : SUBSET Task] \cup {Free}]
    /\ results \subseteq [task : Task, device : Device, end : Settled]
    /\ saved \in Device \cup {None} /\ key \in Device \cup {None}
    /\ at \in {"off", "greeting", "registering", "saving", "looping", "polling", "working", "reporting"}
    /\ waiting \in Request \cup {None}
    /\ inbox \subseteq Task
    /\ current \in Task \cup {None}
    /\ ran \in [Task -> Nat]
    /\ outcome \in [Task -> Settled \cup {"none"}]
    /\ faults \in 0 .. MaxFaults

\* A task counts as run once the agent has begun it; before that it is out of the queue
\* as soon as it is not pending.
StageOf(t) ==
    IF ran[t] > 0 THEN "run"
    ELSE IF status[t] = "none" THEN "unknown"
    ELSE IF status[t] = "pending" THEN "waiting" ELSE "out"

Delivery == INSTANCE TaskDelivery WITH stage <- [t \in Task |-> StageOf(t)], ran <- ran

\* However polls overlap in the processes of the server, answers are lost and the agent
\* is restarted, a task is taken out of the queue before it is run, and it is run once
\* at most: the queue and its agent implement TaskDelivery.
DeliversAtMostOnce == Delivery!Spec

\* A task that the server shows as completed or failed was run by the agent, and ended so.
SettledWasRun ==
    \A t \in Task : status[t] \in Settled => ran[t] > 0 /\ outcome[t] = status[t]

\* The order in which a task moves: it is not run before it has been taken from the queue,
\* and a poll that the agent still waits for carries only tasks that were never run.
TasksAreFresh ==
    /\ \A t \in Task : status[t] \in {"none", "pending"} => ran[t] = 0
    /\ \A t \in inbox : ran[t] = 0 /\ status[t] \notin {"none", "pending"}
    /\ \A w \in Worker : \A t \in serving[w].batch :
          status[t] # "none" /\ (serving[w].id = waiting => ran[t] = 0)

TasksAreOwned == \A t \in Task : status[t] = "none" => owner[t] = None

\* What the agent holds at each place of its loop, and what a result stands for.
AgentIsConsistent ==
    /\ waiting # None => at = "polling"
    /\ at \in {"saving", "looping", "polling", "working", "reporting"} => key \in Device
    /\ at = "reporting" =>
          current \in Task /\ ran[current] > 0 /\ outcome[current] \in Settled
    /\ \A r \in results : ran[r.task] > 0 /\ outcome[r.task] = r.end

\* The inductive invariant behind DeliversAtMostOnce and SettledWasRun.
IInv == TypeOK /\ SettledWasRun /\ TasksAreFresh /\ TasksAreOwned /\ AgentIsConsistent

\* Only a lost message or a killed process leaves a task running for ever: as long as
\* there was none, each running task is with the agent or its result is on its way.
RunningIsAccountedFor ==
    faults = 0 => \A t \in Task : status[t] = "running" =>
        t \in inbox \cup {current} \/ \E r \in results : r.task = t

\* Whose tasks are taken: a batch holds those of its device and is given to the device that asked,
\* so that the agent runs and reports its own; and no running task outlives its device.
TasksStayWithTheirDevice ==
    /\ \A t \in Task : status[t] = "running" => owner[t] \in devices
    /\ \A w \in Worker : \A t \in serving[w].batch :
          owner[t] = serving[w].device /\ (status[t] = "deleted" \/ owner[t] \in devices)
    /\ \A p \in wire : p.id = waiting => p.device = key
    /\ \A w \in Worker : serving[w] # Free /\ serving[w].id = waiting => serving[w].device = key
    /\ \A t \in inbox : owner[t] = key
    /\ current # None => at = "reporting" /\ owner[current] = key
    /\ inbox # {} => at \in {"working", "reporting"}
    /\ \A r \in results : owner[r.task] = r.device

\* Without faults there is one poll at most, the one that the agent waits for.
OnePollIsUnderWay ==
    faults = 0 =>
        /\ \A p \in wire : p.id = waiting /\ \A q \in wire : p = q
        /\ \A w \in Worker : serving[w] # Free =>
              /\ serving[w].id = waiting
              /\ wire = {}
              /\ \A v \in Worker : serving[v] # Free => v = w

\* The inductive invariant behind RunningIsAccountedFor.
AccountInv == IInv /\ TasksStayWithTheirDevice /\ OnePollIsUnderWay /\ RunningIsAccountedFor

\* While no message is lost and no process is killed, a task of the device the agent
\* works for is settled in the end, or removed with the device.
TasksSettle ==
    \A t \in Task :
        (status[t] = "pending" /\ owner[t] = key /\ key \in devices)
            ~> (status[t] \in Settled \cup {"deleted"} \/ faults > 0)

\* "Bekleyen gorevleri cek ve calistir" (emarefirewall/agent/README.md:93): the tasks
\* that a poll takes are run, unless the agent is restarted after that or the device
\* is removed.
TakenTasksRun ==
    \A t \in Task : (status[t] = "running" /\ ran[t] = 0)
        ~> (ran[t] > 0 \/ status[t] = "deleted" \/ at = "off")

\* "Mevcut key gecersiz, yeniden register olunuyor" (emare_agent.py:1101): the agent
\* registers again only when its key is not valid.
KeyIsKeptWhileValid ==
    [][at = "greeting" /\ at' = "registering" => key \notin devices]_vars
=============================================================================
