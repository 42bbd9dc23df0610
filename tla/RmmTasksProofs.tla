--------------------------- MODULE RmmTasksProofs ---------------------------
(***************************************************************************)
(* Proofs about the remote monitoring, for any number of tasks, devices,   *)
(* processes, polls, records and faults.  The queue implements             *)
(* TaskDelivery, and a settled task was run: what carries both is that a   *)
(* poll the agent still waits for holds tasks that were never run          *)
(* (TasksAreFresh).  What the server has of a machine is what the agent    *)
(* passed on (EventInv).                                                   *)
(***************************************************************************)
EXTENDS MCRmm, TLAPS

USE NoneAssumption, FaultAssumption

LEMMA InitIInv == Init => IInv
  BY DEF Init, IInv, TypeOK, SettledWasRun, TasksAreFresh, TasksAreOwned, AgentIsConsistent,
           Settled, Free

\* A process that serves no poll holds no tasks.
LEMMA IdleHoldsNothing ==
  ASSUME TypeOK, NEW w \in Worker, serving[w].id = None
  PROVE  serving[w].batch = {}
  BY DEF TypeOK, Free

LEMMA BatchIsOfTasks ==
  ASSUME TypeOK, NEW w \in Worker
  PROVE  serving[w].batch \subseteq Task
  BY DEF TypeOK, Free

\* Starting, registering and saving the key touch neither the tasks nor the polls.
LEMMA StartIInv ==
  ASSUME IInv, Start \/ Greet \/ GreetFails \/ SaveKey \/ RegisterFails \/ EndBatch \/ Crash
               \/ \E d \in Device : Register(d)
  PROVE  IInv'
<1> USE DEF IInv, TypeOK, SettledWasRun, TasksAreFresh, TasksAreOwned, AgentIsConsistent,
           Settled, Fault, server, net, client, history
<1>1. CASE Start
  BY <1>1 DEF Start
<1>2. CASE Greet
  BY <1>2 DEF Greet
<1>3. CASE GreetFails
  BY <1>3 DEF GreetFails
<1>4. CASE SaveKey
  BY <1>4 DEF SaveKey
<1>5. CASE RegisterFails
  BY <1>5 DEF RegisterFails
<1>6. CASE EndBatch
  BY <1>6 DEF EndBatch
<1>7. CASE Crash
  <2>1. TypeOK' /\ SettledWasRun' /\ TasksAreOwned' /\ AgentIsConsistent'
    BY <1>7 DEF Crash
  <2>2. TasksAreFresh'
    BY <1>7, IdleHoldsNothing DEF Crash
  <2> QED
    BY <2>1, <2>2
<1>8. ASSUME NEW d \in Device, Register(d) PROVE IInv'
  BY <1>8 DEF Register
<1> QED
  BY <1>1, <1>2, <1>3, <1>4, <1>5, <1>6, <1>7, <1>8

\* A poll that is sent is a new one: no process serves it yet.
LEMMA SendPollIInv ==
  ASSUME IInv, NEW i \in Request, SendPoll(i)
  PROVE  IInv'
<1> USE DEF IInv, TypeOK, SettledWasRun, TasksAreFresh, TasksAreOwned, AgentIsConsistent,
           Settled, server, net, client, history
<1>1. \A w \in Worker : serving[w].id # i
  BY DEF SendPoll, UnderWay
<1>2. TypeOK'
  BY DEF SendPoll, Poll
<1>3. SettledWasRun' /\ TasksAreOwned' /\ AgentIsConsistent'
  BY DEF SendPoll
<1>4. TasksAreFresh'
  BY <1>1 DEF SendPoll
<1> QED
  BY <1>2, <1>3, <1>4

\* What a process reads is pending, hence was not run.
LEMMA ReadPendingIInv ==
  ASSUME IInv, NEW w \in Worker, NEW p \in wire, ReadPending(w, p)
  PROVE  IInv'
<1> USE DEF IInv, TypeOK, SettledWasRun, TasksAreFresh, TasksAreOwned, AgentIsConsistent,
           Settled, server, net, client, history
<1> DEFINE poll == [id |-> p.id, device |-> p.device, batch |-> Pending(p.device)]
<1>1. poll \in [id : Request, device : Device, batch : SUBSET Task]
  BY DEF Poll, Pending
<1>2. \A t \in Pending(p.device) : status[t] = "pending"
  BY DEF Pending
<1>3. serving' = [serving EXCEPT ![w] = poll]
  BY DEF ReadPending
<1>4. TypeOK'
  BY <1>1, <1>3 DEF ReadPending
<1>5. SettledWasRun' /\ TasksAreOwned' /\ AgentIsConsistent'
  BY DEF ReadPending
<1>6. TasksAreFresh'
  <2>1. UNCHANGED <<status, ran, inbox, waiting>>
    BY DEF ReadPending
  <2>2. \A v \in Worker : serving'[v] = IF v = w THEN poll ELSE serving[v]
    BY <1>3
  <2>3. poll.batch = Pending(p.device) /\ Pending(p.device) \subseteq Task
    BY DEF Pending
  <2> HIDE DEF poll
  <2>4. ASSUME NEW v \in Worker, NEW t \in serving'[v].batch
        PROVE  status'[t] # "none" /\ (serving'[v].id = waiting' => ran'[t] = 0)
    BY <1>2, <2>1, <2>2, <2>3, <2>4
  <2> QED
    BY <2>1, <2>4
<1> QED
  BY <1>4, <1>5, <1>6

\* A poll that ends without an answer leaves the tasks as they are.
LEMMA NoAnswerIInv ==
  ASSUME IInv,
         \/ GiveUp
         \/ \E w \in Worker : WorkerDies(w) \/ \E p \in wire : RefusePoll(w, p)
  PROVE  IInv'
<1> USE DEF IInv, TypeOK, SettledWasRun, TasksAreFresh, TasksAreOwned, AgentIsConsistent,
           Settled, Fault, NoTasks, server, net, client, history, Poll
<1>1. CASE GiveUp
  <2>1. wire' \subseteq wire
    BY <1>1 DEF GiveUp
  <2>2. TypeOK' /\ SettledWasRun' /\ TasksAreOwned' /\ AgentIsConsistent'
    BY <1>1, <2>1 DEF GiveUp
  <2>3. TasksAreFresh'
    BY <1>1, IdleHoldsNothing DEF GiveUp
  <2> QED
    BY <2>2, <2>3
<1>2. ASSUME NEW w \in Worker, WorkerDies(w) PROVE IInv'
  <2>1. serving[w].id # None
    BY <1>2 DEF WorkerDies
  <2>2. serving' = [serving EXCEPT ![w] = Free] /\ Free.batch = {}
    BY <1>2 DEF WorkerDies, Free
  <2>3. TypeOK'
    BY <1>2 DEF WorkerDies
  <2>4. SettledWasRun' /\ TasksAreOwned' /\ AgentIsConsistent'
    BY <1>2, <2>1 DEF WorkerDies
  <2>5. TasksAreFresh'
    BY <1>2, <2>2 DEF WorkerDies, Free
  <2> QED
    BY <2>3, <2>4, <2>5
<1>3. ASSUME NEW w \in Worker, NEW p \in wire, RefusePoll(w, p) PROVE IInv'
  BY <1>3, IdleHoldsNothing DEF RefusePoll
<1> QED
  BY <1>1, <1>2, <1>3

\* Marking a batch takes its tasks out of the queue and brings none back.
LEMMA TakenIsOut ==
  ASSUME TypeOK, NEW mine \in SUBSET Task, \A t \in mine : status[t] # "none"
  PROVE  /\ Taken(mine) \in [Task -> {"none", "pending", "running", "deleted"} \cup Settled]
         /\ \A t \in Task : Taken(mine)[t] \in {status[t], "running"}
         /\ \A t \in mine : Taken(mine)[t] \in {"running", "deleted"}
         /\ \A t \in Task \ mine : Taken(mine)[t] = status[t]
         /\ \A t \in Task : Taken(mine)[t] = "none" <=> status[t] = "none"
  BY DEF TypeOK, Taken, Settled

LEMMA MarkRunningIInv ==
  ASSUME IInv, NEW w \in Worker, MarkRunning(w)
  PROVE  IInv'
<1> USE DEF IInv, TypeOK, SettledWasRun, TasksAreFresh, TasksAreOwned, AgentIsConsistent,
           Settled, server, net, client, history
<1> DEFINE mine == serving[w].batch
<1>1. serving[w] \in [id : Request, device : Device, batch : SUBSET Task]
  BY DEF MarkRunning
<1>2. /\ \A t \in Task : status'[t] \in {status[t], "running"}
      /\ \A t \in mine : status'[t] \in {"running", "deleted"}
      /\ \A t \in Task : status'[t] = "none" <=> status[t] = "none"
      /\ status' \in [Task -> {"none", "pending", "running", "deleted"} \cup Settled]
  BY <1>1, TakenIsOut DEF MarkRunning
<1>3. serving' = [serving EXCEPT ![w] = Free] /\ Free.batch = {}
  BY DEF MarkRunning, Free
<1>4. \A v \in Worker : serving[v].id = None => serving[v].batch = {}
  BY IdleHoldsNothing
<1>5. TypeOK'
  BY <1>1, <1>2 DEF MarkRunning
<1>6. SettledWasRun' /\ TasksAreOwned' /\ AgentIsConsistent'
  BY <1>1, <1>2 DEF MarkRunning
<1>7. TasksAreFresh'
  <2>1. \A t \in Task : status'[t] \in {"none", "pending"} => ran'[t] = 0
    BY <1>2 DEF MarkRunning
  <2>2. \A t \in inbox' : ran'[t] = 0 /\ status'[t] \notin {"none", "pending"}
    BY <1>1, <1>2 DEF MarkRunning
  <2>3. \A v \in Worker : \A t \in serving'[v].batch :
          status'[t] # "none" /\ (serving'[v].id = waiting' => ran'[t] = 0)
    BY <1>1, <1>2, <1>3, <1>4 DEF MarkRunning, Free
  <2> QED
    BY <2>1, <2>2, <2>3
<1> QED
  BY <1>5, <1>6, <1>7

\* The agent waits for nothing while it works: running a task makes no poll stale.
LEMMA ExecuteIInv ==
  ASSUME IInv, NEW t \in Task, Execute(t)
  PROVE  IInv'
<1> USE DEF IInv, TypeOK, SettledWasRun, TasksAreFresh, TasksAreOwned, AgentIsConsistent,
           Settled, server, net, client, history
<1>1. PICK end \in Settled : outcome' = [outcome EXCEPT ![t] = end]
  BY DEF Execute
<1>2. ran[t] = 0 /\ status[t] \notin Settled \cup {"none", "pending"}
  BY DEF Execute
<1>3. ran' = [ran EXCEPT ![t] = 1]
  BY <1>2 DEF Execute
<1>4. \A v \in Worker : serving[v].id = waiting => serving[v].batch = {}
  BY DEF Execute, Free
<1>5. TypeOK'
  BY <1>1, <1>3 DEF Execute
<1>6. SettledWasRun' /\ TasksAreOwned'
  BY <1>1, <1>2, <1>3 DEF Execute
<1>7. TasksAreFresh'
  BY <1>2, <1>3, <1>4 DEF Execute
<1>8. AgentIsConsistent'
  BY <1>1, <1>2, <1>3 DEF Execute
<1> QED
  BY <1>5, <1>6, <1>7, <1>8

\* A result says how its task ended, and settles a task that was run.
LEMMA ResultIInv ==
  ASSUME IInv, Report \/ \E r \in results : Complete(r) \/ LoseResult(r)
  PROVE  IInv'
<1> USE DEF IInv, TypeOK, SettledWasRun, TasksAreFresh, TasksAreOwned, AgentIsConsistent,
           Settled, Fault, server, net, client, history
<1>1. CASE Report
  <2>1. current \in Task /\ key \in Device /\ outcome[current] \in Settled
    BY <1>1 DEF Report
  <2>2. [task |-> current, device |-> key, end |-> outcome[current]]
          \in [task : Task, device : Device, end : Settled]
    BY <2>1
  <2> QED
    BY <1>1, <2>1, <2>2 DEF Report
<1>2. ASSUME NEW r \in results, Complete(r) PROVE IInv'
  BY <1>2 DEF Complete
<1>3. ASSUME NEW r \in results, LoseResult(r) PROVE IInv'
  BY <1>3 DEF LoseResult
<1> QED
  BY <1>1, <1>2, <1>3

\* The operator creates tasks that were never run, and deletes rows.
LEMMA OperatorIInv ==
  ASSUME IInv, NEW d \in Device, RemoveDevice(d) \/ \E t \in Task : CreateTask(t, d)
  PROVE  IInv'
<1> USE DEF IInv, TypeOK, SettledWasRun, TasksAreFresh, TasksAreOwned, AgentIsConsistent,
           Settled, server, net, client, history
<1>1. CASE RemoveDevice(d)
  <2>1. /\ status' \in [Task -> {"none", "pending", "running", "deleted"} \cup Settled]
        /\ \A t \in Task : status'[t] \in {status[t], "deleted"}
    BY <1>1 DEF RemoveDevice
  <2>2. UNCHANGED <<ever, owner, net, client, history, faults>> /\ devices' \subseteq devices
    BY <1>1 DEF RemoveDevice
  <2>3. TypeOK'
    BY <2>1, <2>2
  <2>4. SettledWasRun' /\ TasksAreOwned' /\ AgentIsConsistent'
    BY <2>1, <2>2
  <2>5. \A w \in Worker : serving[w].batch \subseteq Task
    BY BatchIsOfTasks
  <2>6. TasksAreFresh'
    BY <2>1, <2>2, <2>5
  <2> QED
    BY <2>3, <2>4, <2>6
<1>2. ASSUME NEW t \in Task, CreateTask(t, d) PROVE IInv'
  BY <1>2 DEF CreateTask
<1> QED
  BY <1>1, <1>2

LEMMA NextIInv == IInv /\ [Next]_vars => IInv'
<1> SUFFICES ASSUME IInv, [Next]_vars PROVE IInv'
  OBVIOUS
<1>1. CASE UNCHANGED vars
  BY <1>1 DEF vars, server, net, client, history, IInv, TypeOK, SettledWasRun, TasksAreFresh,
              TasksAreOwned, AgentIsConsistent
<1>2. CASE Next
  BY <1>2, StartIInv, SendPollIInv, ReadPendingIInv, NoAnswerIInv, MarkRunningIInv,
     ExecuteIInv, ResultIInv, OperatorIInv DEF Next, AgentStep, WorkerStep, Misfortune
<1> QED
  BY <1>1, <1>2

\* The tables, the polls and the agent are well formed for any number of tasks, devices,
\* processes and faults.
THEOREM TypeCorrect == Spec => []TypeOK
<1>1. IInv => TypeOK
  BY DEF IInv
<1> QED
  BY InitIInv, NextIInv, <1>1, PTL DEF Spec

\* However messages are lost and processes killed, a task that the server shows as
\* completed or failed was run, and ended so.
THEOREM SettledTasksWereRun == Spec => []SettledWasRun
<1>1. IInv => SettledWasRun
  BY DEF IInv
<1> QED
  BY InitIInv, NextIInv, <1>1, PTL DEF Spec

-----------------------------------------------------------------------------
(* The refinement.  Most steps leave every stage and every count as they are. *)
LEMMA SameStages ==
  ASSUME UNCHANGED <<status, ran>>
  PROVE  UNCHANGED Delivery!vars
  BY DEF Delivery!vars, StageOf

\* Marking a batch takes those of its tasks out that still wait.
LEMMA MarkRunningDelivers ==
  ASSUME IInv, NEW w \in Worker, MarkRunning(w)
  PROVE  \E mine \in SUBSET Task : Delivery!TakeOut(mine)
<1> DEFINE mine == {t \in serving[w].batch : status[t] = "pending" /\ ran[t] = 0}
<1>1. serving[w].batch \subseteq Task /\ \A t \in serving[w].batch : status[t] # "none"
  BY BatchIsOfTasks DEF IInv, TasksAreFresh
<1>2. /\ \A t \in serving[w].batch : status'[t] \in {"running", "deleted"}
      /\ \A t \in Task \ serving[w].batch : status'[t] = status[t]
      /\ ran' = ran
  BY <1>1, TakenIsOut DEF IInv, MarkRunning, history
<1>3. \A t \in Task : ran[t] \in Nat
  BY DEF IInv, TypeOK
<1>4. \A t \in mine : StageOf(t) = "waiting" /\ StageOf(t)' = "out"
  BY <1>1, <1>2, <1>3 DEF StageOf
<1>5. \A t \in Task \ mine : StageOf(t)' = StageOf(t)
  BY <1>1, <1>2, <1>3 DEF StageOf
<1>6. Delivery!TakeOut(mine)
  BY <1>1, <1>2, <1>4, <1>5 DEF Delivery!TakeOut
<1>7. mine \in SUBSET Task
  BY <1>1
<1> QED
  BY <1>6, <1>7

\* Removing a device takes its tasks out.
LEMMA RemoveDeviceDelivers ==
  ASSUME IInv, NEW d \in Device, RemoveDevice(d)
  PROVE  \E mine \in SUBSET Task : Delivery!TakeOut(mine)
<1> DEFINE mine == {t \in Task : owner[t] = d /\ StageOf(t) = "waiting"}
<1>1. ran' = ran /\ \A t \in Task : status'[t] = IF owner[t] = d THEN "deleted" ELSE status[t]
  BY DEF RemoveDevice, history
<1>2. \A t \in Task : ran[t] \in Nat
  BY DEF IInv, TypeOK
<1>3. \A t \in Task : owner[t] = d => status[t] # "none"
  BY DEF IInv, TasksAreOwned
<1>4. \A t \in mine : StageOf(t)' = "out"
  BY <1>1, <1>2 DEF StageOf
<1>5. \A t \in Task \ mine : StageOf(t)' = StageOf(t)
  BY <1>1, <1>2, <1>3 DEF StageOf
<1>6. Delivery!TakeOut(mine)
  BY <1>1, <1>4, <1>5 DEF Delivery!TakeOut
<1> QED
  BY <1>6

\* A task that the agent runs is out of the queue and was not run before.
LEMMA ExecuteDelivers ==
  ASSUME IInv, NEW t \in Task, Execute(t)
  PROVE  Delivery!Run(t)
<1>1. ran[t] = 0 /\ status[t] \notin {"none", "pending"} /\ UNCHANGED status
  BY DEF IInv, TasksAreFresh, Execute, server
<1>2. ran' = [ran EXCEPT ![t] = @ + 1] /\ ran \in [Task -> Nat]
  BY DEF IInv, TypeOK, Execute
<1>3. StageOf(t) = "out" /\ StageOf(t)' = "run"
  BY <1>1, <1>2 DEF StageOf
<1>4. \A s \in Task \ {t} : StageOf(s)' = StageOf(s)
  BY <1>1, <1>2 DEF StageOf
<1> QED
  BY <1>2, <1>3, <1>4 DEF Delivery!Run

LEMMA CreateTaskDelivers ==
  ASSUME IInv, NEW t \in Task, NEW d \in Device, CreateTask(t, d)
  PROVE  Delivery!Create(t)
<1>1. ran[t] = 0 /\ ran' = ran /\ status[t] = "none"
  BY DEF IInv, TasksAreFresh, CreateTask, history
<1>2. status'[t] = "pending" /\ \A s \in Task \ {t} : status'[s] = status[s]
  BY DEF IInv, TypeOK, CreateTask
<1>3. StageOf(t) = "unknown" /\ StageOf(t)' = "waiting"
  BY <1>1, <1>2 DEF StageOf
<1>4. \A s \in Task \ {t} : StageOf(s)' = StageOf(s)
  BY <1>1, <1>2 DEF StageOf
<1> QED
  BY <1>1, <1>3, <1>4 DEF Delivery!Create

\* A result changes the status of a task that has been run: its stage stays.
LEMMA CompleteDelivers ==
  ASSUME IInv, NEW r \in results, Complete(r)
  PROVE  UNCHANGED Delivery!vars
<1>1. ran[r.task] > 0 /\ ran' = ran
  BY DEF IInv, AgentIsConsistent, Complete, history
<1>2. \A t \in Task : t # r.task => status'[t] = status[t]
  BY DEF IInv, TypeOK, Complete
<1>3. \A t \in Task : StageOf(t)' = StageOf(t)
  BY <1>1, <1>2 DEF StageOf
<1> QED
  BY <1>1, <1>3 DEF Delivery!vars

LEMMA InitDelivers == Init => Delivery!Init
  BY DEF Init, Delivery!Init, StageOf

LEMMA NextDelivers == IInv /\ [Next]_vars => [Delivery!Next]_Delivery!vars
<1> SUFFICES ASSUME IInv, [Next]_vars PROVE [Delivery!Next]_Delivery!vars
  OBVIOUS
<1>1. CASE UNCHANGED <<status, ran>>
  BY <1>1, SameStages
<1>2. ASSUME NEW w \in Worker, MarkRunning(w) PROVE Delivery!Next
  BY <1>2, MarkRunningDelivers DEF Delivery!Next
<1>3. ASSUME NEW d \in Device, RemoveDevice(d) PROVE Delivery!Next
  BY <1>3, RemoveDeviceDelivers DEF Delivery!Next
<1>4. ASSUME NEW t \in Task, Execute(t) PROVE Delivery!Next
  BY <1>4, ExecuteDelivers DEF Delivery!Next
<1>5. ASSUME NEW t \in Task, NEW d \in Device, CreateTask(t, d) PROVE Delivery!Next
  BY <1>5, CreateTaskDelivers DEF Delivery!Next
<1>6. ASSUME NEW r \in results, Complete(r) PROVE UNCHANGED Delivery!vars
  BY <1>6, CompleteDelivers
<1>7. Start \/ Greet \/ SaveKey \/ EndBatch \/ Report \/ Misfortune => UNCHANGED <<status, ran>>
  BY DEF Start, Greet, SaveKey, EndBatch, Report, Misfortune, GreetFails, RegisterFails, GiveUp,
         Crash, WorkerDies, LoseResult, server, history
<1>8. /\ \A d \in Device : Register(d) => UNCHANGED <<status, ran>>
      /\ \A i \in Request : SendPoll(i) => UNCHANGED <<status, ran>>
      /\ \A w \in Worker, p \in wire : ReadPending(w, p) \/ RefusePoll(w, p) => UNCHANGED <<status, ran>>
  BY DEF Register, SendPoll, ReadPending, RefusePoll, server, history
<1>9. UNCHANGED vars => UNCHANGED <<status, ran>>
  BY DEF vars, server, history
<1> QED
  BY <1>1, <1>2, <1>3, <1>4, <1>5, <1>6, <1>7, <1>8, <1>9 DEF Next, AgentStep, WorkerStep

\* The task queue and its agent implement TaskDelivery: with any number of overlapping
\* polls, lost messages and killed processes no task is run twice, and none that was not
\* taken out of the queue first.
THEOREM QueueDelivers == Spec => DeliversAtMostOnce
  BY InitIInv, NextIInv, InitDelivers, NextDelivers, PTL
  DEF Spec, DeliversAtMostOnce, Delivery!Spec

-----------------------------------------------------------------------------
(* Running tasks.  While there is no fault one poll at most is under way, and what it takes goes to *)
(* the agent that waits for it; tasks stay with the device that polls for them, so that a result    *)
(* that is refused is one of a task that went with its device.                                      *)

LEMMA InitAccount == Init => AccountInv
  BY InitIInv DEF Init, AccountInv, TasksStayWithTheirDevice, OnePollIsUnderWay,
                  RunningIsAccountedFor, Free

\* Whoever waits for nothing waits for no poll that there is.
LEMMA PollsHaveIds ==
  ASSUME TypeOK
  PROVE  /\ \A p \in wire : p.id # None
         /\ \A w \in Worker : serving[w] # Free => serving[w].id # None
         /\ \A w \in Worker : serving[w] = Free => serving[w].batch = {}
<1>1. \A p \in wire : p.id # None
  BY DEF TypeOK, Poll
<1>2. ASSUME NEW w \in Worker, serving[w] # Free PROVE serving[w].id # None
  <2>1. serving[w] \in [id : Request, device : Device, batch : SUBSET Task]
    BY <1>2 DEF TypeOK
  <2> QED
    BY <2>1
<1>3. ASSUME NEW w \in Worker, serving[w] = Free PROVE serving[w].batch = {}
  BY <1>3 DEF Free
<1> QED
  BY <1>1, <1>2, <1>3

\* The steps in which the agent starts, registers or is killed.
LEMMA StartKeepsTasks ==
  ASSUME AccountInv, Start \/ Greet \/ GreetFails \/ SaveKey \/ RegisterFails \/ EndBatch \/ Crash
                     \/ \E d \in Device : Register(d)
  PROVE  TasksStayWithTheirDevice'
<1> USE PollsHaveIds DEF AccountInv, IInv, TypeOK, TasksStayWithTheirDevice, AgentIsConsistent,
            server, net, client, history
<1>1. CASE Start
  BY <1>1 DEF Start
<1>2. CASE Greet
  BY <1>2 DEF Greet
<1>3. CASE GreetFails
  BY <1>3 DEF GreetFails
<1>4. CASE SaveKey
  BY <1>4 DEF SaveKey
<1>5. CASE RegisterFails
  BY <1>5 DEF RegisterFails
<1>6. CASE EndBatch
  BY <1>6 DEF EndBatch
<1>7. CASE Crash
  BY <1>7 DEF Crash
<1>8. ASSUME NEW d \in Device, Register(d) PROVE TasksStayWithTheirDevice'
  BY <1>8 DEF Register
<1> QED
  BY <1>1, <1>2, <1>3, <1>4, <1>5, <1>6, <1>7, <1>8

\* A poll is sent, given up, refused, or read, or the process that serves it dies.
LEMMA PollKeepsTasks ==
  ASSUME AccountInv,
         \/ \E i \in Request : SendPoll(i)
         \/ GiveUp
         \/ \E w \in Worker : WorkerDies(w) \/ \E p \in wire : RefusePoll(w, p) \/ ReadPending(w, p)
  PROVE  TasksStayWithTheirDevice'
<1> USE PollsHaveIds DEF AccountInv, IInv, TypeOK, TasksStayWithTheirDevice, AgentIsConsistent,
            NoTasks, server, net, client, history
<1>1. ASSUME NEW i \in Request, SendPoll(i) PROVE TasksStayWithTheirDevice'
  <2>1. (\A w \in Worker : serving[w].id # i) /\ \A p \in wire : p.id # i
    BY <1>1 DEF SendPoll, UnderWay
  <2> QED
    BY <1>1, <2>1 DEF SendPoll
<1>2. CASE GiveUp
  <2>1. wire' \subseteq wire
    BY <1>2 DEF GiveUp
  <2> QED
    BY <1>2, <2>1 DEF GiveUp
<1>3. ASSUME NEW w \in Worker, WorkerDies(w) PROVE TasksStayWithTheirDevice'
  <2>1. serving' = [serving EXCEPT ![w] = Free] /\ Free.batch = {}
    BY <1>3 DEF WorkerDies, Free
  <2> QED
    BY <1>3, <2>1 DEF WorkerDies
<1>4. ASSUME NEW w \in Worker, NEW p \in wire, RefusePoll(w, p) PROVE TasksStayWithTheirDevice'
  BY <1>4 DEF RefusePoll
<1>5. ASSUME NEW w \in Worker, NEW p \in wire, ReadPending(w, p) PROVE TasksStayWithTheirDevice'
  <2> DEFINE poll == [id |-> p.id, device |-> p.device, batch |-> Pending(p.device)]
  <2>1. poll.id = p.id /\ poll.device = p.device /\ poll.batch = Pending(p.device)
    OBVIOUS
  <2>2. \A t \in Pending(p.device) : t \in Task /\ owner[t] = p.device
    BY DEF Pending
  <2>3. p.device \in devices
    BY <1>5 DEF ReadPending
  <2>4. \A v \in Worker : serving'[v] = IF v = w THEN poll ELSE serving[v]
    BY <1>5 DEF ReadPending
  <2> HIDE DEF poll
  <2>5. \A v \in Worker : \A t \in serving'[v].batch :
          owner[t] = serving'[v].device /\ (status[t] = "deleted" \/ owner[t] \in devices)
    BY <2>1, <2>2, <2>3, <2>4
  <2>6. \A v \in Worker : serving'[v].id = waiting /\ serving'[v] # Free => serving'[v].device = key
    BY <2>1, <2>4
  <2> QED
    BY <1>5, <2>5, <2>6 DEF ReadPending
<1> QED
  BY <1>1, <1>2, <1>3, <1>4, <1>5

\* The agent takes what was read for it, runs it and reports it.
LEMMA WorkKeepsTasks ==
  ASSUME AccountInv,
         \/ Report
         \/ \E w \in Worker : MarkRunning(w)
         \/ \E t \in Task : Execute(t)
         \/ \E r \in results : Complete(r) \/ LoseResult(r)
  PROVE  TasksStayWithTheirDevice'
<1> USE PollsHaveIds DEF AccountInv, IInv, TypeOK, TasksStayWithTheirDevice, AgentIsConsistent,
            server, net, client, history
<1>1. ASSUME NEW w \in Worker, MarkRunning(w) PROVE TasksStayWithTheirDevice'
  <2> DEFINE mine == serving[w].batch
  <2>1. /\ \A t \in Task : status'[t] \in {status[t], "running"}
        /\ \A t \in Task : status'[t] = "running" => status[t] = "running" \/ (t \in mine /\ status[t] # "deleted")
        /\ \A t \in Task : status[t] = "deleted" => status'[t] = "deleted"
    BY <1>1 DEF MarkRunning, Taken
  <2>2. /\ serving' = [serving EXCEPT ![w] = Free] /\ Free.batch = {}
        /\ UNCHANGED <<devices, owner, wire, results, key, current>>
    BY <1>1 DEF MarkRunning, Free
  <2>3. mine \subseteq Task /\ \A v \in Worker : serving[v].batch \subseteq Task
    BY BatchIsOfTasks
  <2>4. \A t \in Task : status'[t] = "running" => owner[t] \in devices
    BY <2>1
  <2>5. \A v \in Worker : \A t \in serving'[v].batch :
          owner[t] = serving'[v].device /\ (status'[t] = "deleted" \/ owner[t] \in devices)
    BY <2>1, <2>2, <2>3
  <2>6. CASE waiting = serving[w].id
    <3>1. serving[w] # Free /\ at' = "working" /\ waiting' = None /\ inbox' = mine /\ at = "polling"
      BY <1>1, <2>6 DEF MarkRunning
    <3>2. \A t \in inbox' : owner[t] = key
      BY <2>6, <3>1
    <3> QED
      BY <2>2, <2>4, <2>5, <3>1, <3>2
  <2>7. CASE waiting # serving[w].id
    <3>1. UNCHANGED <<at, waiting, inbox>>
      BY <1>1, <2>7 DEF MarkRunning
    <3> QED
      BY <2>2, <2>4, <2>5, <3>1
  <2> QED
    BY <2>6, <2>7
<1>2. ASSUME NEW t \in Task, Execute(t) PROVE TasksStayWithTheirDevice'
  BY <1>2 DEF Execute
<1>3. CASE Report
  <2>1. current # None /\ owner[current] = key
    BY <1>3 DEF Report
  <2>2. \A r \in results' : r \in results \/ (r.task = current /\ r.device = key)
    BY <1>3 DEF Report
  <2> QED
    BY <1>3, <2>1, <2>2 DEF Report
<1>4. ASSUME NEW r \in results, Complete(r) PROVE TasksStayWithTheirDevice'
  <2>1. \A t \in Task : status'[t] \in {status[t]} \cup Settled /\ (status[t] = "deleted" => status'[t] = "deleted")
    BY <1>4 DEF Complete
  <2>2. \A v \in Worker : serving[v].batch \subseteq Task
    BY BatchIsOfTasks
  <2> QED
    BY <1>4, <2>1, <2>2 DEF Complete, Settled
<1>5. ASSUME NEW r \in results, LoseResult(r) PROVE TasksStayWithTheirDevice'
  BY <1>5 DEF LoseResult
<1> QED
  BY <1>1, <1>2, <1>3, <1>4, <1>5

\* A task that is created was in no batch; the tasks of a device that is removed are deleted with it.
LEMMA OperatorKeepsTasks ==
  ASSUME AccountInv, NEW d \in Device, RemoveDevice(d) \/ \E t \in Task : CreateTask(t, d)
  PROVE  TasksStayWithTheirDevice'
<1> USE PollsHaveIds DEF AccountInv, IInv, TypeOK, TasksStayWithTheirDevice, AgentIsConsistent,
            TasksAreFresh, server, net, client, history
<1>1. CASE RemoveDevice(d)
  <2>1. /\ \A t \in Task : status'[t] = IF owner[t] = d THEN "deleted" ELSE status[t]
        /\ devices' = devices \ {d} /\ UNCHANGED <<ever, owner, net, client, history, faults>>
    BY <1>1 DEF RemoveDevice
  <2>2. \A w \in Worker : serving[w].batch \subseteq Task
    BY BatchIsOfTasks
  <2> QED
    BY <2>1, <2>2
<1>2. ASSUME NEW t \in Task, CreateTask(t, d) PROVE TasksStayWithTheirDevice'
  <2>1. /\ status[t] = "none" /\ owner' = [owner EXCEPT ![t] = d]
        /\ status' = [status EXCEPT ![t] = "pending"]
        /\ UNCHANGED <<devices, ever, net, client, history, faults>>
    BY <1>2 DEF CreateTask
  <2>2. /\ \A w \in Worker : serving[w].batch \subseteq Task \ {t}
        /\ t \notin inbox /\ (current # None => current # t) /\ \A r \in results : r.task # t
    BY <2>1, BatchIsOfTasks
  <2> QED
    BY <2>1, <2>2
<1> QED
  BY <1>1, <1>2

\* A fault, once it has happened, is counted for ever, and there is nothing more to show.
LEMMA FaultEndsAccount ==
  ASSUME TypeOK, Fault
  PROVE  OnePollIsUnderWay' /\ RunningIsAccountedFor'
  BY DEF TypeOK, Fault, OnePollIsUnderWay, RunningIsAccountedFor

LEMMA OnePollStays == AccountInv /\ [Next]_vars => OnePollIsUnderWay'
<1> SUFFICES ASSUME AccountInv, [Next]_vars PROVE OnePollIsUnderWay'
  OBVIOUS
<1> USE PollsHaveIds, FaultEndsAccount DEF AccountInv, IInv, TypeOK, OnePollIsUnderWay, AgentIsConsistent,
            server, net, client, history
<1>1. CASE UNCHANGED vars
  BY <1>1 DEF vars
<1>2. CASE UNCHANGED <<wire, serving, waiting, faults>>
  BY <1>2
<1>3. CASE Start \/ Greet \/ SaveKey \/ EndBatch
  BY <1>3 DEF Start, Greet, SaveKey, EndBatch
<1>4. CASE Report \/ \E r \in results : Complete(r)
  BY <1>4 DEF Report, Complete
<1>5. ASSUME NEW d \in Device, Register(d) PROVE OnePollIsUnderWay'
  BY <1>5 DEF Register
<1>6. ASSUME NEW i \in Request, SendPoll(i) PROVE OnePollIsUnderWay'
  BY <1>6 DEF SendPoll
<1>7. ASSUME NEW t \in Task, Execute(t) PROVE OnePollIsUnderWay'
  BY <1>7 DEF Execute
<1>8. ASSUME NEW w \in Worker, MarkRunning(w) PROVE OnePollIsUnderWay'
  <2>1. serving' = [serving EXCEPT ![w] = Free] /\ UNCHANGED <<wire, faults>>
    BY <1>8 DEF MarkRunning
  <2> QED
    BY <1>8, <2>1 DEF MarkRunning
<1>9. ASSUME NEW w \in Worker, NEW p \in wire, ReadPending(w, p) PROVE OnePollIsUnderWay'
  <2> DEFINE poll == [id |-> p.id, device |-> p.device, batch |-> Pending(p.device)]
  <2>1. /\ serving' = [serving EXCEPT ![w] = poll] /\ serving[w] = Free
        /\ wire' = wire \ {p} /\ UNCHANGED <<waiting, faults>>
    BY <1>9 DEF ReadPending
  <2>2. poll.id = p.id
    OBVIOUS
  <2> HIDE DEF poll
  <2> QED
    BY <2>1, <2>2
<1>10. ASSUME NEW w \in Worker, NEW p \in wire, RefusePoll(w, p) PROVE OnePollIsUnderWay'
  BY <1>10 DEF RefusePoll
<1>11. CASE GiveUp \/ Crash \/ RegisterFails \/ (\E w \in Worker : WorkerDies(w))
                   \/ \E r \in results : LoseResult(r)
  BY <1>11 DEF GiveUp, Crash, RegisterFails, WorkerDies, LoseResult
<1>12. CASE GreetFails
  BY <1>12 DEF GreetFails
<1>13. ASSUME NEW d \in Device, RemoveDevice(d) \/ \E t \in Task : CreateTask(t, d)
       PROVE  OnePollIsUnderWay'
  BY <1>13 DEF RemoveDevice, CreateTask
<1> QED
  BY <1>1, <1>3, <1>4, <1>5, <1>6, <1>7, <1>8, <1>9, <1>10, <1>11, <1>12, <1>13
  DEF Next, AgentStep, WorkerStep, Misfortune

LEMMA RunningStaysAccountedFor == AccountInv /\ [Next]_vars => RunningIsAccountedFor'
<1> SUFFICES ASSUME AccountInv, [Next]_vars PROVE RunningIsAccountedFor'
  OBVIOUS
<1> USE PollsHaveIds, FaultEndsAccount DEF AccountInv, IInv, TypeOK, RunningIsAccountedFor, AgentIsConsistent,
            TasksStayWithTheirDevice, server, net, client, history
<1>1. CASE UNCHANGED vars
  BY <1>1 DEF vars
<1>2. CASE Start \/ Greet \/ SaveKey \/ EndBatch \/ GreetFails
  BY <1>2 DEF Start, Greet, SaveKey, EndBatch, GreetFails
<1>3. CASE Report
  <2> DEFINE report == [task |-> current, device |-> key, end |-> outcome[current]]
  <2>1. CASE results' = results \cup {report}
    <3>1. report \in results' /\ report.task = current /\ \A r \in results : r \in results'
      BY <2>1
    <3> HIDE DEF report
    <3> QED
      BY <1>3, <3>1 DEF Report
  <2>2. CASE Fault
    BY <2>2
  <2> QED
    BY <1>3, <2>1, <2>2 DEF Report
<1>4. ASSUME NEW r \in results, Complete(r) PROVE RunningIsAccountedFor'
  \* a result that is refused is of a task that went with its device
  <2>1. \A t \in Task : status'[t] = "running" => status[t] = "running" /\ t # r.task
    BY <1>4 DEF Complete, Settled
  <2> QED
    BY <1>4, <2>1 DEF Complete
<1>5. ASSUME NEW d \in Device, Register(d) PROVE RunningIsAccountedFor'
  BY <1>5 DEF Register
<1>6. ASSUME NEW i \in Request, SendPoll(i) PROVE RunningIsAccountedFor'
  BY <1>6 DEF SendPoll
<1>7. ASSUME NEW t \in Task, Execute(t) PROVE RunningIsAccountedFor'
  BY <1>7 DEF Execute
<1>8. ASSUME NEW w \in Worker, MarkRunning(w) PROVE RunningIsAccountedFor'
  \* the agent waits for this poll, has nothing in hand, and is given the batch
  <2>1. faults = 0 => serving[w].id = waiting
    BY <1>8 DEF MarkRunning, OnePollIsUnderWay
  <2>2. serving[w].id = waiting => inbox = {} /\ current = None /\ inbox' = serving[w].batch
    BY <1>8 DEF MarkRunning
  <2>3. \A t \in Task : status'[t] = "running" => status[t] = "running" \/ t \in serving[w].batch
    BY <1>8 DEF MarkRunning, Taken
  <2> QED
    BY <1>8, <2>1, <2>2, <2>3 DEF MarkRunning
<1>9. ASSUME NEW w \in Worker, NEW p \in wire, ReadPending(w, p) \/ RefusePoll(w, p)
      PROVE  RunningIsAccountedFor'
  BY <1>9 DEF ReadPending, RefusePoll
<1>10. CASE GiveUp \/ Crash \/ RegisterFails \/ (\E w \in Worker : WorkerDies(w))
                   \/ \E r \in results : LoseResult(r)
  BY <1>10 DEF GiveUp, Crash, RegisterFails, WorkerDies, LoseResult
<1>11. ASSUME NEW d \in Device, RemoveDevice(d) \/ \E t \in Task : CreateTask(t, d)
       PROVE  RunningIsAccountedFor'
  <2>1. \A t \in Task : status'[t] = "running" => status[t] = "running"
    BY <1>11 DEF RemoveDevice, CreateTask
  <2> QED
    BY <1>11, <2>1 DEF RemoveDevice, CreateTask
<1> QED
  BY <1>1, <1>2, <1>3, <1>4, <1>5, <1>6, <1>7, <1>8, <1>9, <1>10, <1>11
  DEF Next, AgentStep, WorkerStep, Misfortune

LEMMA TasksKeepStaying == AccountInv /\ [Next]_vars => TasksStayWithTheirDevice'
<1> SUFFICES ASSUME AccountInv, [Next]_vars PROVE TasksStayWithTheirDevice'
  OBVIOUS
<1>1. CASE UNCHANGED vars
  BY <1>1 DEF vars, server, net, client, history, AccountInv, TasksStayWithTheirDevice
<1>2. CASE Next
  BY <1>2, StartKeepsTasks, PollKeepsTasks, WorkKeepsTasks, OperatorKeepsTasks
  DEF Next, AgentStep, WorkerStep, Misfortune
<1> QED
  BY <1>1, <1>2

\* Whatever the number of tasks, devices and processes of the server: as long as no message was
\* lost and no process killed, a task that is shown as running is with the agent, or its result is
\* on its way.
THEOREM RunningTasksAreAccountedFor == Spec => []RunningIsAccountedFor
<1>1. AccountInv /\ [Next]_vars => AccountInv'
  BY NextIInv, TasksKeepStaying, OnePollStays, RunningStaysAccountedFor DEF AccountInv
<1>2. AccountInv => RunningIsAccountedFor
  BY DEF AccountInv
<1> QED
  BY InitAccount, <1>1, <1>2, PTL DEF Spec
-----------------------------------------------------------------------------
(***************************************************************************)
(* The events of the agent, for any number of devices, processes, records, *)
(* faults and restarts.  Each start of the agent passes a record once, so  *)
(* a record is stored at most as often as it was passed (PassedOnce): the  *)
(* heartbeat under way and the one given up count as stored.  What a       *)
(* heartbeat that was given up says of devices is in dirty.                *)
(***************************************************************************)
EventTypes ==
  /\ attached \subseteq Usb /\ knownUsb \subseteq Usb
  /\ running \subseteq Process
  /\ log \in Nat /\ log <= MaxRecords /\ lastTs \in 0 .. log /\ restarts \in Nat
  /\ \A b \in {batch, late} :
       b.records \subseteq 1 .. log /\ b.started \subseteq Process /\ Events!Reports(b) \subseteq Usb
  /\ stored \in [1 .. MaxRecords -> Nat]
  /\ told \in [Usb \cup Process -> {"nothing", "there", "gone"}]

Carried(r, b) == IF r \in b.records THEN 1 ELSE 0

PassedOnce ==
  \A r \in 1 .. MaxRecords :
    stored[r] + Carried(r, batch) + Carried(r, late) <= restarts + (IF r <= lastTs THEN 1 ELSE 0)

PassedIsKept ==
  \A r \in 1 .. lastTs : stored[r] > 0 \/ r \in lost \cup pushed \cup batch.records \cup late.records

DoubtIsKept == batch.connected \subseteq knownUsb /\ Events!Reports(late) \subseteq dirty

EventInv ==
  /\ EventTypes /\ DoubtIsKept /\ Events!ToldIsKnown
  /\ windows => PassedOnce /\ PassedIsKept

LEMMA EmptyBatch ==
  /\ Events!NoBatch.records = {} /\ Events!NoBatch.started = {} /\ Events!NoBatch.connected = {}
  /\ Events!NoBatch.disconnected = {} /\ Events!Reports(Events!NoBatch) = {}
  BY DEF Events!NoBatch, Events!Reports

LEMMA EventInit == Events!Init => EventInv
<1> SUFFICES ASSUME Events!Init PROVE EventInv
  OBVIOUS
<1> USE PartsAssumption DEF Events!ConstantsAssumption
<1>1. /\ attached \subseteq Usb /\ knownUsb = {} /\ running = {} /\ log = 0 /\ lastTs = 0 /\ restarts = 0
      /\ batch = Events!NoBatch /\ late = Events!NoBatch /\ dirty = {}
      /\ stored = [r \in 1 .. MaxRecords |-> 0] /\ told = [x \in Usb \cup Process |-> "nothing"]
  BY DEF Events!Init
<1>2. EventTypes
  BY <1>1, EmptyBatch DEF EventTypes
<1>3. DoubtIsKept /\ Events!ToldIsKnown
  BY <1>1, EmptyBatch DEF DoubtIsKept, Events!ToldIsKnown
<1>4. PassedOnce
  BY <1>1, EmptyBatch DEF PassedOnce, Carried
<1>5. PassedIsKept
  BY <1>1 DEF PassedIsKept
<1> QED
  BY <1>2, <1>3, <1>4, <1>5 DEF EventInv

\* The machine goes on.
LEMMA MachineKeeps ==
  ASSUME EventInv, \/ \E d \in Usb : Events!Plug(d)
                   \/ \E p \in Process : Events!Spawn(p)
                   \/ Events!Write
  PROVE  EventInv'
<1> USE PartsAssumption DEF Events!ConstantsAssumption
<1>1. /\ windows' = windows /\ knownUsb' = knownUsb /\ lastTs' = lastTs /\ batch' = batch /\ late' = late
      /\ stored' = stored /\ told' = told /\ lost' = lost /\ pushed' = pushed /\ dirty' = dirty
      /\ restarts' = restarts
  BY DEF Events!Plug, Events!Spawn, Events!Write, Events!AgentRests, Events!memory, Events!server, Events!history
<1>2. /\ attached' \subseteq Usb /\ running' \subseteq Process
      /\ log' \in Nat /\ log' <= MaxRecords /\ log <= log' /\ log \in Nat
  BY DEF Events!Plug, Events!Spawn, Events!Write, EventInv, EventTypes
<1>3. EventTypes'
  <2>1. lastTs' \in 0 .. log' /\ 1 .. log \subseteq 1 .. log'
    BY <1>1, <1>2 DEF EventInv, EventTypes
  <2>2. ASSUME NEW b \in {batch, late}
        PROVE  b.records \subseteq 1 .. log' /\ b.started \subseteq Process /\ Events!Reports(b) \subseteq Usb
    BY <2>1 DEF EventInv, EventTypes
  <2>3. Events!Reports(batch)' = Events!Reports(batch) /\ Events!Reports(late)' = Events!Reports(late)
    BY <1>1 DEF Events!Reports
  <2> QED
    BY <1>1, <1>2, <2>1, <2>2, <2>3 DEF EventInv, EventTypes
<1>4. DoubtIsKept' /\ Events!ToldIsKnown'
  BY <1>1 DEF EventInv, DoubtIsKept, Events!ToldIsKnown, Events!Reports
<1>5. windows => PassedOnce' /\ PassedIsKept'
  BY <1>1 DEF EventInv, PassedOnce, PassedIsKept, Carried
<1> QED
  BY <1>1, <1>3, <1>4, <1>5 DEF EventInv

\* What is stored of a heartbeat: records once more, and what it says of the devices.
LEMMA StoreDoes ==
  ASSUME EventTypes, NEW b \in {batch, late}, Events!Store(b)
  PROVE  /\ stored' \in [1 .. MaxRecords -> Nat] /\ told' \in [Usb \cup Process -> {"nothing", "there", "gone"}]
         /\ \A r \in 1 .. MaxRecords :
              /\ r \in b.records => stored'[r] > 0
              /\ stored'[r] <= stored[r] + Carried(r, b) /\ stored'[r] >= stored[r]
         /\ \A d \in Usb : told'[d] = IF d \in b.connected THEN "there"
                                      ELSE IF d \in b.disconnected THEN "gone" ELSE told[d]
<1> USE PartsAssumption DEF Events!ConstantsAssumption
<1>1. /\ stored' = [r \in 1 .. MaxRecords |-> IF r \in b.records /\ stored[r] < MaxRestarts + 2
                                               THEN stored[r] + 1 ELSE stored[r]]
      /\ told' = [x \in Usb \cup Process |->
                     IF x \in b.connected \cup b.started THEN "there"
                     ELSE IF x \in b.disconnected THEN "gone" ELSE told[x]]
  BY DEF EventTypes, Events!Store, Events!Often
<1>2. \A d \in Usb : d \notin b.started
  BY DEF EventTypes
<1>3. told' \in [Usb \cup Process -> {"nothing", "there", "gone"}]
  BY <1>1 DEF EventTypes
<1>4. MaxRestarts \in Nat /\ \A r \in 1 .. MaxRecords : stored[r] \in Nat
  BY DEF EventTypes
<1>5. stored' \in [1 .. MaxRecords -> Nat]
  BY <1>1, <1>4
<1>6. ASSUME NEW r \in 1 .. MaxRecords
      PROVE  /\ r \in b.records => stored'[r] > 0
             /\ stored'[r] <= stored[r] + Carried(r, b) /\ stored'[r] >= stored[r]
  <2>1. stored'[r] = IF r \in b.records /\ stored[r] < MaxRestarts + 2 THEN stored[r] + 1 ELSE stored[r]
    BY <1>1
  <2> QED
    BY <1>4, <2>1 DEF Carried
<1>7. \A d \in Usb : told'[d] = IF d \in b.connected THEN "there"
                                 ELSE IF d \in b.disconnected THEN "gone" ELSE told[d]
  BY <1>1, <1>2
<1> QED
  BY <1>3, <1>5, <1>6, <1>7
\* A look: what was known and is not seen is reported as gone, and each new record is in the
\* heartbeat or pushed out of the window.
LEMMA CollectKeeps == ASSUME EventInv, Events!Collect PROVE EventInv'
<1> USE PartsAssumption DEF Events!ConstantsAssumption
<1>1. PICK failing, seen, started :
        LET procs == Events!SeenProcs("processes" \in failing)
            blind == "records" \in failing
        IN  /\ seen \in Events!SeenUsb("usb" \in failing)
            /\ started \in Events!Reported(Events!New(knownProcs, procs))
            /\ batch' = [records |-> IF blind THEN {} ELSE Events!Fresh,
                         connected |-> Events!New(knownUsb, seen), disconnected |-> Events!Gone(knownUsb, seen),
                         started |-> started,
                         software |-> Events!Inventory("software" \in failing), sent |-> TRUE]
            /\ knownUsb' = seen
            /\ lastTs' = Events!Watermark(blind)
            /\ pushed' = IF blind THEN pushed
                         ELSE pushed \cup {r \in 1 .. log : r > lastTs /\ r \notin Events!InWindow}
  BY DEF Events!Collect
<1> DEFINE blind == "records" \in failing
<1>2. /\ batch = Events!NoBatch
      /\ UNCHANGED <<windows, attached, running, log, late, stored, told, lost, dirty, restarts>>
  BY DEF Events!Collect, Events!machine, Events!server
<1>3. seen \subseteq attached
  BY <1>1 DEF Events!SeenUsb
<1>4. started \subseteq Process
  <2>1. Events!New(knownProcs, Events!SeenProcs("processes" \in failing)) \subseteq Process
    BY DEF Events!New, Events!SeenProcs, EventInv, EventTypes
  <2> QED
    BY <1>1, <2>1 DEF Events!Reported
<1>5. /\ batch'.records = (IF blind THEN {} ELSE Events!Fresh) /\ batch'.started = started
      /\ batch'.connected = Events!New(knownUsb, seen) /\ batch'.disconnected = Events!Gone(knownUsb, seen)
  BY <1>1
<1>6. Events!Fresh \subseteq 1 .. log /\ Events!InWindow \subseteq 1 .. log
  BY DEF Events!Fresh, Events!InWindow
<1>7. lastTs' \in {lastTs, log} /\ lastTs' \in 0 .. log
  BY <1>1 DEF Events!Watermark, EventInv, EventTypes
<1>8. Events!Reports(batch)' \subseteq Usb
  BY <1>3, <1>5 DEF Events!Reports, Events!New, Events!Gone, EventInv, EventTypes
<1>9. EventTypes'
  <2>1. ASSUME NEW b \in {batch', late'}
        PROVE  b.records \subseteq 1 .. log /\ b.started \subseteq Process /\ Events!Reports(b) \subseteq Usb
    <3>1. CASE b = batch'
      BY <1>4, <1>5, <1>6, <1>8, <3>1 DEF Events!Reports
    <3>2. CASE b = late'
      BY <1>2, <3>2 DEF EventInv, EventTypes
    <3> QED
      BY <2>1, <3>1, <3>2
  <2>2. \A b \in {batch', late'} : Events!Reports(b)' = Events!Reports(b)
    BY DEF Events!Reports
  <2>3. seen \subseteq Usb
    BY <1>3 DEF EventInv, EventTypes
  <2> QED
    BY <1>1, <1>2, <1>7, <2>1, <2>3 DEF EventInv, EventTypes, Events!Reports
<1>10. DoubtIsKept'
  BY <1>1, <1>2, <1>5 DEF EventInv, DoubtIsKept, Events!New, Events!Reports
<1>11. Events!ToldIsKnown'
  <2>1. ASSUME NEW d \in Usb \ dirty, told[d] = "there" PROVE d \in seen \cup batch'.disconnected
    <3>1. d \in knownUsb
      BY <1>2, <2>1, EmptyBatch DEF EventInv, Events!ToldIsKnown
    <3> QED
      BY <1>5, <3>1 DEF Events!Gone
  <2> QED
    BY <1>1, <1>2, <2>1 DEF Events!ToldIsKnown
<1>12. ASSUME windows PROVE PassedOnce' /\ PassedIsKept'
  <2>1. ASSUME blind \/ Events!Fresh = {} PROVE batch'.records = {}
    BY <1>5, <2>1
  <2>2. \A r \in Events!Fresh : r > lastTs
    BY <1>12 DEF Events!Fresh
  <2>3. CASE lastTs' = log /\ Events!Fresh # {} /\ ~blind
    <3>1. PassedOnce'
      <4>1. ASSUME NEW r \in 1 .. MaxRecords
            PROVE  stored[r] + Carried(r, batch') + Carried(r, late) <= restarts + (IF r <= log THEN 1 ELSE 0)
        <5>1. /\ stored[r] + Carried(r, batch) + Carried(r, late) <= restarts + (IF r <= lastTs THEN 1 ELSE 0)
              /\ Carried(r, batch) = 0 /\ stored[r] \in Nat /\ Carried(r, late) \in {0, 1}
              /\ restarts \in Nat /\ lastTs <= log /\ lastTs \in Nat /\ log \in Nat
          BY <1>2, <1>12, EmptyBatch DEF EventInv, EventTypes, PassedOnce, Carried
        <5>2. CASE r \in Events!Fresh
          BY <1>5, <1>6, <2>2, <2>3, <5>1, <5>2 DEF Carried
        <5>3. CASE r \notin Events!Fresh
          BY <1>5, <2>3, <5>1, <5>3 DEF Carried
        <5> QED
          BY <5>2, <5>3
      <4> QED
        BY <1>2, <2>3, <4>1 DEF PassedOnce, Carried
    <3>2. PassedIsKept'
      <4>1. ASSUME NEW r \in 1 .. log
            PROVE  stored[r] > 0 \/ r \in lost \cup pushed' \cup batch'.records \cup late.records
        <5>1. CASE r <= lastTs
          <6>1. stored[r] > 0 \/ r \in lost \cup pushed \cup batch.records \cup late.records
            BY <1>12, <5>1 DEF EventInv, EventTypes, PassedIsKept
          <6> QED
            BY <1>1, <1>2, <6>1, EmptyBatch
        <5>2. CASE r > lastTs
          <6>1. CASE r \in Events!InWindow
            <7>1. r \in Events!Fresh
              BY <5>2, <6>1 DEF Events!Fresh
            <7> QED
              BY <1>5, <2>3, <7>1
          <6>2. CASE r \notin Events!InWindow
            BY <1>1, <2>3, <5>2, <6>2
          <6> QED
            BY <6>1, <6>2
        <5> QED
          BY <5>1, <5>2 DEF EventInv, EventTypes
      <4> QED
        BY <1>2, <2>3, <4>1 DEF PassedIsKept
    <3> QED
      BY <3>1, <3>2
  <2>4. CASE lastTs' = lastTs /\ (blind \/ Events!Fresh = {})
    <3>1. batch'.records = {} /\ batch.records = {} /\ pushed \subseteq pushed'
      BY <1>1, <1>2, <2>1, <2>4, EmptyBatch
    <3> QED
      BY <1>2, <1>12, <2>4, <3>1 DEF EventInv, PassedOnce, PassedIsKept, Carried
  <2>5. (lastTs' = log /\ Events!Fresh # {} /\ ~blind) \/ (lastTs' = lastTs /\ (blind \/ Events!Fresh = {}))
    BY <1>1, <1>12 DEF Events!Watermark
  <2> QED
    BY <2>3, <2>4, <2>5
<1> QED
  BY <1>2, <1>9, <1>10, <1>11, <1>12 DEF EventInv

\* A heartbeat that arrives in time, and one that arrives late.
LEMMA StoredKeeps == ASSUME EventInv, Events!Heartbeat \/ Events!StoreLate PROVE EventInv'
<1>1. /\ UNCHANGED <<windows, attached, running, log, knownUsb, lastTs, lost, pushed, restarts>>
  BY DEF Events!Heartbeat, Events!StoreLate, Events!machine, Events!memory, Events!history
<1>2. PICK b, o : /\ Events!Store(b)
                  /\ \/ /\ b = batch /\ o = late /\ batch' = Events!NoBatch /\ late' = o
                        /\ dirty' = (dirty \ Events!Reports(b)) \cup (Events!Reports(b) \cap Events!Reports(o))
                     \/ b = late /\ o = batch /\ late' = Events!NoBatch /\ batch' = o /\ dirty' = dirty
  BY DEF Events!Heartbeat, Events!StoreLate, Events!history
<1>3. b \in {batch, late} /\ o \in {batch, late}
  BY <1>2
<1>4. /\ stored' \in [1 .. MaxRecords -> Nat] /\ told' \in [Usb \cup Process -> {"nothing", "there", "gone"}]
      /\ \A r \in 1 .. MaxRecords :
           /\ r \in b.records => stored'[r] > 0
           /\ stored'[r] <= stored[r] + Carried(r, b) /\ stored'[r] >= stored[r]
      /\ \A d \in Usb : told'[d] = IF d \in b.connected THEN "there"
                                   ELSE IF d \in b.disconnected THEN "gone" ELSE told[d]
  BY <1>2, <1>3, StoreDoes DEF EventInv
<1>5. EventTypes'
  <2>1. \A c \in {batch', late'} :
          c.records \subseteq 1 .. log /\ c.started \subseteq Process /\ Events!Reports(c) \subseteq Usb
    BY <1>2, EmptyBatch DEF EventInv, EventTypes
  <2> QED
    BY <1>1, <1>4, <2>1 DEF EventInv, EventTypes, Events!Reports
<1>6. DoubtIsKept' /\ Events!ToldIsKnown'
  <2>1. CASE b = late /\ o = batch /\ late' = Events!NoBatch /\ batch' = o /\ dirty' = dirty
    <3>1. DoubtIsKept'
      BY <1>1, <2>1, EmptyBatch DEF EventInv, DoubtIsKept, Events!Reports
    <3>2. \A d \in Usb \ dirty : told'[d] = told[d]
      BY <1>4, <2>1 DEF EventInv, DoubtIsKept, Events!Reports
    <3>3. Events!ToldIsKnown'
      BY <1>1, <2>1, <3>2 DEF EventInv, Events!ToldIsKnown
    <3> QED
      BY <3>1, <3>3
  <2>2. CASE /\ b = batch /\ o = late /\ batch' = Events!NoBatch /\ late' = o
             /\ dirty' = (dirty \ Events!Reports(b)) \cup (Events!Reports(b) \cap Events!Reports(o))
    <3>1. DoubtIsKept'
      <4>1. Events!Reports(late)' = Events!Reports(o)
        BY <2>2 DEF Events!Reports
      <4>2. Events!Reports(o) \subseteq dirty'
        BY <2>2 DEF EventInv, DoubtIsKept
      <4> QED
        BY <1>1, <2>2, <4>1, <4>2, EmptyBatch DEF DoubtIsKept
    <3>2. ASSUME NEW d \in Usb \ dirty', told'[d] = "there" PROVE d \in knownUsb
      <4>1. CASE d \in b.connected
        BY <2>2, <4>1 DEF EventInv, DoubtIsKept
      <4>2. CASE d \notin b.connected
        <5>1. d \notin b.disconnected /\ told[d] = "there"
          BY <1>4, <3>2, <4>2
        <5>2. d \notin dirty
          BY <2>2, <3>2, <4>2, <5>1 DEF Events!Reports
        <5> QED
          BY <2>2, <5>1, <5>2 DEF EventInv, Events!ToldIsKnown
      <4> QED
        BY <4>1, <4>2
    <3> QED
      BY <1>1, <3>1, <3>2 DEF Events!ToldIsKnown
  <2> QED
    BY <1>2, <2>1, <2>2
<1>7. ASSUME windows PROVE PassedOnce' /\ PassedIsKept'
  <2>1. \A r : Carried(r, batch') + Carried(r, late') = Carried(r, o) /\ Carried(r, o) \in {0, 1}
               /\ Carried(r, batch) + Carried(r, late) = Carried(r, b) + Carried(r, o)
               /\ Carried(r, b) \in {0, 1} /\ Carried(r, batch') \in {0, 1} /\ Carried(r, late') \in {0, 1}
               /\ Carried(r, batch) \in {0, 1} /\ Carried(r, late) \in {0, 1}
    BY <1>2, EmptyBatch DEF Carried
  <2>2. ASSUME NEW r \in 1 .. MaxRecords
        PROVE  stored'[r] + Carried(r, batch') + Carried(r, late') <= restarts + (IF r <= lastTs THEN 1 ELSE 0)
    <3>1. stored[r] + Carried(r, batch) + Carried(r, late) <= restarts + (IF r <= lastTs THEN 1 ELSE 0)
      BY <1>7 DEF EventInv, PassedOnce
    <3>2. stored[r] \in Nat /\ stored'[r] \in Nat /\ restarts \in Nat /\ lastTs \in Nat
      BY <1>4 DEF EventInv, EventTypes
    <3>3. stored'[r] <= stored[r] + Carried(r, b)
      BY <1>4
    <3> QED
      BY <2>1, <3>1, <3>2, <3>3
  <2>3. PassedOnce'
    BY <1>1, <2>2 DEF PassedOnce, Carried
  <2>4. ASSUME NEW r \in 1 .. lastTs
        PROVE  stored'[r] > 0 \/ r \in lost \cup pushed \cup batch'.records \cup late'.records
    <3>1. r \in 1 .. MaxRecords
      BY PartsAssumption DEF EventInv, EventTypes, Events!ConstantsAssumption
    <3>2. stored[r] > 0 \/ r \in lost \cup pushed \cup b.records \cup o.records
      BY <1>2, <1>7 DEF EventInv, PassedIsKept
    <3>3. stored[r] \in Nat /\ stored'[r] \in Nat /\ stored'[r] >= stored[r] /\ (r \in b.records => stored'[r] > 0)
      BY <1>4, <3>1 DEF EventInv, EventTypes
    <3> QED
      BY <1>2, <3>2, <3>3
  <2>5. PassedIsKept'
    BY <1>1, <2>4 DEF PassedIsKept
  <2> QED
    BY <2>3, <2>5
<1> QED
  BY <1>1, <1>5, <1>6, <1>7 DEF EventInv

\* A heartbeat is given up, one that was given up is lost, the agent starts again.
LEMMA TroubleKeeps ==
  ASSUME EventInv, Events!GiveUp \/ Events!LoseLate \/ Events!Restart
  PROVE  EventInv'
<1>1. UNCHANGED <<windows, attached, running, log, stored, told, pushed>>
  BY DEF Events!GiveUp, Events!LoseLate, Events!Restart, Events!machine, Events!server
<1>2. CASE Events!LoseLate
  <2>1. /\ late' = Events!NoBatch /\ lost' = lost \cup late.records
        /\ UNCHANGED <<knownUsb, lastTs, batch, dirty, restarts>>
    BY <1>2 DEF Events!LoseLate, Events!memory
  <2>2. EventTypes' /\ DoubtIsKept' /\ Events!ToldIsKnown'
    BY <1>1, <2>1, EmptyBatch DEF EventInv, EventTypes, DoubtIsKept, Events!ToldIsKnown, Events!Reports
  <2>3. windows => PassedOnce'
    BY <1>1, <2>1, EmptyBatch DEF EventInv, EventTypes, PassedOnce, Carried
  <2>4. windows => PassedIsKept'
    BY <1>1, <2>1, EmptyBatch DEF EventInv, PassedIsKept
  <2> QED
    BY <1>1, <2>2, <2>3, <2>4 DEF EventInv
<1>3. CASE Events!GiveUp
  <2>1. /\ late = Events!NoBatch /\ late' = batch /\ batch' = Events!NoBatch
        /\ dirty' = dirty \cup Events!Reports(batch)
        /\ UNCHANGED <<knownUsb, lastTs, lost, restarts>>
    BY <1>3 DEF Events!GiveUp, Events!memory
  <2>2. EventTypes' /\ DoubtIsKept' /\ Events!ToldIsKnown'
    BY <1>1, <2>1, EmptyBatch DEF EventInv, EventTypes, DoubtIsKept, Events!ToldIsKnown, Events!Reports
  <2>3. windows => PassedOnce'
    BY <1>1, <2>1, EmptyBatch DEF EventInv, EventTypes, PassedOnce, Carried
  <2>4. windows => PassedIsKept'
    BY <1>1, <2>1, EmptyBatch DEF EventInv, PassedIsKept
  <2> QED
    BY <1>1, <2>2, <2>3, <2>4 DEF EventInv
<1>4. CASE Events!Restart
  <2>1. /\ late = Events!NoBatch /\ late' = batch /\ batch' = Events!NoBatch /\ dirty' = Usb
        /\ knownUsb' = {} /\ lastTs' = 0 /\ restarts' = restarts + 1 /\ lost' = lost
    BY <1>4 DEF Events!Restart
  <2>2. EventTypes' /\ DoubtIsKept' /\ Events!ToldIsKnown'
    BY <1>1, <2>1, EmptyBatch DEF EventInv, EventTypes, DoubtIsKept, Events!ToldIsKnown, Events!Reports
  <2>3. windows => PassedOnce'
    BY <1>1, <2>1, EmptyBatch DEF EventInv, EventTypes, PassedOnce, Carried
  <2>4. PassedIsKept'
    BY <2>1 DEF PassedIsKept
  <2> QED
    BY <1>1, <2>2, <2>3, <2>4 DEF EventInv
<1> QED
  BY <1>2, <1>3, <1>4

\* Whatever the number of devices, processes and records, and whatever fails: what the server has
\* of a machine is what its agent has passed on.
THEOREM EventsPassedOn == RmmSpec => []EventsArePassedOn
<1>1. RmmInit => EventInv
  BY EventInit DEF RmmInit
<1>2. EventInv /\ [RmmNext]_rmmVars => EventInv'
  <2> SUFFICES ASSUME EventInv, [RmmNext]_rmmVars PROVE EventInv'
    OBVIOUS
  <2>1. Events!Next \/ UNCHANGED eventVars
    BY DEF RmmNext, rmmVars
  <2>2. CASE Events!Next
    BY <2>2, MachineKeeps, CollectKeeps, StoredKeeps, TroubleKeeps DEF Events!Next
  <2>3. CASE UNCHANGED eventVars
    BY <2>3 DEF eventVars, EventInv, EventTypes, DoubtIsKept, Events!ToldIsKnown, Events!Reports,
                PassedOnce, PassedIsKept, Carried
  <2> QED
    BY <2>1, <2>2, <2>3
<1>3. EventInv => EventsArePassedOn
  <2> SUFFICES ASSUME EventInv PROVE EventsArePassedOn
    OBVIOUS
  <2>1. ASSUME windows, NEW r \in 1 .. log PROVE stored[r] <= 1 + restarts
    <3>1. r \in 1 .. MaxRecords /\ r \in 1 .. log
      BY PartsAssumption DEF EventInv, EventTypes, Events!ConstantsAssumption
    <3>2. stored[r] + Carried(r, batch) + Carried(r, late) <= restarts + (IF r <= lastTs THEN 1 ELSE 0)
      BY <2>1, <3>1 DEF EventInv, PassedOnce
    <3>3. stored[r] \in Nat /\ restarts \in Nat /\ lastTs \in Nat
      BY <3>1 DEF EventInv, EventTypes
    <3> QED
      BY <3>1, <3>2, <3>3 DEF Carried
  <2> QED
    BY <2>1 DEF EventInv, PassedIsKept, EventsArePassedOn, Events!EventsArePassedOn, Events!RecordsAreAccountedFor
<1> QED
  BY <1>1, <1>2, <1>3, PTL DEF RmmSpec
=============================================================================
