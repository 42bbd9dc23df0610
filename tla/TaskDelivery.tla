---------------------------- MODULE TaskDelivery ----------------------------
(***************************************************************************)
(* What the task queue of the remote monitoring server promises: a task    *)
(* waits until it is taken out of the queue, and after that it is run at   *)
(* most once.  Nothing brings a task back.  RmmTasks implements this.      *)
(***************************************************************************)
EXTENDS Naturals

CONSTANT Task

VARIABLES
    stage,  \* "unknown", "waiting", "out" of the queue, or "run"
    ran     \* how often each task has been run

vars == <<stage, ran>>

Init ==
    /\ stage = [t \in Task |-> "unknown"]
    /\ ran = [t \in Task |-> 0]

Create(t) ==
    /\ stage[t] = "unknown"
    /\ stage' = [stage EXCEPT ![t] = "waiting"]
    /\ UNCHANGED ran

\* An agent takes tasks, or they are removed with their device.
TakeOut(batch) ==
    /\ \A t \in batch : stage[t] = "waiting"
    /\ stage' = [t \in Task |-> IF t \in batch THEN "out" ELSE stage[t]]
    /\ UNCHANGED ran

Run(t) ==
    /\ stage[t] = "out"
    /\ stage' = [stage EXCEPT ![t] = "run"]
    /\ ran' = [ran EXCEPT ![t] = @ + 1]

Next ==
    \/ \E t \in Task : Create(t) \/ Run(t)
    \/ \E batch \in SUBSET Task : TakeOut(batch)

Spec == Init /\ [][Next]_vars
=============================================================================
