----------------------------- MODULE DeployJobs -----------------------------
(***************************************************************************)
(* The deployment jobs of one project (routes/deploy.py, DeployJob in      *)
(* models.py): triggers by hand and by webhook, and the thread of each job.*)
(*                                                                         *)
(* The thread is given the object of the request's session, not the row:   *)
(* the status it sets there is written only by a later commit of the       *)
(* request (the audit entry of a manual trigger), whereas its own commit   *)
(* is one of another session and writes nothing.  At the end it reads the  *)
(* row in its own session and commits that.                                *)
(***************************************************************************)
EXTENDS Integers

CONSTANTS
    Job,
    MaxKills        \* bound: how often the panel is killed

Outcome == {"zero", "nonzero", "timeout", "error"}

VARIABLES
    status,     \* the status column; "none" before the insert
    kind,       \* triggered_by
    request,    \* where the request stands
    marked,     \* the request's object says running, and no commit has written it
    thread,     \* where the thread stands
    outcome,    \* how the commands ended
    kills

vars == <<status, kind, request, marked, thread, outcome, kills>>

Init ==
    /\ status = [j \in Job |-> "none"] /\ kind = [j \in Job |-> "none"]
    /\ request = [j \in Job |-> "none"] /\ marked = [j \in Job |-> FALSE]
    /\ thread = [j \in Job |-> "none"] /\ outcome = [j \in Job |-> "none"]
    /\ kills = 0

Running == \E j \in Job : status[j] = "running"

\* The look for a running job, which refuses.
Trigger(j, k, wanted) ==
    /\ request[j] = "none"
    /\ kind' = [kind EXCEPT ![j] = k]
    /\ request' = [request EXCEPT ![j] = IF wanted /\ ~Running THEN "checked" ELSE "refused"]
    /\ UNCHANGED <<status, marked, thread, outcome, kills>>

\* deploy_tetikle, of an admin or another user, of a project with a manifest or without
TriggerByHand(j, admitted) == Trigger(j, "manual", admitted)

\* deploy_webhook: a push to the branch of a project that deploys itself, or any other call
TriggerByPush(j, meant) == Trigger(j, "webhook", meant)

Insert(j) ==
    /\ request[j] = "checked"
    /\ status' = [status EXCEPT ![j] = "pending"]
    /\ request' = [request EXCEPT ![j] = "inserted"]
    /\ thread' = [thread EXCEPT ![j] = "started"]
    /\ UNCHANGED <<kind, marked, outcome, kills>>

\* The audit entry of a manual trigger is committed, and with it what the thread has
\* set on the object by now.
Audit(j) ==
    /\ request[j] = "inserted" /\ kind[j] = "manual"
    /\ status' = IF marked[j] THEN [status EXCEPT ![j] = "running"] ELSE status
    /\ request' = [request EXCEPT ![j] = "answered"]
    /\ marked' = [marked EXCEPT ![j] = FALSE]
    /\ UNCHANGED <<kind, thread, outcome, kills>>

\* A webhook, or a manual trigger whose audit entry fails, ends without a commit.
Answer(j) ==
    /\ request[j] = "inserted"
    /\ request' = [request EXCEPT ![j] = "answered"]
    /\ marked' = [marked EXCEPT ![j] = FALSE]
    /\ UNCHANGED <<status, kind, thread, outcome, kills>>

Begin(j) ==
    /\ thread[j] = "started"
    /\ thread' = [thread EXCEPT ![j] = "executing"]
    /\ marked' = [marked EXCEPT ![j] = (request[j] = "inserted")]
    /\ UNCHANGED <<status, kind, request, outcome, kills>>

\* Mutant of Settled: the exit status is not looked at.
BugSettled(o) == IF o \in {"zero", "nonzero"} THEN "success" ELSE "failed"

Settled(o) == IF o = "zero" THEN "success" ELSE "failed"

\* Mutant of Finish: a command that times out leaves the job as it is.
BugFinish(j, o) ==
    /\ thread[j] = "executing"
    /\ outcome' = [outcome EXCEPT ![j] = o]
    /\ status' = IF o = "timeout" THEN status ELSE [status EXCEPT ![j] = Settled(o)]
    /\ thread' = [thread EXCEPT ![j] = "ended"]
    /\ UNCHANGED <<kind, request, marked, kills>>

\* The commands end, or run into the ten minutes, or cannot be started.
Finish(j, o) ==
    /\ thread[j] = "executing"
    /\ outcome' = [outcome EXCEPT ![j] = o]
    /\ status' = [status EXCEPT ![j] = Settled(o)]
    /\ thread' = [thread EXCEPT ![j] = "ended"]
    /\ UNCHANGED <<kind, request, marked, kills>>

\* The panel is killed; its threads are daemons, and nothing looks for them at the start.
Kill ==
    /\ kills < MaxKills
    /\ kills' = kills + 1
    /\ request' = [j \in Job |-> IF request[j] = "none" THEN "none" ELSE "answered"]
    /\ thread' = [j \in Job |-> IF thread[j] = "none" THEN "none" ELSE "ended"]
    /\ marked' = [j \in Job |-> FALSE]
    /\ UNCHANGED <<status, kind, outcome>>

Advance(j) ==
    \/ Insert(j) \/ Audit(j) \/ Answer(j) \/ Begin(j)
    \/ \E o \in Outcome : Finish(j, o)

Next ==
    \/ \E j \in Job : Advance(j) \/ \E ok \in BOOLEAN : TriggerByHand(j, ok) \/ TriggerByPush(j, ok)
    \/ Kill

Spec == Init /\ [][Next]_vars /\ \A j \in Job : WF_vars(Advance(j))

-----------------------------------------------------------------------------
\* A job shown as successful is one whose commands all returned zero: a timeout, a failed
\* command, a killed panel or a second deployment at the same time never looks like success.
SuccessIsTrue == \A j \in Job : status[j] = "success" => outcome[j] = "zero"

\* A job triggered by a webhook ends as success or failure, whatever becomes of its
\* commands, unless the panel is killed.
WebhookJobsEnd ==
    \A j \in Job : status[j] = "pending" /\ kind[j] = "webhook"
                      ~> status[j] \in {"success", "failed"} \/ kills > 0

\* "zaten deploy ediliyor" (routes/deploy.py:295): a project is not deployed twice at a time.
OneDeployAtATime ==
    \A i, j \in Job : thread[i] = "executing" /\ thread[j] = "executing" => i = j

\* "sonucu DeployJob'a yazar" (routes/deploy.py:109): a result that was written stays.
ResultIsKept ==
    [][\A j \in Job : status[j] \in {"success", "failed"} => status'[j] = status[j]]_vars
=============================================================================
