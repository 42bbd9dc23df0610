------------------------- MODULE PortRegistryProofs -------------------------
(***************************************************************************)
(* Proofs about PortRegistry.  A port that a request was told has a row,   *)
(* the row carries the request as its owner, and no action but an Insert   *)
(* writes an owner: not even Insert does where there is a row.             *)
(* And about the parts that MCPanel runs beside it: the deployment jobs,   *)
(* the failover monitor, the bulk jobs and webhooks of the firewall        *)
(* service, and the installation.                                          *)
(***************************************************************************)
EXTENDS MCPanel, Sequences, FiniteSetTheorems, TLAPS

USE PortAssumption, NoneAssumption

LEMMA InitIInv == Init => IInv
  BY DEF Init, IInv, TypeOK, GrantedIsOwned, ReservedIsNotGranted, ChosenIsGood, Record, Status

\* A port that is chosen is a port of the registry that is not reserved.
LEMMA FreeIsAPort == ASSUME NEW p \in Free PROVE p \in Port \ Reserved
  BY DEF Free

\* A request keeps the invariant at each of its steps.
LEMMA RequestIInv ==
  ASSUME IInv, NEW r \in Request, RequestStep(r)
  PROVE  IInv'
<1> USE DEF IInv, TypeOK, GrantedIsOwned, ReservedIsNotGranted, ChosenIsGood
<1>1. ASSUME NEW p \in Port \ Reserved, Choose(r, p)
      PROVE  IInv'
  BY <1>1 DEF Choose
<1>2. CASE Refuse(r)
  BY <1>2 DEF Refuse
<1>3. CASE Insert(r)
  <2>1. choice[r] \in Port \ Reserved
    BY <1>3 DEF Insert
  <2>2. Entry(r, "allocated") \in Record /\ Entry(r, "allocated").owner = r
    BY DEF Record, Status, Entry
  <2>3. TypeOK' /\ ChosenIsGood'
    BY <1>3, <2>1, <2>2 DEF Insert
  <2>4. GrantedIsOwned'
    BY <1>3, <2>1, <2>2 DEF Insert
  <2>5. ReservedIsNotGranted'
    BY <1>3, <2>1 DEF Insert
  <2> QED
    BY <2>3, <2>4, <2>5
<1>4. CASE InsertFails(r)
  BY <1>4 DEF InsertFails
<1>5. CASE \E p \in Port : ChooseNext(r, p) \/ ChoosePreferred(r, p)
  BY <1>1, <1>5, FreeIsAPort DEF ChooseNext, ChoosePreferred, IsNextFree
<1> QED
  BY <1>2, <1>3, <1>4, <1>5 DEF RequestStep

\* Releasing a port changes the status of its row, and keeps the owner.
LEMMA ReleaseIInv ==
  ASSUME IInv, NEW p \in Port, Release(p)
  PROVE  IInv'
<1> USE DEF IInv, TypeOK, GrantedIsOwned, ReservedIsNotGranted, ChosenIsGood
<1>1. row[p] \in Record
  BY DEF Release
<1>2. Entry(row[p].owner, "released") \in Record
  BY <1>1 DEF Record, Status, Entry
<1>3. Entry(row[p].owner, "released").owner = row[p].owner
  BY DEF Entry
<1>4. TypeOK' /\ ChosenIsGood' /\ ReservedIsNotGranted'
  BY <1>1, <1>2, <1>3 DEF Release
<1>5. GrantedIsOwned'
  BY <1>1, <1>2, <1>3 DEF Release
<1> QED
  BY <1>4, <1>5

\* Seeding adds rows where there are none.
LEMMA SeedIInv ==
  ASSUME IInv, Seed
  PROVE  IInv'
<1> USE DEF IInv, TypeOK, GrantedIsOwned, ReservedIsNotGranted, ChosenIsGood
<1>1. \A p \in Port : row[p] # None => row'[p] = row[p]
  BY DEF Seed
<1>2. \A st \in {"allocated", "reserved"} : Entry(System, st) \in Record
  BY DEF Record, Status, Entry
<1>3. row' \in [Port -> Record \cup {None}]
  BY <1>2 DEF Seed
<1>4. TypeOK' /\ ChosenIsGood' /\ ReservedIsNotGranted'
  BY <1>3 DEF Seed
<1>5. GrantedIsOwned'
  BY <1>1 DEF Seed
<1> QED
  BY <1>4, <1>5

LEMMA NextIInv == IInv /\ [Next]_vars => IInv'
<1> SUFFICES ASSUME IInv, [Next]_vars PROVE IInv'
  OBVIOUS
<1>1. CASE UNCHANGED vars
  BY <1>1 DEF vars, IInv, TypeOK, GrantedIsOwned, ReservedIsNotGranted, ChosenIsGood
<1> QED
  BY <1>1, RequestIInv, ReleaseIInv, SeedIInv DEF Next

\* The rows and what the requests hold are well formed for any ports and requests.
THEOREM TypeCorrect == Spec => []TypeOK
<1>1. IInv => TypeOK
  BY DEF IInv
<1> QED
  BY InitIInv, NextIInv, <1>1, PTL DEF Spec

\* For any number of requests and any ports: what a request was told stays its own, and is no
\* reserved port.
THEOREM GrantsAreKept == Spec => []GrantsAreSound
<1>1. IInv => GrantsAreSound
  BY DEF IInv, GrantsAreSound
<1> QED
  BY InitIInv, NextIInv, <1>1, PTL DEF Spec

-----------------------------------------------------------------------------
(***************************************************************************)
(* The deployment jobs of a project                                        *)
(***************************************************************************)
\* The commands of a job that is shown as settled have ended, the way it says.
DeployInv ==
    /\ status \in [Job -> {"none", "pending", "running", "success", "failed"}]
    /\ request \in [Job -> {"none", "checked", "refused", "inserted", "answered"}]
    /\ marked \in [Job -> BOOLEAN]
    /\ thread \in [Job -> {"none", "started", "executing", "ended"}]
    /\ outcome \in [Job -> Deploy!Outcome \cup {"none"}]
    /\ \A j \in Job : status[j] \in {"success", "failed"} =>
            thread[j] = "ended" /\ status[j] = Deploy!Settled(outcome[j])

LEMMA DeployInit == Deploy!Init => DeployInv
  BY DEF Deploy!Init, DeployInv

LEMMA DeployStep ==
  ASSUME DeployInv, Deploy!Next
  PROVE  DeployInv'
<1> USE DEF DeployInv, Deploy!Outcome
<1>1. ASSUME NEW j \in Job, NEW ok \in BOOLEAN, Deploy!TriggerByHand(j, ok) \/ Deploy!TriggerByPush(j, ok)
      PROVE  DeployInv'
  BY <1>1 DEF Deploy!TriggerByHand, Deploy!TriggerByPush, Deploy!Trigger
<1>2. ASSUME NEW j \in Job, Deploy!Insert(j) PROVE DeployInv'
  BY <1>2 DEF Deploy!Insert
<1>3. ASSUME NEW j \in Job, Deploy!Audit(j) PROVE DeployInv'
  BY <1>3 DEF Deploy!Audit
<1>4. ASSUME NEW j \in Job, Deploy!Answer(j) PROVE DeployInv'
  BY <1>4 DEF Deploy!Answer
<1>5. ASSUME NEW j \in Job, Deploy!Begin(j) PROVE DeployInv'
  BY <1>5 DEF Deploy!Begin
<1>6. ASSUME NEW j \in Job, NEW o \in Deploy!Outcome, Deploy!Finish(j, o) PROVE DeployInv'
  BY <1>6 DEF Deploy!Finish, Deploy!Settled
<1>7. CASE Deploy!Kill
  BY <1>7 DEF Deploy!Kill
<1> QED
  BY <1>1, <1>2, <1>3, <1>4, <1>5, <1>6, <1>7 DEF Deploy!Next, Deploy!Advance

\* What is shown of a deployment is true, whatever the request and the thread of a job commit
\* and in which order, for any number of jobs, overlapping or cut off (_run_deploy_job).
THEOREM SuccessTrue == PanelSpec => []SuccessIsTrue
<1>1. PanelInit => DeployInv
  BY DeployInit DEF PanelInit
<1>2. DeployInv /\ [PanelNext]_panelVars => DeployInv'
  <2> SUFFICES ASSUME DeployInv, [PanelNext]_panelVars PROVE DeployInv'
    OBVIOUS
  <2>1. CASE Deploy!Next
    BY <2>1, DeployStep
  <2>2. CASE UNCHANGED deployVars
    BY <2>2 DEF deployVars, DeployInv
  <2> QED
    BY <2>1, <2>2 DEF PanelNext, panelVars
<1>3. DeployInv => SuccessIsTrue
  BY DEF DeployInv, SuccessIsTrue, Deploy!SuccessIsTrue, Deploy!Settled
<1> QED
  BY <1>1, <1>2, <1>3, PTL DEF PanelSpec

-----------------------------------------------------------------------------
(***************************************************************************)
(* The failover monitor                                                    *)
(***************************************************************************)
\* No more failures are on file, or in the copy of a run that is under way, than there were in a row.
CountedInv ==
    killedRuns = 0 =>
        \A c \in {Dc1, Dc2} :
            /\ file # None /\ (\A r \in Run : run[r] = None) => file[c].fails <= streak[c]
            /\ \A r \in Run : run[r] # None => run[r].state[c].fails <= streak[c]

\* A record that the run has yet to move away from its centre follows enough failures of it.
MovesInv ==
    killedRuns = 0 =>
        \A r \in Run : run[r] # None => \A d \in run[r].todo :
            run[r].target # Home[d] => streak[Home[d]] >= Threshold

FailoverInv == Failover!TypeOK /\ CountedInv /\ MovesInv

OneRunAtATime == \A q, r \in Run : q = r

LEMMA FailoverInit == Failover!Init => FailoverInv
  BY PanelAssumption DEF Failover!Init, Failover!Sites, FailoverInv, Failover!TypeOK, CountedInv, MovesInv, Failover!CentreState

\* What a run is after it went on to the next centre.
LEMMA DecideRun ==
  ASSUME Failover!TypeOK, NEW r \in Run, run[r] # None, run[r].at <= 2,
         NEW st \in Failover!CentreState, NEW records \in SUBSET DnsRecord, NEW target \in {Dc1, Dc2},
         Failover!Decide(r, st, records, target)
  PROVE  LET c == Failover!Site(r)
         IN  /\ run' \in [Run -> Failover!RunState \cup {None}] /\ run'[r] # None
             /\ run'[r].todo = records /\ run'[r].target = target
             /\ run'[r].state[c] = st
             /\ \A b \in {Dc1, Dc2} \ {c} : run'[r].state[b] = run[r].state[b]
<1> USE PanelAssumption, FailoverAssumption DEF Failover!TypeOK, Failover!RunState, Failover!Sites
<1> DEFINE c == Failover!Site(r)
           old == run[r]
           new == [state |-> [old.state EXCEPT ![c] = st], at |-> old.at + 1, todo |-> records, target |-> target]
<1>1. old \in Failover!RunState /\ c \in {Dc1, Dc2}
  BY DEF Failover!Site, Failover!Centre
<1>2. run' = [run EXCEPT ![r] = new]
  BY <1>1 DEF Failover!Decide
<1>3. new \in Failover!RunState
  BY <1>1
<1>4. new # None
  BY <1>3
<1> QED
  BY <1>1, <1>2, <1>3, <1>4

\* A check that succeeds starts the count anew, on file as in the streak.
LEMMA CheckUpStep ==
  ASSUME FailoverInv, OneRunAtATime, NEW r \in Run, Failover!CheckUp(r)
  PROVE  FailoverInv'
<1> USE PanelAssumption DEF FailoverInv, Failover!TypeOK, Failover!Sites
<1> DEFINE c == Failover!Site(r)
           records == IF Failover!State(r).active = c THEN {} ELSE Failover!RecordsOf(c)
           st == [fails |-> 0, active |-> c]
<1>1. /\ run[r] # None /\ run[r].at <= 2 /\ run[r] \in Failover!RunState
      /\ Failover!Decide(r, st, records, c)
      /\ streak' = [streak EXCEPT ![c] = 0]
      /\ UNCHANGED <<file, dns, up, killedRuns, refusals>>
  BY DEF Failover!CheckUp, Failover!Idle, Failover!Busy
<1>2. c \in {Dc1, Dc2} /\ \A b \in {Dc1, Dc2} : run[r].state[b] \in Failover!CentreState
  BY <1>1 DEF Failover!Site, Failover!Centre, Failover!RunState
<1>3. st \in Failover!CentreState /\ records \in SUBSET DnsRecord /\ \A d \in records : Home[d] = c
  BY <1>2 DEF Failover!CentreState, Failover!RecordsOf
<1> HIDE DEF c, records
<1>4. /\ run' \in [Run -> Failover!RunState \cup {None}] /\ run'[r] # None
      /\ run'[r].todo = records /\ run'[r].target = c
      /\ run'[r].state[c] = st
      /\ \A b \in {Dc1, Dc2} \ {c} : run'[r].state[b] = run[r].state[b]
  BY <1>1, <1>2, <1>3, DecideRun DEF c
<1>5. \A q \in Run : q = r
  BY DEF OneRunAtATime
<1>6. Failover!TypeOK'
  BY <1>1, <1>2, <1>4
<1>7. CountedInv'
  BY <1>1, <1>2, <1>4, <1>5 DEF CountedInv, Failover!CentreState
<1>8. MovesInv'
  BY <1>1, <1>3, <1>4, <1>5 DEF MovesInv
<1> QED
  BY <1>6, <1>7, <1>8

\* A check that fails is counted on both sides; the records are moved at the threshold.
LEMMA CheckDownStep ==
  ASSUME FailoverInv, OneRunAtATime, NEW r \in Run, Failover!CheckDown(r)
  PROVE  FailoverInv'
<1> USE PanelAssumption DEF FailoverInv, Failover!TypeOK, Failover!Sites
<1> DEFINE c == Failover!Site(r)
           moves == Failover!FailsNow(r) >= Threshold /\ Failover!State(r).active = c
           records == IF moves THEN Failover!RecordsOf(c) ELSE {}
           st == [fails |-> Failover!FailsNow(r),
                  active |-> IF moves THEN Failover!Other(c) ELSE Failover!State(r).active]
<1>1. /\ run[r] # None /\ run[r].at <= 2 /\ run[r] \in Failover!RunState
      /\ Failover!Decide(r, st, records, Failover!Other(c))
      /\ streak' = [streak EXCEPT ![c] = IF @ < Threshold THEN @ + 1 ELSE @]
      /\ UNCHANGED <<file, dns, up, killedRuns, refusals>>
  BY DEF Failover!CheckDown, Failover!Idle, Failover!Busy
<1>2. c \in {Dc1, Dc2} /\ \A b \in {Dc1, Dc2} : run[r].state[b] \in Failover!CentreState
  BY <1>1 DEF Failover!Site, Failover!Centre, Failover!RunState
<1>3. /\ run[r].state[c].fails \in 0 .. Threshold /\ run[r].state[c].active \in {Dc1, Dc2}
      /\ Failover!FailsNow(r) \in 0 .. Threshold
      /\ Failover!FailsNow(r) <= run[r].state[c].fails + 1
      /\ Failover!Other(c) \in {Dc1, Dc2}
  BY <1>2 DEF Failover!FailsNow, Failover!State, Failover!CentreState, Failover!Other
<1>4. st \in Failover!CentreState /\ records \in SUBSET DnsRecord /\ (\A d \in records : Home[d] = c)
      /\ st.fails = Failover!FailsNow(r) /\ (records # {} => st.fails = Threshold)
  BY <1>2, <1>3 DEF Failover!CentreState, Failover!RecordsOf, Failover!State
<1> HIDE DEF c, records, st
<1>5. /\ run' \in [Run -> Failover!RunState \cup {None}] /\ run'[r] # None
      /\ run'[r].todo = records
      /\ run'[r].state[c] = st
      /\ \A b \in {Dc1, Dc2} \ {c} : run'[r].state[b] = run[r].state[b]
  BY <1>1, <1>2, <1>3, <1>4, DecideRun DEF c
<1>6. \A q \in Run : q = r
  BY DEF OneRunAtATime
<1>7. streak' \in [{Dc1, Dc2} -> 0 .. Threshold]
  BY <1>1, <1>2
<1>8. Failover!TypeOK'
  BY <1>1, <1>5, <1>7
<1>9. killedRuns = 0 => st.fails <= streak'[c] /\ streak[c] <= streak'[c]
  <2>1. killedRuns = 0 => run[r].state[c].fails <= streak[c]
    BY <1>1, <1>2 DEF CountedInv
  <2> QED
    BY <2>1, <1>1, <1>2, <1>3, <1>4
<1>10. CountedInv'
  BY <1>1, <1>2, <1>5, <1>6, <1>9 DEF CountedInv, Failover!CentreState
<1>11. MovesInv'
  BY <1>1, <1>2, <1>4, <1>5, <1>6, <1>7, <1>9 DEF MovesInv
<1> QED
  BY <1>8, <1>10, <1>11

LEMMA FailoverStep ==
  ASSUME FailoverInv, OneRunAtATime, Failover!Next
  PROVE  FailoverInv'
<1> USE PanelAssumption, FailoverAssumption
    DEF FailoverInv, Failover!TypeOK, Failover!Sites, CountedInv, MovesInv, Failover!Busy, Failover!Idle
<1>1. ASSUME NEW r \in Run, Failover!Load(r) PROVE FailoverInv'
  <2> DEFINE new == [state |-> file, at |-> 1, todo |-> {}, target |-> Dc1]
  <2>1. new \in Failover!RunState /\ run' = [run EXCEPT ![r] = new]
        /\ UNCHANGED <<file, dns, up, streak, killedRuns, refusals>> /\ file # None
    BY <1>1 DEF Failover!Load, Failover!RunState
  <2>2. \A q \in Run : q = r /\ run[q] = None
    BY <1>1 DEF Failover!Load, OneRunAtATime
  <2> QED
    BY <2>1, <2>2
<1>2. ASSUME NEW r \in Run, NEW d \in DnsRecord, NEW ok \in BOOLEAN, Failover!Update(r, d, ok)
      PROVE FailoverInv'
  <2> DEFINE new == [run[r] EXCEPT !.todo = @ \ {d}]
  <2>1. /\ run[r] \in Failover!RunState /\ run' = [run EXCEPT ![r] = new]
        /\ UNCHANGED <<file, up, streak, killedRuns>>
    BY <1>2 DEF Failover!Update
  <2>2. new \in Failover!RunState /\ new.state = run[r].state /\ new.target = run[r].target
        /\ new.todo \subseteq run[r].todo
    BY <2>1 DEF Failover!RunState
  <2>3. dns' \in [DnsRecord -> {Dc1, Dc2}] /\ refusals' \in Nat
    BY <1>2, <2>1 DEF Failover!Update, Failover!RunState
  <2> HIDE DEF new
  <2> QED
    BY <2>1, <2>2, <2>3
<1>3. ASSUME NEW r \in Run, Failover!Save(r) PROVE FailoverInv'
  BY <1>3 DEF Failover!Save, Failover!Saved, Failover!RunState
<1>4. ASSUME NEW r \in Run, Failover!Kill(r) PROVE FailoverInv'
  BY <1>4 DEF Failover!Kill
<1>5. ASSUME NEW c \in {Dc1, Dc2}, Failover!Change(c) PROVE FailoverInv'
  BY <1>5 DEF Failover!Change
<1>6. ASSUME NEW r \in Run, Failover!CheckUp(r) \/ Failover!CheckDown(r) PROVE FailoverInv'
  BY <1>6, CheckUpStep, CheckDownStep
<1> HIDE DEF FailoverInv
<1> QED
  BY <1>1, <1>2, <1>3, <1>4, <1>5, <1>6 DEF Failover!Next, Failover!RunStep

\* A record leaves its centre only when a run moves it.
LEMMA MovesAreMade ==
  ASSUME FailoverInv, Failover!Next, NEW d \in DnsRecord, killedRuns = 0, dns[d] = Home[d], dns'[d] # Home[d]
  PROVE  streak[Home[d]] >= Threshold
<1> USE DEF FailoverInv, Failover!TypeOK, MovesInv
<1>1. ASSUME NEW r \in Run, NEW e \in DnsRecord, NEW ok \in BOOLEAN, Failover!Update(r, e, ok)
      PROVE  streak[Home[d]] >= Threshold
  <2>1. e = d /\ d \in run[r].todo /\ run[r] # None /\ run[r].target # Home[d]
    BY <1>1 DEF Failover!Update, Failover!Busy
  <2> QED
    BY <2>1
<1>2. dns' = dns \/ \E r \in Run, e \in DnsRecord, ok \in BOOLEAN : Failover!Update(r, e, ok)
  BY DEF Failover!Next, Failover!RunStep, Failover!Load, Failover!CheckUp, Failover!CheckDown, Failover!Save,
         Failover!Kill, Failover!Change
<1> QED
  BY <1>1, <1>2

\* As long as one run of the script ends before the next one begins, a record is moved away from
\* its centre only after Threshold failed checks in a row (failover_monitor.py, main).
THEOREM ThresholdRespected == OneRunAtATime => (PanelSpec => ThresholdIsRespected)
<1> SUFFICES ASSUME OneRunAtATime PROVE PanelSpec => ThresholdIsRespected
  OBVIOUS
<1>1. PanelInit => FailoverInv
  BY FailoverInit DEF PanelInit
<1>2. FailoverInv /\ [PanelNext]_panelVars => FailoverInv'
  <2> SUFFICES ASSUME FailoverInv, [PanelNext]_panelVars PROVE FailoverInv'
    OBVIOUS
  <2>1. CASE Failover!Next
    BY <2>1, FailoverStep
  <2>2. CASE UNCHANGED failoverVars
    BY <2>2 DEF failoverVars, FailoverInv, Failover!TypeOK, CountedInv, MovesInv
  <2> QED
    BY <2>1, <2>2 DEF PanelNext, panelVars
<1> DEFINE Respected == \A d \in DnsRecord : killedRuns = 0 /\ dns[d] = Home[d] /\ dns'[d] # Home[d]
                                                    => streak[Home[d]] >= Threshold
<1>3. FailoverInv /\ [PanelNext]_panelVars => [Respected]_failoverVars
  <2> SUFFICES ASSUME FailoverInv, [PanelNext]_panelVars, ~ UNCHANGED failoverVars PROVE Respected
    BY DEF failoverVars
  <2>1. Failover!Next
    BY DEF PanelNext, panelVars
  <2> QED
    BY <2>1, MovesAreMade
<1> QED
  BY <1>1, <1>2, <1>3, PTL DEF PanelSpec, ThresholdIsRespected, Failover!ThresholdIsRespected, Failover!vars, failoverVars

-----------------------------------------------------------------------------
(***************************************************************************)
(* The bulk jobs of the firewall service                                   *)
(***************************************************************************)
\* How many of the first n operations came to one of these outcomes.
Among(s, n, outcomes) == Cardinality({i \in 1 .. n : s[i] \in outcomes})

LEMMA AmongNone == ASSUME NEW s, NEW outcomes PROVE Among(s, 0, outcomes) = 0
<1>1. {i \in 1 .. 0 : s[i] \in outcomes} = {}
  OBVIOUS
<1> QED
  BY <1>1, FS_EmptySet DEF Among

LEMMA AmongNext ==
  ASSUME NEW s, NEW n \in Nat, NEW outcomes
  PROVE  /\ Among(s, n, outcomes) \in Nat
         /\ Among(s, n + 1, outcomes) = Among(s, n, outcomes) + (IF s[n + 1] \in outcomes THEN 1 ELSE 0)
<1> DEFINE S == {i \in 1 .. n : s[i] \in outcomes}
           T == {i \in 1 .. (n + 1) : s[i] \in outcomes}
<1>1. IsFiniteSet(S)
  <2>1. IsFiniteSet(1 .. n)
    BY FS_Interval
  <2> QED
    BY <2>1, FS_Subset
<1>2. Cardinality(S) \in Nat
  BY <1>1, FS_CardinalityType
<1>3. n + 1 \notin S
  OBVIOUS
<1>4. T = IF s[n + 1] \in outcomes THEN S \cup {n + 1} ELSE S
  OBVIOUS
<1>5. Cardinality(S \cup {n + 1}) = Cardinality(S) + 1
  BY <1>1, <1>3, FS_AddElement
<1> QED
  BY <1>2, <1>4, <1>5 DEF Among

LEMMA BulkCardinality == ASSUME NEW S PROVE Bulk!Cardinality(S) = Cardinality(S)
  BY Zenon DEF Bulk!Cardinality, Cardinality

\* All operations were counted.
LEMMA AmongAll ==
  ASSUME NEW s, DOMAIN s = 1 .. Len(s), NEW outcomes
  PROVE  Among(s, Len(s), outcomes) = Bulk!Count(s, outcomes)
<1>1. {i \in 1 .. Len(s) : s[i] \in outcomes} = {i \in DOMAIN s : s[i] \in outcomes}
  BY Zenon
<1> QED
  BY <1>1, BulkCardinality, Zenon DEF Among, Bulk!Count

Bad == {"fails", "raises"}
At == {"none", "running", "ended", "died"}

\* Where the thread of a job is agrees with what it has counted of the operations, and with the row.
Counts(w, s, said) ==
    /\ w.at = "none" => said = "none" /\ w.completed = 0 /\ w.failed = 0
    /\ w.at # "none" => Len(s) > 0
    /\ w.at = "running" =>
        LET handled == w.completed + w.failed
        IN  /\ handled <= Len(s)
            /\ w.completed = Among(s, handled, {"works"})
            /\ w.failed = Among(s, handled, Bad)

BulkType ==
    /\ ops \in [Run -> Seq(Bulk!Outcome)]
    /\ bulkRow \in [Run -> {"none", "running", "completed", "failed"}]
    /\ tally \in [Run -> [completed : Nat, failed : Nat]]
    /\ worker \in [Run -> [at : At, completed : Nat, failed : Nat]]

BulkInv ==
    /\ BulkType
    /\ \A j \in Run : Counts(worker[j], ops[j], bulkRow[j])
    /\ Bulk!SettledJobIsTrue

\* Only one job is touched by a step, and what it leaves has to be shown of that job.
LEMMA OneJob ==
  ASSUME BulkInv, NEW j \in Run, BulkType',
         \A k \in Run \ {j} : ops'[k] = ops[k] /\ bulkRow'[k] = bulkRow[k]
                              /\ tally'[k] = tally[k] /\ worker'[k] = worker[k],
         Counts(worker'[j], ops'[j], bulkRow'[j]), Bulk!Tells(bulkRow'[j], tally'[j], ops'[j])
  PROVE  BulkInv'
BY Zenon DEF BulkInv, Bulk!SettledJobIsTrue

LEMMA BulkInit == Bulk!Init => BulkInv
<1> SUFFICES ASSUME Bulk!Init PROVE BulkInv
  OBVIOUS
<1>1. BulkType
  BY DEF Bulk!Init, Bulk!NoTally, BulkType, At
<1>2. \A j \in Run : Counts(worker[j], ops[j], bulkRow[j])
  BY DEF Bulk!Init, Counts
<1>3. Bulk!SettledJobIsTrue
  BY DEF Bulk!Init, Bulk!SettledJobIsTrue, Bulk!Tells
<1> QED
  BY <1>1, <1>2, <1>3 DEF BulkInv

LEMMA CreateStep ==
  ASSUME BulkInv, NEW j \in Run, Bulk!Create(j)
  PROVE  BulkInv'
<1> USE DEF BulkType
<1>0. BulkType /\ Counts(worker[j], ops[j], bulkRow[j]) /\ worker[j].at = "none"
  BY DEF BulkInv, Bulk!Create
<1>1. PICK n \in 1 .. MaxOps : \E o \in [1 .. n -> Bulk!Outcome] : ops' = [ops EXCEPT ![j] = o]
  BY DEF Bulk!Create
<1>2. PICK o \in [1 .. n -> Bulk!Outcome] : ops' = [ops EXCEPT ![j] = o]
  BY <1>1
<1>3. n \in Nat /\ n > 0
  BY PanelAssumption
<1>4. o \in Seq(Bulk!Outcome) /\ Len(o) = n
  BY <1>3
<1>5. /\ bulkRow' \in [Run -> {"none", "running", "completed", "failed"}]
      /\ bulkRow'[j] \in {"none", "running"} /\ \A k \in Run \ {j} : bulkRow'[k] = bulkRow[k]
      /\ tally' = tally
  BY <1>0 DEF Bulk!Create, Counts
<1>6. worker' = [worker EXCEPT ![j].at = "running"]
  BY DEF Bulk!Create
<1>7. worker'[j] = [at |-> "running", completed |-> 0, failed |-> 0]
  BY <1>0, <1>6 DEF Counts, At
<1>8. Counts(worker'[j], ops'[j], bulkRow'[j])
  BY <1>0, <1>2, <1>3, <1>4, <1>7, AmongNone DEF Counts
<1>9. Bulk!Tells(bulkRow'[j], tally'[j], ops'[j])
  BY <1>5 DEF Bulk!Tells
<1>a. worker' \in [Run -> [at : At, completed : Nat, failed : Nat]]
  BY <1>0, <1>6, <1>7 DEF At
<1>10. BulkType'
  BY <1>0, <1>2, <1>4, <1>5, <1>a
<1>11. \A k \in Run \ {j} : ops'[k] = ops[k] /\ bulkRow'[k] = bulkRow[k]
                              /\ tally'[k] = tally[k] /\ worker'[k] = worker[k]
  BY <1>0, <1>2, <1>5, <1>6
<1> QED
  BY <1>8, <1>9, <1>10, <1>11, OneJob

LEMMA OperateStep ==
  ASSUME BulkInv, NEW j \in Run, Bulk!Operate(j)
  PROVE  BulkInv'
<1> USE DEF BulkType
<1> DEFINE w == worker[j]
           n == w.completed + w.failed
           o == ops[j][n + 1]
           new == [at |-> IF o = "malformed" THEN "died" ELSE "running",
                   completed |-> IF o = "works" THEN w.completed + 1 ELSE w.completed,
                   failed |-> IF o \in {"works", "malformed"} THEN w.failed ELSE w.failed + 1]
<1>1. BulkType /\ Counts(w, ops[j], bulkRow[j]) /\ Bulk!Tells(bulkRow[j], tally[j], ops[j])
  BY DEF BulkInv, Bulk!SettledJobIsTrue
<1>2. /\ w.at = "running" /\ w \in [at : At, completed : Nat, failed : Nat] /\ n \in Nat
      /\ n < Len(ops[j]) /\ UNCHANGED <<ops, bulkRow, tally>>
  BY <1>1 DEF Bulk!Operate, Bulk!Handled
<1>3. o \in Bulk!Outcome
  BY <1>1, <1>2
<1>4. worker' = [worker EXCEPT ![j] = new]
  BY <1>2 DEF Bulk!Operate, Bulk!Handled, Bulk!EndsThread, Bulk!Worked
<1>5. /\ Among(ops[j], n + 1, {"works"}) = Among(ops[j], n, {"works"}) + (IF o \in {"works"} THEN 1 ELSE 0)
      /\ Among(ops[j], n + 1, Bad) = Among(ops[j], n, Bad) + (IF o \in Bad THEN 1 ELSE 0)
  <2>1. n \in Nat
    BY <1>2
  <2> HIDE DEF n
  <2> QED
    BY <2>1, AmongNext
<1>6. new \in [at : At, completed : Nat, failed : Nat]
  BY <1>2 DEF At
<1>7. Counts(new, ops[j], bulkRow[j])
  <2>1. Len(ops[j]) > 0 /\ new.at # "none"
    BY <1>1, <1>2 DEF Counts
  <2>2. CASE o = "malformed"
    BY <2>1, <2>2 DEF Counts
  <2>3. CASE o # "malformed"
    <3>1. /\ new.completed + new.failed = n + 1
          /\ new.completed = w.completed + (IF o \in {"works"} THEN 1 ELSE 0)
          /\ new.failed = w.failed + (IF o \in Bad THEN 1 ELSE 0)
      BY <1>2, <1>3, <2>3 DEF Bulk!Outcome, Bad
    <3>2. w.completed = Among(ops[j], n, {"works"}) /\ w.failed = Among(ops[j], n, Bad)
      BY <1>1, <1>2 DEF Counts
    <3>3. n + 1 <= Len(ops[j])
      BY <1>1, <1>2
    <3> QED
      BY <1>5, <2>1, <3>1, <3>2, <3>3 DEF Counts
  <2> QED
    BY <2>2, <2>3
<1> HIDE DEF new, o, w
<1>8. worker'[j] = new
  BY <1>1, <1>4
<1>9. BulkType'
  BY <1>1, <1>2, <1>4, <1>6
<1>10. \A k \in Run \ {j} : worker'[k] = worker[k]
  BY <1>1, <1>4
<1> QED
  BY <1>1, <1>2, <1>7, <1>8, <1>9, <1>10, OneJob

LEMMA SettleStep ==
  ASSUME BulkInv, NEW j \in Run, Bulk!Settle(j)
  PROVE  BulkInv'
<1> USE DEF BulkType
<1> DEFINE w == worker[j]
           done == [completed |-> w.completed, failed |-> w.failed]
           said == Bulk!Status(w.completed, w.failed)
<1>1. BulkType /\ Counts(w, ops[j], bulkRow[j]) /\ Bulk!Tells(bulkRow[j], tally[j], ops[j])
  BY DEF BulkInv, Bulk!SettledJobIsTrue
<1>2. /\ w.at = "running" /\ w.completed + w.failed = Len(ops[j])
      /\ worker' = [worker EXCEPT ![j].at = "ended"]
      /\ ops' = ops
  BY DEF Bulk!Settle, Bulk!Handled
<1>3. /\ worker' \in [Run -> [at : At, completed : Nat, failed : Nat]]
      /\ worker'[j].at = "ended" /\ \A k \in Run \ {j} : worker'[k] = worker[k]
  BY <1>1, <1>2 DEF At
<1>4. Len(ops[j]) > 0
  BY <1>1, <1>2 DEF Counts
<1>5. \A st : Counts(worker'[j], ops[j], st)
  BY <1>3, <1>4 DEF Counts
<1>6. CASE UNCHANGED <<bulkRow, tally>>
  <2>1. BulkType'
    BY <1>1, <1>2, <1>3, <1>6
  <2> QED
    BY <1>1, <1>2, <1>3, <1>5, <1>6, <2>1, OneJob
<1>7. CASE bulkRow' = [bulkRow EXCEPT ![j] = said] /\ tally' = [tally EXCEPT ![j] = done]
  <2>1. DOMAIN ops[j] = 1 .. Len(ops[j])
    BY <1>1
  <2>2. w.completed = Bulk!Count(ops[j], {"works"}) /\ w.failed = Bulk!Count(ops[j], Bad)
    BY <1>1, <1>2, <2>1, AmongAll DEF Counts
  <2>3. w.completed \in Nat /\ w.failed \in Nat
    BY <1>1
  <2>4. said = "failed" <=> w.completed = 0
    BY <1>2, <1>4, <2>3 DEF Bulk!Status
  <2>5. said \in {"completed", "failed"}
    BY DEF Bulk!Status
  <2>6. Bulk!Tells(said, done, ops[j])
    BY <1>2, <2>2, <2>4 DEF Bulk!Tells, Bad
  <2>7. bulkRow'[j] = said /\ tally'[j] = done
        /\ \A k \in Run \ {j} : bulkRow'[k] = bulkRow[k] /\ tally'[k] = tally[k]
    BY <1>1, <1>7
  <2>8. BulkType'
    BY <1>1, <1>2, <1>3, <1>7, <2>3, <2>5
  <2> HIDE DEF said, done
  <2> QED
    BY <1>2, <1>3, <1>5, <2>6, <2>7, <2>8, OneJob
<1> QED
  BY <1>6, <1>7 DEF Bulk!Settle

LEMMA BulkKillStep ==
  ASSUME BulkInv, Bulk!Kill
  PROVE  BulkInv'
<1> USE DEF BulkType
<1>1. BulkType /\ (\A j \in Run : Counts(worker[j], ops[j], bulkRow[j])) /\ Bulk!SettledJobIsTrue
  BY DEF BulkInv
<1>2. /\ ops' = ops /\ tally' = tally
      /\ worker' = [j \in Run |-> [worker[j] EXCEPT !.at = Bulk!Died(@)]]
      /\ bulkRow' = bulkRow \/ bulkRow' = [j \in Run |-> "none"]
  BY DEF Bulk!Kill
<1>3. /\ worker' \in [Run -> [at : At, completed : Nat, failed : Nat]]
      /\ \A j \in Run : /\ worker'[j].at # "running"
                        /\ worker'[j].at = "none" <=> worker[j].at = "none"
                        /\ worker'[j].completed = worker[j].completed /\ worker'[j].failed = worker[j].failed
  <2> DEFINE new(j) == [at |-> Bulk!Died(worker[j].at), completed |-> worker[j].completed,
                        failed |-> worker[j].failed]
  <2>1. ASSUME NEW j \in Run PROVE [worker[j] EXCEPT !.at = Bulk!Died(@)] = new(j)
    BY <1>1
  <2>2. worker' = [j \in Run |-> new(j)]
    BY <1>2, <2>1
  <2>3. \A j \in Run : worker'[j] = new(j)
    BY <2>2, Zenon
  <2>4. \A j \in Run : new(j) \in [at : At, completed : Nat, failed : Nat]
    BY <1>1 DEF Bulk!Died, At
  <2>5. worker' \in [Run -> [at : At, completed : Nat, failed : Nat]]
    BY <2>2, <2>4
  <2>6. \A j \in Run : /\ new(j).at # "running" /\ (new(j).at = "none" <=> worker[j].at = "none")
                      /\ new(j).completed = worker[j].completed /\ new(j).failed = worker[j].failed
    BY <1>1 DEF Bulk!Died, At
  <2> HIDE DEF new
  <2> QED
    BY <2>3, <2>5, <2>6
<1>4. BulkType'
  BY <1>1, <1>2, <1>3
<1>5. ASSUME NEW j \in Run PROVE Counts(worker'[j], ops'[j], bulkRow'[j])
  <2> DEFINE w == worker'[j]
  <2>1. /\ w.at # "running" /\ (w.at = "none" <=> worker[j].at = "none")
        /\ w.completed = worker[j].completed /\ w.failed = worker[j].failed
    BY <1>3
  <2>2. ops'[j] = ops[j] /\ bulkRow'[j] \in {bulkRow[j], "none"}
    BY <1>2
  <2>3. Counts(worker[j], ops[j], bulkRow[j])
    BY <1>1
  <2> HIDE DEF w, BulkType
  <2>4. Counts(w, ops'[j], bulkRow'[j])
    BY <2>1, <2>2, <2>3 DEF Counts
  <2> QED
    BY <2>4 DEF w
<1>6. Bulk!SettledJobIsTrue'
  BY <1>1, <1>2 DEF Bulk!SettledJobIsTrue, Bulk!Tells
<1> QED
  BY <1>4, <1>5, <1>6 DEF BulkInv

LEMMA BulkStep ==
  ASSUME BulkInv, Bulk!Next
  PROVE  BulkInv'
<1>1. Bulk!Kill \/ \E j \in Run : Bulk!Create(j) \/ Bulk!Operate(j) \/ Bulk!Settle(j)
  BY DEF Bulk!Next, Bulk!JobStep
<1> QED
  BY <1>1, CreateStep, OperateStep, SettleStep, BulkKillStep

-----------------------------------------------------------------------------
(***************************************************************************)
(* Its webhooks                                                            *)
(***************************************************************************)
\* The count of a webhook does not exceed its peak, and a thread calls a webhook of the list.
HookInv ==
    /\ hook \in [Hook -> {"none", "usable", "unusable", "removed"}]
    /\ active \in [Hook -> BOOLEAN] /\ fails \in [Hook -> Nat] /\ peak \in [Hook -> Nat]
    /\ dispatch \in [Alert -> [at : {"none", "next", "calling", "delivered", "failed", "died"},
                               left : SUBSET Hook, hook : Hook \cup {"none"}, attempt : Nat]]
    /\ \A a \in Alert : dispatch[a].at \in {"calling", "delivered", "failed"} => dispatch[a].hook \in Hook
    /\ \A h \in Hook : fails[h] <= peak[h] /\ (hook[h] = "none" => peak[h] = 0)
    /\ Hooks!FailingHookIsOff
    /\ worker \in [Run -> [at : {"none"}, completed : Nat, failed : Nat]]
    /\ bulkRow = [j \in Run |-> "none"]

LEMMA HookInit == Hooks!Init => HookInv
  BY DEF Hooks!Init, HookInv, Hooks!FailingHookIsOff, Hooks!Idle

LEMMA RecordStep ==
  ASSUME HookInv, NEW a \in Alert, Hooks!Record(a)
  PROVE  HookInv'
<1> USE PanelAssumption DEF HookInv, Hooks!FailingHookIsOff
<1> DEFINE h == dispatch[a].hook
<1>1. /\ h \in Hook /\ hook' = hook /\ bulkRow' = bulkRow /\ worker' = worker
      /\ dispatch' = [dispatch EXCEPT ![a].at = "next"]
  BY DEF Hooks!Record, Hooks!jobVars
<1> HIDE DEF h
<1>a. dispatch' \in [Alert -> [at : {"none", "next", "calling", "delivered", "failed", "died"},
                               left : SUBSET Hook, hook : Hook \cup {"none"}, attempt : Nat]]
      /\ \A b \in Alert : dispatch'[b].at \in {"calling", "delivered", "failed"} => dispatch'[b].hook \in Hook
  BY <1>1
<1>2. CASE UNCHANGED <<active, fails, peak>>
  <2>1. Hooks!FailingHookIsOff'
    BY <1>1, <1>2, Zenon
  <2> QED
    BY <1>1, <1>a, <1>2, <2>1, Zenon
<1>3. CASE fails' = [fails EXCEPT ![h] = 0] /\ UNCHANGED <<active, peak>>
  <2>1. fails' \in [Hook -> Nat] /\ fails'[h] = 0 /\ \A g \in Hook \ {h} : fails'[g] = fails[g]
    BY <1>1, <1>3
  <2>2. \A g \in Hook : fails'[g] <= peak'[g] /\ (hook[g] = "none" => peak'[g] = 0)
    BY <1>3, <2>1
  <2>3. Hooks!FailingHookIsOff'
    BY <1>1, <1>3, Zenon
  <2> QED
    BY <1>1, <1>a, <1>3, <2>1, <2>2, <2>3, Zenon
<1>4. CASE /\ Hooks!Exists(h)
           /\ fails' = [fails EXCEPT ![h] = @ + 1]
           /\ active' = [active EXCEPT ![h] = @ /\ ~Hooks!SwitchedOff(h)]
           /\ peak' = [peak EXCEPT ![h] = IF fails'[h] > @ THEN fails'[h] ELSE @]
  <2>1. fails'[h] = fails[h] + 1 /\ \A g \in Hook \ {h} : fails'[g] = fails[g]
    BY <1>1, <1>4
  <2>2. peak'[h] = (IF fails[h] + 1 > peak[h] THEN fails[h] + 1 ELSE peak[h])
        /\ \A g \in Hook \ {h} : peak'[g] = peak[g]
    BY <1>1, <1>4, <2>1
  <2>3. (active'[h] <=> active[h] /\ ~Hooks!SwitchedOff(h)) /\ \A g \in Hook \ {h} : active'[g] = active[g]
    BY <1>1, <1>4
  <2>4. active' \in [Hook -> BOOLEAN] /\ fails' \in [Hook -> Nat] /\ peak' \in [Hook -> Nat]
    BY <1>1, <1>4, <2>1, <2>2
  <2>5. hook[h] # "none" => (active'[h] <=> peak'[h] < Limit)
    BY <1>1, <2>1, <2>2, <2>3 DEF Hooks!SwitchedOff
  <2>6. \A g \in Hook : fails'[g] <= peak'[g] /\ (hook'[g] = "none" => peak'[g] = 0)
    BY <1>1, <1>4, <2>1, <2>2 DEF Hooks!Exists
  <2>7. Hooks!FailingHookIsOff'
    BY <1>1, <2>2, <2>3, <2>5
  <2> QED
    BY <1>1, <1>a, <2>4, <2>6, <2>7, Zenon
<1> QED
  BY <1>2, <1>3, <1>4 DEF Hooks!Record, h

LEMMA HookStep ==
  ASSUME HookInv, Hooks!Next
  PROVE  HookInv'
<1> USE PanelAssumption DEF HookInv, Hooks!FailingHookIsOff, Hooks!jobVars, Hooks!hookVars
<1>1. ASSUME NEW h \in Hook, NEW how \in {"usable", "unusable"}, Hooks!AddHook(h, how)
      PROVE  HookInv'
  BY <1>1 DEF Hooks!AddHook
<1>2. ASSUME NEW h \in Hook, Hooks!RemoveHook(h)
      PROVE  HookInv'
  BY <1>2 DEF Hooks!RemoveHook
<1>3. ASSUME NEW a \in Alert, Hooks!RaiseAlert(a)
      PROVE  HookInv'
  BY <1>3 DEF Hooks!RaiseAlert
<1>4. ASSUME NEW a \in Alert, NEW h \in Hook, Hooks!Take(a, h)
      PROVE  HookInv'
  BY <1>4, SMTT(30) DEF Hooks!Take
<1>5. ASSUME NEW a \in Alert, Hooks!Call(a)
      PROVE  HookInv'
  <2>1. dispatch[a].at = "calling" /\ UNCHANGED <<bulkRow, worker, hook, active, fails, peak>>
    BY <1>5 DEF Hooks!Call
  <2>2. CASE dispatch' = [dispatch EXCEPT ![a].at = "delivered"]
    BY <2>1, <2>2
  <2>3. CASE dispatch' = [dispatch EXCEPT ![a].attempt = @ + 1,
                                ![a].at = IF dispatch[a].attempt + 1 = Tries THEN "failed" ELSE @]
    <3> DEFINE d == dispatch[a]
               next == IF d.attempt + 1 = Tries THEN "failed" ELSE "calling"
               e == [at |-> next, left |-> d.left, hook |-> d.hook, attempt |-> d.attempt + 1]
    <3>1. dispatch' = [dispatch EXCEPT ![a] = e]
      <4>1. dispatch' = [dispatch EXCEPT ![a] = [[d EXCEPT !.attempt = @ + 1] EXCEPT !.at = next]]
        BY <2>1, <2>3
      <4>2. [d EXCEPT !.attempt = @ + 1] = [at |-> d.at, left |-> d.left, hook |-> d.hook, attempt |-> d.attempt + 1]
        BY <2>1
      <4> HIDE DEF next
      <4>3. [[at |-> d.at, left |-> d.left, hook |-> d.hook, attempt |-> d.attempt + 1] EXCEPT !.at = next] = e
        OBVIOUS
      <4> HIDE DEF e, d
      <4> QED
        BY <4>1, <4>2, <4>3, Zenon
    <3>2. /\ e \in [at : {"none", "next", "calling", "delivered", "failed", "died"},
                   left : SUBSET Hook, hook : Hook \cup {"none"}, attempt : Nat]
          /\ e.hook = d.hook
      BY <2>1
    <3> HIDE DEF e
    <3> QED
      BY <2>1, <3>1, <3>2
  <2> QED
    BY <1>5, <2>2, <2>3 DEF Hooks!Call
<1>6. CASE Hooks!Kill
  <2> DEFINE new(a) == [at |-> Hooks!Died(dispatch[a].at), left |-> dispatch[a].left,
                        hook |-> dispatch[a].hook, attempt |-> dispatch[a].attempt]
  <2>1. ASSUME NEW a \in Alert PROVE [dispatch[a] EXCEPT !.at = Hooks!Died(@)] = new(a)
    OBVIOUS
  <2>2. dispatch' = [a \in Alert |-> new(a)]
    BY <1>6, <2>1 DEF Hooks!Kill
  <2>3. \A a \in Alert : dispatch'[a] = new(a)
    BY <2>2, Zenon
  <2>4. ASSUME NEW a \in Alert
        PROVE  /\ new(a) \in [at : {"none", "next", "calling", "delivered", "failed", "died"},
                               left : SUBSET Hook, hook : Hook \cup {"none"}, attempt : Nat]
               /\ new(a).at \notin {"calling", "delivered", "failed"}
    BY DEF Hooks!Died
  <2>5. worker' = [j \in Run |-> [worker[j] EXCEPT !.at = Hooks!Died(@)]]
    BY <1>6 DEF Hooks!Kill
  <2>6. dispatch' \in [Alert -> [at : {"none", "next", "calling", "delivered", "failed", "died"},
                               left : SUBSET Hook, hook : Hook \cup {"none"}, attempt : Nat]]
    BY <2>2, <2>4
  <2>7. \A a \in Alert : dispatch'[a].at \notin {"calling", "delivered", "failed"}
    BY <2>3, <2>4
  <2> HIDE DEF new
  <2>8. bulkRow' = bulkRow /\ worker' \in [Run -> [at : {"none"}, completed : Nat, failed : Nat]]
    BY <1>6, <2>5 DEF Hooks!Kill, Hooks!Died
  <2>9. /\ hook' \in [Hook -> {"none", "usable", "unusable", "removed"}]
        /\ \A h \in Hook : hook'[h] = "none" <=> hook[h] = "none"
        /\ UNCHANGED <<active, fails, peak>>
    BY <1>6 DEF Hooks!Kill
  <2> QED
    BY <2>6, <2>7, <2>8, <2>9
<1>7. ASSUME NEW j \in Run, Hooks!Create(j) \/ Hooks!JobStep(j)
      PROVE  FALSE
  BY <1>7 DEF Hooks!Create, Hooks!JobStep, Hooks!Operate, Hooks!Settle
<1> QED
  BY <1>1, <1>2, <1>3, <1>4, <1>5, <1>6, <1>7, RecordStep DEF Hooks!Next, Hooks!DispatchStep

IspInv == IF part = "hooks" THEN HookInv ELSE BulkInv

\* What a bulk job says when it is settled is what its operations came to, and a webhook is
\* switched off after Limit failures in a row and not before, for any number of jobs, webhooks
\* and alerts and wherever the process ends (_run_bulk_async, update_webhook_status).
THEOREM ThreadsTold == PanelSpec => []ThreadsAreTold
<1>1. PanelInit => IspInv
  BY BulkInit, HookInit DEF PanelInit, IspInv
<1>2. IspInv /\ [PanelNext]_panelVars => IspInv'
  <2> SUFFICES ASSUME IspInv, [PanelNext]_panelVars PROVE IspInv'
    OBVIOUS
  <2>1. part' = part
    BY DEF PanelNext, panelVars
  <2>2. CASE part = "hooks"
    <3>1. CASE Hooks!Next
      BY <2>1, <2>2, <3>1, HookStep DEF IspInv
    <3>2. CASE UNCHANGED ispVars
      BY <2>1, <2>2, <3>2 DEF ispVars, IspInv, HookInv, Hooks!FailingHookIsOff
    <3> QED
      BY <2>2, <3>1, <3>2 DEF PanelNext, panelVars
  <2>3. CASE part # "hooks"
    <3>1. CASE Bulk!Next
      BY <2>1, <2>3, <3>1, BulkStep DEF IspInv
    <3>2. CASE UNCHANGED ispVars
      BY <2>1, <2>3, <3>2 DEF ispVars, IspInv, BulkInv, BulkType, Bulk!SettledJobIsTrue
    <3> QED
      BY <2>3, <3>1, <3>2 DEF PanelNext, panelVars
  <2> QED
    BY <2>2, <2>3
<1>3. IspInv => ThreadsAreTold
  <2>1. HookInv => Hooks!ThreadsAreTold
    BY DEF HookInv, Hooks!ThreadsAreTold, Hooks!SettledJobIsTrue, Hooks!Tells
  <2>2. BulkInv => Bulk!ThreadsAreTold
    BY DEF BulkInv, Bulk!ThreadsAreTold, Bulk!FailingHookIsOff
  <2> QED
    BY <2>1, <2>2 DEF IspInv, ThreadsAreTold
<1> QED
  BY <1>1, <1>2, <1>3, PTL DEF PanelSpec
-----------------------------------------------------------------------------
(***************************************************************************)
(* The installation                                                        *)
(***************************************************************************)
Rows == {"admin", "user", "server"}

DataType ==
    /\ {tables, settings, migrated, deleted, saved} \subseteq BOOLEAN
    /\ columns \subseteq {"hierarchy", "tenant"}
    /\ owner \in [Rows -> {None, ""} \cup Installed!Org]
    /\ password \in {None, "plain", "masked"}
    /\ plans \in {"none", "community", "all"}
    /\ orgs \subseteq Installed!Org /\ subs \in [Installed!Org -> Nat] /\ quotas \subseteq Installed!Org
    /\ config \in Installed!File
    /\ younger \subseteq Rows /\ crossed \subseteq {"file", "subs"}

JobsType == job \in [Hook -> Installed!JobState]

\* Rows without an organization came after the last script that has given them out.
OwnedUnlessYounger == \A x \in Rows : owner[x] = "" => x \in younger

\* The server's row is there, or was deleted: what masks a password in the file has it in the row.
RowWasMade == deleted \/ owner["server"] # None

DataInv ==
    /\ "default" \in orgs => subs["default"] = 1 /\ "default" \in quotas
    /\ "default" \notin orgs => subs["default"] = 0
    /\ migrated => "tenant" \in columns /\ subs["emare"] > 0 /\ "emare" \in quotas /\ OwnedUnlessYounger
    /\ subs["emare"] > 1 => "subs" \in crossed
    /\ \A x \in Rows : owner[x] \in Installed!Org => owner[x] \in orgs
    /\ owner["server"] = None <=> password = None
    /\ password = "masked" => deleted
    /\ config.password = "masked" => RowWasMade

\* What a start that has come to stage k can rely on; the eighth one is a panel that is up.
Whole(k) ==
    /\ k > 2 => "hierarchy" \in columns
    /\ k > 3 => owner["admin"] # None \/ owner["user"] # None
    /\ k > 6 => plans # "none"
    /\ k > 7 => orgs # {}

\* The stages that a process may be at in each of its places.
Placed(p) ==
    /\ job[p].at \in {"look", "make"} => job[p].stage > 0
    /\ job[p].at = "insert" => job[p].stage = 4 /\ job[p].seen.password # "gone"
    /\ job[p].at \in {"write", "dump"} => job[p].stage \in {0, 4}
    /\ job[p].at \in {"none", "up"} \cup Installed!ScriptPlace => job[p].stage = 0

\* A start and a panel that is up have what they have come to.
Relies(p) ==
    /\ Whole(job[p].stage)
    /\ job[p].stage = 0 /\ job[p].at \in {"up", "write", "dump"} => Whole(8)

\* What the script has done so far stands.
CarriesAt(place) ==
    /\ place \in Installed!ScriptPlace => "tenant" \in columns
    /\ place = "assign" => "emare" \in orgs
    /\ place \in {"look for plan", "make plan", "look for subscription", "subscribe", "look for quota"} =>
            OwnedUnlessYounger
    /\ place = "look for quota" => subs["emare"] > 0
    /\ place = "subscribe" /\ subs["emare"] > 0 => "subs" \in crossed

Carries(p) == CarriesAt(job[p].at)

\* A file with a masked password is of a server that has its row.
Masks(p) ==
    job[p].at \in {"insert", "write", "dump"} /\ "masked" \in {job[p].seen.password, job[p].put.password} => RowWasMade

\* What a process is about to write is the file it has read, with what it wants changed; and the
\* file it is writing is still that one.
HandsOver(p) ==
    "file" \notin crossed =>
        /\ job[p].at \in {"insert", "write", "dump"} => ~job[p].seen.torn
        /\ job[p].at \in {"write", "dump"} =>
                IF job[p].stage = 0
                THEN job[p].put.password = job[p].seen.password /\ job[p].put.protocol
                ELSE job[p].put.password = "masked" /\ job[p].put.protocol = job[p].seen.protocol
        /\ job[p].at = "dump" =>
                /\ config.torn /\ config.password = job[p].seen.password
                /\ config.protocol = job[p].seen.protocol

ProcInv(p) == Placed(p) /\ Relies(p) /\ Carries(p) /\ Masks(p) /\ HandsOver(p)

\* Unless writers of the file have overlapped there is one of them, and one that masks the password.
FileInv ==
    \/ "file" \in crossed
    \/ /\ \A p, q \in Hook : job[p].at = "dump" /\ job[q].at = "dump" => p = q
       /\ saved => config.protocol
       /\ config.password = "plain" /\ password # None =>
                \E p \in Hook : job[p].stage > 0 /\ job[p].at \in {"write", "dump"}

InstallInv == DataType /\ JobsType /\ DataInv /\ FileInv /\ \A p \in Hook : ProcInv(p)

LEMMA StagesAre ==
  /\ Len(Installed!Stages) = 7
  /\ Installed!Stages[1] = "tables" /\ Installed!Stages[2] = "hierarchy" /\ Installed!Stages[3] = "admin"
  /\ Installed!Stages[4] = "servers" /\ Installed!Stages[5] = "settings" /\ Installed!Stages[6] = "plans"
  /\ Installed!Stages[7] = "org"
BY DEF Installed!Stages

\* What a step of one process leaves to the others: what was made stays, and rows without an
\* organization, or without a server, have a reason.
Grows ==
    /\ columns \subseteq columns' /\ orgs \subseteq orgs' /\ crossed \subseteq crossed'
    /\ \A x \in {"admin", "user"} : owner[x] # None => owner'[x] # None
    /\ plans # "none" => plans' # "none"
    /\ subs["emare"] > 0 => subs'["emare"] > 0
    /\ OwnedUnlessYounger => OwnedUnlessYounger'
    /\ RowWasMade => RowWasMade'

\* And what it leaves to one that writes the file or is about to subscribe.
Spares(q) ==
    /\ config' = config \/ "file" \in crossed' \/ job[q].at # "dump"
    /\ subs["emare"] > 0 \/ ~ (subs'["emare"] > 0) \/ "subs" \in crossed' \/ job[q].at # "subscribe"

LEMMA Untouched ==
  ASSUME NEW q \in Hook, ProcInv(q), job'[q] = job[q], Grows, Spares(q)
  PROVE  ProcInv(q)'
<1>1. Placed(q)'
  BY DEF ProcInv, Placed
<1>2. Relies(q)'
  BY DEF ProcInv, Relies, Whole, Grows
<1>3. Carries(q)'
  BY DEF ProcInv, Carries, CarriesAt, Grows, Spares
<1>4. Masks(q)'
  BY DEF ProcInv, Masks, Grows
<1>5. HandsOver(q)'
  BY DEF ProcInv, HandsOver, Grows, Spares
<1> QED
  BY <1>1, <1>2, <1>3, <1>4, <1>5 DEF ProcInv

LEMMA Becoming ==
  ASSUME JobsType, NEW p \in Hook, NEW j \in Installed!JobState, Installed!Becomes(p, j)
  PROVE  JobsType' /\ job'[p] = j /\ \A q \in Hook \ {p} : job'[q] = job[q]
BY DEF JobsType, Installed!Becomes

\* A step of one process.
LEMMA OneSteps ==
  ASSUME InstallInv, NEW p \in Hook, NEW j \in Installed!JobState, Installed!Becomes(p, j),
         DataType', DataInv', FileInv', ProcInv(p)', Grows, \A q \in Hook \ {p} : Spares(q)
  PROVE  InstallInv'
<1>1. JobsType' /\ \A q \in Hook \ {p} : job'[q] = job[q]
  BY Becoming DEF InstallInv
<1>2. ASSUME NEW q \in Hook PROVE ProcInv(q)'
  <2>1. CASE q = p
    BY <2>1
  <2>2. CASE q # p
    <3>1. ProcInv(q) /\ job'[q] = job[q] /\ Spares(q)
      BY <1>1, <2>2 DEF InstallInv
    <3> QED
      BY <3>1, Untouched
  <2> QED
    BY <2>1, <2>2
<1> QED
  BY <1>1, <1>2 DEF InstallInv

\* A process that neither is at the file nor comes to it leaves the file.
LEMMA FileStays ==
  ASSUME JobsType, FileInv, NEW p \in Hook, NEW j \in Installed!JobState, Installed!Becomes(p, j),
         j.at # "dump", job[p].at \notin {"write", "dump"} \/ "file" \in crossed',
         config' = config, saved' = saved, crossed \subseteq crossed', password' \in {password, None}
  PROVE  FileInv'
<1>1. job'[p] = j /\ \A q \in Hook \ {p} : job'[q] = job[q]
  BY Becoming
<1>2. CASE "file" \in crossed'
  BY <1>2 DEF FileInv
<1>3. CASE "file" \notin crossed'
  <2>1. job[p].at \notin {"write", "dump"} /\ "file" \notin crossed
    BY <1>3
  <2>2. ASSUME NEW q \in Hook, NEW r \in Hook, job'[q].at = "dump", job'[r].at = "dump" PROVE q = r
    BY <1>1, <2>1, <2>2 DEF FileInv
  <2>3. saved' => config'.protocol
    BY <2>1 DEF FileInv
  <2>4. ASSUME config'.password = "plain", password' # None
        PROVE  \E q \in Hook : job'[q].stage > 0 /\ job'[q].at \in {"write", "dump"}
    <3>1. PICK q \in Hook : job[q].stage > 0 /\ job[q].at \in {"write", "dump"}
      BY <2>1, <2>4 DEF FileInv
    <3>2. job'[q] = job[q]
      BY <1>1, <2>1, <3>1
    <3> QED
      BY <3>1, <3>2
  <2> QED
    BY <2>2, <2>3, <2>4 DEF FileInv
<1> QED
  BY <1>2, <1>3

\* A process that only goes to another place.
LEMMA OneGoes ==
  ASSUME InstallInv, NEW p \in Hook, NEW j \in Installed!JobState, Installed!Becomes(p, j),
         UNCHANGED <<Installed!database, config, Installed!history>>,
         j.at # "dump", job[p].at \notin {"write", "dump"}, ProcInv(p)'
  PROVE  InstallInv'
<1>1. /\ UNCHANGED <<tables, columns, owner, password, settings, plans, orgs, subs, quotas>>
      /\ UNCHANGED <<config, younger, migrated, deleted, saved, crossed>>
  BY DEF Installed!database, Installed!history
<1>2. DataType' /\ DataInv'
  BY <1>1 DEF InstallInv, DataType, DataInv, OwnedUnlessYounger, RowWasMade
<1>3. FileInv'
  BY <1>1, FileStays DEF InstallInv
<1>4. Grows /\ \A q \in Hook \ {p} : Spares(q)
  BY <1>1 DEF Grows, Spares, OwnedUnlessYounger, RowWasMade
<1> QED
  BY <1>2, <1>3, <1>4, OneSteps

\* A place without a file in hand.
LEMMA PlaceIs ==
  ASSUME NEW place \in {"none", "look", "make", "insert", "write", "dump", "up"} \cup Installed!ScriptPlace,
         NEW k \in 0 .. 7
  PROVE  /\ Installed!Place(place, k) \in Installed!JobState
         /\ Installed!Place(place, k).at = place /\ Installed!Place(place, k).stage = k
BY DEF Installed!JobState, Installed!Place, Installed!NoFile, Installed!File

LEMMA PlaceInv ==
  ASSUME NEW p \in Hook, NEW place \in {"none", "look", "make", "up"} \cup Installed!ScriptPlace, NEW k \in 0 .. 7,
         job'[p] = Installed!Place(place, k), place \in {"look", "make"} <=> k > 0,
         Whole(k)', place = "up" => Whole(8)', Carries(p)'
  PROVE  ProcInv(p)'
<1>1. job'[p].at = place /\ job'[p].stage = k
  BY PlaceIs
<1>2. place \notin {"insert", "write", "dump"}
  BY DEF Installed!ScriptPlace
<1>6. place \in {"none", "up"} \cup Installed!ScriptPlace => k = 0
  <2>1. place \in {"none", "up"} \cup Installed!ScriptPlace => place \notin {"look", "make"}
    BY DEF Installed!ScriptPlace
  <2> QED
    BY <2>1
<1>3. Placed(p)'
  BY <1>1, <1>2, <1>6 DEF Placed
<1>5. Relies(p)'
  BY <1>1, <1>2 DEF Relies, Whole
<1>4. Masks(p)' /\ HandsOver(p)'
  BY <1>1, <1>2 DEF Masks, HandsOver
<1> QED
  BY <1>3, <1>4, <1>5 DEF ProcInv

\* A start goes on to the look at the next stage, or is up.
LEMMA Proceeding ==
  ASSUME JobsType, NEW p \in Hook, NEW k \in 1 .. 7, job[p].stage = k, Installed!Proceeds(p), Whole(k + 1)'
  PROVE  \E j \in Installed!JobState : Installed!Becomes(p, j) /\ j.at \in {"look", "up"} /\ ProcInv(p)'
<1>1. PICK place \in {"look", "up"}, n \in 0 .. 7 :
         /\ Installed!LooksAt(k + 1) = Installed!Place(place, n)
         /\ IF k = 7 THEN place = "up" /\ n = 0 ELSE place = "look" /\ n = k + 1
  <2>1. CASE k = 7
    BY <2>1, StagesAre DEF Installed!LooksAt
  <2>2. CASE k # 7
    BY <2>2, StagesAre DEF Installed!LooksAt
  <2> QED
    BY <2>1, <2>2
<1>2. PICK j : j = Installed!Place(place, n)
  OBVIOUS
<1>3. j \in Installed!JobState /\ j.at = place /\ j.stage = n
  BY <1>2, PlaceIs
<1>4. Installed!Becomes(p, j)
  BY <1>1, <1>2 DEF Installed!Proceeds
<1>5. job'[p] = j
  BY <1>3, <1>4, Becoming
<1>6. Carries(p)'
  BY <1>3, <1>5 DEF Carries, CarriesAt, Installed!ScriptPlace
<1>7. Whole(n)' /\ (place = "up" => Whole(8)')
  BY <1>1 DEF Whole
<1>8. ProcInv(p)'
  BY <1>1, <1>2, <1>5, <1>6, <1>7, PlaceInv
<1> QED
  BY <1>1, <1>3, <1>4, <1>8

LEMMA Nowhere ==
  ASSUME JobsType, NEW p \in Hook, Installed!Becomes(p, Installed!Nowhere)
  PROVE  Installed!Nowhere \in Installed!JobState /\ Installed!Nowhere.at = "none" /\ ProcInv(p)'
<1>1. Installed!Nowhere \in Installed!JobState /\ Installed!Nowhere.at = "none"
  BY PlaceIs DEF Installed!Nowhere
<1>2. job'[p] = Installed!Place("none", 0)
  BY <1>1, Becoming DEF Installed!Nowhere
<1>a. job'[p].at = "none"
  BY <1>2, PlaceIs
<1>3. Carries(p)'
  BY <1>a DEF Carries, CarriesAt, Installed!ScriptPlace
<1>4. Whole(0)'
  BY DEF Whole
<1> QED
  BY <1>1, <1>2, <1>3, <1>4, PlaceInv
LEMMA InstallInit == Installed!Init => InstallInv
<1> SUFFICES ASSUME Installed!Init PROVE InstallInv
  OBVIOUS
<1>1. /\ tables \in BOOLEAN /\ columns = {} /\ ~settings /\ settings \in BOOLEAN /\ plans = "none"
      /\ orgs = {} /\ subs = [o \in Installed!Org |-> 0] /\ quotas = {}
      /\ younger = {} /\ ~migrated /\ ~deleted /\ ~saved /\ crossed = {}
      /\ migrated \in BOOLEAN /\ deleted \in BOOLEAN /\ saved \in BOOLEAN
  BY DEF Installed!Init
<1>2. \/ /\ owner = [x \in Rows |-> ""] /\ password = "plain"
         /\ config = [torn |-> FALSE, password |-> "masked", protocol |-> FALSE]
      \/ /\ owner = [x \in Rows |-> None] /\ password = None
         /\ config = [torn |-> FALSE, password |-> "plain", protocol |-> FALSE]
  BY DEF Installed!Init, Rows
<1>a. /\ owner \in [Rows -> {None, ""}] /\ password \in {None, "plain"} /\ config \in Installed!File
      /\ ~config.torn /\ config.password = (IF password = None THEN "plain" ELSE "masked")
      /\ \A x \in Rows : owner[x] = None <=> password = None
  <2>1. CASE /\ owner = [x \in Rows |-> ""] /\ password = "plain"
            /\ config = [torn |-> FALSE, password |-> "masked", protocol |-> FALSE]
    <3>1. config \in Installed!File /\ ~config.torn /\ config.password = "masked"
      BY <2>1 DEF Installed!File
    <3>2. owner \in [Rows -> {None, ""}] /\ \A x \in Rows : owner[x] = ""
      BY <2>1
    <3>3. None \notin {"", "plain"}
      BY InstallationAssumption
    <3> QED
      BY <2>1, <3>1, <3>2, <3>3
  <2>2. CASE /\ owner = [x \in Rows |-> None] /\ password = None
            /\ config = [torn |-> FALSE, password |-> "plain", protocol |-> FALSE]
    <3>1. config \in Installed!File /\ ~config.torn /\ config.password = "plain"
      BY <2>2 DEF Installed!File
    <3>2. owner \in [Rows -> {None, ""}] /\ \A x \in Rows : owner[x] = None
      BY <2>2
    <3>3. None \notin {"", "plain"}
      BY InstallationAssumption
    <3> QED
      BY <2>2, <3>1, <3>2, <3>3
  <2> QED
    BY <1>2, <2>1, <2>2
<1>b. subs \in [Installed!Org -> Nat] /\ owner \in [Rows -> {None, ""} \cup Installed!Org]
  BY <1>1, <1>a
<1>3. DataType
  BY <1>1, <1>a, <1>b DEF DataType
<1>4. DataInv
  <2>1. subs["emare"] = 0 /\ subs["default"] = 0
    BY <1>1 DEF Installed!Org
  <2>2. /\ owner["server"] = None <=> password = None
        /\ config.password = "masked" => RowWasMade
    BY <1>a DEF Rows, RowWasMade
  <2>3. password # "masked" /\ \A x \in Rows : owner[x] \notin Installed!Org
    BY <1>a, InstallationAssumption DEF Installed!Org
  <2> QED
    BY <1>1, <2>1, <2>2, <2>3 DEF DataInv
<1>5. job = [p \in Hook |-> Installed!Place("none", 0)]
  BY DEF Installed!Init, Installed!Nowhere
<1>6. ASSUME NEW p \in Hook PROVE job[p].at = "none" /\ job[p].stage = 0 /\ job[p] \in Installed!JobState
  BY <1>5, PlaceIs
<1>7. JobsType
  BY <1>5, <1>6 DEF JobsType
<1>8. ASSUME NEW p \in Hook PROVE ProcInv(p)
  <2>1. "none" \notin Installed!ScriptPlace
    BY DEF Installed!ScriptPlace
  <2>2. Placed(p) /\ Relies(p)
    BY <1>6, <2>1 DEF Placed, Relies, Whole
  <2>3. Carries(p) /\ Masks(p) /\ HandsOver(p)
    BY <1>6, <2>1 DEF Carries, CarriesAt, Masks, HandsOver
  <2> QED
    BY <2>2, <2>3 DEF ProcInv
<1>9. FileInv
  BY <1>1, <1>a, <1>6 DEF FileInv
<1> QED
  BY <1>3, <1>4, <1>7, <1>8, <1>9 DEF InstallInv

-----------------------------------------------------------------------------
\* The steps of a start.
\* What holds of a process.
LEMMA AtHand ==
  ASSUME InstallInv, NEW p \in Hook
  PROVE  /\ DataType /\ JobsType /\ DataInv /\ FileInv /\ ProcInv(p) /\ job[p] \in Installed!JobState
         /\ job[p].stage \in 0 .. 7
BY DEF InstallInv, JobsType, Installed!JobState

LEMMA StartInv ==
  ASSUME InstallInv, NEW p \in Hook, Installed!Start(p)
  PROVE  InstallInv'
<1>1. PICK j : j = Installed!Place("look", 1)
  OBVIOUS
<1>2. j \in Installed!JobState /\ j.at = "look"
  BY <1>1, PlaceIs
<1>3. Installed!LooksAt(1) = j
  BY <1>1, StagesAre DEF Installed!LooksAt
<1>4. /\ Installed!Becomes(p, j) /\ job[p].at = "none"
      /\ UNCHANGED <<Installed!database, config, Installed!history>>
  BY <1>3 DEF Installed!Start, Installed!Idle, Installed!At
<1>5. job'[p] = j
  BY <1>2, <1>4, Becoming, AtHand
<1>6. Carries(p)'
  BY <1>2, <1>5 DEF Carries, CarriesAt, Installed!ScriptPlace
<1>8. Whole(1)'
  BY DEF Whole
<1>7. ProcInv(p)'
  BY <1>1, <1>5, <1>6, <1>8, PlaceInv
<1> QED
  BY <1>2, <1>4, <1>7, OneGoes

\* A process that goes nowhere, or dies.
LEMMA DiesInv ==
  ASSUME InstallInv, NEW p \in Hook, Installed!Dies(p), job[p].at \notin {"write", "dump"}
  PROVE  InstallInv'
<1>1. /\ Installed!Becomes(p, Installed!Nowhere)
      /\ UNCHANGED <<Installed!database, config, Installed!history>>
  BY DEF Installed!Dies
<1>2. Installed!Nowhere \in Installed!JobState /\ Installed!Nowhere.at = "none" /\ ProcInv(p)'
  BY <1>1, Nowhere, AtHand
<1> QED
  BY <1>1, <1>2, OneGoes

\* The look at a stage passes it over where its part is there.
LEMMA LookInv ==
  ASSUME InstallInv, NEW p \in Hook, Installed!Look(p)
  PROVE  InstallInv'
<1>1. job[p].at = "look" /\ UNCHANGED <<Installed!database, config, Installed!history>>
  BY DEF Installed!Look, Installed!At
<1>2. PICK k \in 1 .. 7 : job[p].stage = k
  BY <1>1, AtHand DEF ProcInv, Placed
<1>3. Whole(k)
  BY <1>2, AtHand DEF ProcInv, Relies
<1>4. CASE Installed!Becomes(p, Installed!Place("make", k))
  <2>1. PICK j : j = Installed!Place("make", k)
    OBVIOUS
  <2>2. j \in Installed!JobState /\ j.at = "make"
    BY <2>1, PlaceIs
  <2>3. job'[p] = j /\ Installed!Becomes(p, j)
    BY <1>4, <2>1, <2>2, Becoming, AtHand
  <2>4. Whole(k)' /\ Carries(p)'
    BY <1>1, <1>3, <2>2, <2>3 DEF Whole, Carries, CarriesAt, Installed!ScriptPlace, Installed!database
  <2>5. ProcInv(p)'
    BY <2>1, <2>3, <2>4, PlaceInv
  <2> QED
    BY <1>1, <2>2, <2>3, <2>5, OneGoes
<1>5. CASE Installed!Proceeds(p) /\ ~Installed!Missing(Installed!Stage(p))
  <2>1. Installed!Stage(p) = Installed!Stages[k]
    BY <1>2 DEF Installed!Stage
  <2>2. Whole(k + 1)
    <3>1. CASE k \in {1, 4, 5}
      BY <1>3, <3>1 DEF Whole
    <3>2. CASE k = 2
      BY <1>3, <1>5, <2>1, <3>2, StagesAre DEF Whole, Installed!Missing
    <3>3. CASE k = 3
      BY <1>3, <1>5, <2>1, <3>3, StagesAre DEF Whole, Installed!Missing
    <3>4. CASE k = 6
      BY <1>3, <1>5, <2>1, <3>4, StagesAre DEF Whole, Installed!Missing
    <3>5. CASE k = 7
      BY <1>3, <1>5, <2>1, <3>5, StagesAre DEF Whole, Installed!Missing
    <3> QED
      BY <3>1, <3>2, <3>3, <3>4, <3>5
  <2>3. Whole(k + 1)'
    BY <1>1, <2>2 DEF Whole, Installed!database
  <2>4. PICK j \in Installed!JobState : Installed!Becomes(p, j) /\ j.at \in {"look", "up"} /\ ProcInv(p)'
    BY <1>2, <1>5, <2>3, Proceeding, AtHand
  <2> QED
    BY <1>1, <2>4, OneGoes
<1> QED
  BY <1>2, <1>4, <1>5 DEF Installed!Look
LEMMA StagesDiffer ==
  ASSUME NEW k \in 1 .. 7, NEW n \in 1 .. 7, Installed!Stages[k] = Installed!Stages[n]
  PROVE  k = n
<1>1. k \in {1, 2, 3, 4, 5, 6, 7} /\ n \in {1, 2, 3, 4, 5, 6, 7}
  OBVIOUS
<1> QED
  BY <1>1, StagesAre

\* A start that makes the part of a stage has come to that stage.
LEMMA Making ==
  ASSUME InstallInv, NEW p \in Hook, NEW k \in 1 .. 7, Installed!Makes(p, Installed!Stages[k])
  PROVE  job[p].at = "make" /\ job[p].stage = k /\ Whole(k)
<1>1. job[p].at = "make" /\ Installed!Stages[job[p].stage] = Installed!Stages[k]
  BY DEF Installed!Makes, Installed!At, Installed!Stage
<1>2. job[p].stage \in 1 .. 7
  BY <1>1, AtHand DEF ProcInv, Placed
<1>3. job[p].stage = k
  BY <1>1, <1>2, StagesDiffer
<1> QED
  BY <1>1, <1>3, AtHand DEF ProcInv, Relies

\* It goes on when the part is there, and leaves config.json alone.
LEMMA Made ==
  ASSUME InstallInv, NEW p \in Hook, NEW k \in 1 .. 7, job[p].stage = k, job[p].at \notin {"write", "dump"},
         Installed!Proceeds(p), Whole(k + 1)', DataType', DataInv', Grows,
         UNCHANGED <<config, saved, password>>, subs'["emare"] = subs["emare"]
  PROVE  InstallInv'
<1>1. PICK j \in Installed!JobState : Installed!Becomes(p, j) /\ j.at \in {"look", "up"} /\ ProcInv(p)'
  BY Proceeding, AtHand
<1>2. FileInv'
  BY <1>1, FileStays, AtHand DEF Grows
<1>3. \A q \in Hook \ {p} : Spares(q)
  BY DEF Spares
<1> QED
  BY <1>1, <1>2, <1>3, OneSteps

LEMMA MakeTablesInv ==
  ASSUME InstallInv, NEW p \in Hook, Installed!MakeTables(p)
  PROVE  InstallInv'
<1>0. Installed!Makes(p, Installed!Stages[1])
  BY StagesAre DEF Installed!MakeTables
<1>1. job[p].at = "make" /\ job[p].stage = 1
  BY <1>0, Making
<1>2. CASE Installed!Dies(p)
  BY <1>1, <1>2, DiesInv
<1>3. CASE /\ tables' = TRUE /\ columns' = {"hierarchy", "tenant"} /\ Installed!Proceeds(p)
           /\ UNCHANGED <<owner, password, settings, plans, orgs, subs, quotas, config, Installed!history>>
  <2>1. UNCHANGED <<younger, migrated, deleted, saved, crossed>>
    BY <1>3 DEF Installed!history
  <2>2. DataType'
    BY <1>3, <2>1, AtHand DEF DataType
  <2>3. DataInv'
    BY <1>3, <2>1, AtHand DEF DataInv, OwnedUnlessYounger, RowWasMade
  <2>4. Grows
    BY <1>3, <2>1, AtHand DEF Grows, DataType, OwnedUnlessYounger, RowWasMade
  <2>5. Whole(1 + 1)'
    BY DEF Whole
  <2> QED
    BY <1>1, <1>3, <2>1, <2>2, <2>3, <2>4, <2>5, Made
<1> QED
  BY <1>2, <1>3 DEF Installed!MakeTables, Installed!bounds

LEMMA AddHierarchyInv ==
  ASSUME InstallInv, NEW p \in Hook, Installed!AddHierarchy(p)
  PROVE  InstallInv'
<1>0. Installed!Makes(p, Installed!Stages[2])
  BY StagesAre DEF Installed!AddHierarchy
<1>1. job[p].at = "make" /\ job[p].stage = 2
  BY <1>0, Making
<1>2. /\ columns' = columns \cup {"hierarchy"} /\ Installed!Proceeds(p)
      /\ UNCHANGED <<tables, owner, password, settings, plans, orgs, subs, quotas, config>>
      /\ UNCHANGED <<younger, migrated, deleted, saved, crossed>>
  BY DEF Installed!AddHierarchy, Installed!history
<1>3. DataType'
  BY <1>2, AtHand DEF DataType
<1>4. DataInv'
  BY <1>2, AtHand DEF DataInv, OwnedUnlessYounger, RowWasMade
<1>5. Grows
  BY <1>2 DEF Grows, OwnedUnlessYounger, RowWasMade
<1>6. Whole(2 + 1)'
  BY <1>2 DEF Whole
<1> QED
  BY <1>1, <1>2, <1>3, <1>4, <1>5, <1>6, Made

LEMMA MakeAdminInv ==
  ASSUME InstallInv, NEW p \in Hook, Installed!MakeAdmin(p)
  PROVE  InstallInv'
<1>0. Installed!Makes(p, Installed!Stages[3])
  BY StagesAre DEF Installed!MakeAdmin
<1>1. job[p].at = "make" /\ job[p].stage = 3 /\ Whole(3)
  BY <1>0, Making
<1>2. CASE Installed!Dies(p)
  BY <1>1, <1>2, DiesInv
<1>3. CASE /\ owner' = [owner EXCEPT !["admin"] = ""] /\ younger' = younger \cup {"admin"}
           /\ Installed!Proceeds(p)
           /\ UNCHANGED <<tables, columns, password, settings, plans, orgs, subs, quotas, config>>
           /\ UNCHANGED <<migrated, deleted, saved, crossed>>
  <2>1. DataType /\ DataInv
    BY AtHand
  <2>2. /\ owner' \in [Rows -> {None, ""} \cup Installed!Org] /\ owner'["admin"] = ""
        /\ \A x \in Rows \ {"admin"} : owner'[x] = owner[x]
    BY <1>3, <2>1 DEF DataType, Rows
  <2>3. DataType'
    BY <1>3, <2>1, <2>2 DEF DataType, Rows
  <2>4. OwnedUnlessYounger => OwnedUnlessYounger'
    BY <1>3, <2>2 DEF OwnedUnlessYounger
  <2>5. owner'["server"] = owner["server"] /\ owner'["user"] = owner["user"] /\ (RowWasMade => RowWasMade')
    BY <1>3, <2>2 DEF RowWasMade, Rows
  <2>6. \A x \in Rows : owner'[x] \in Installed!Org => owner'[x] \in orgs
    BY <2>1, <2>2 DEF DataInv, Installed!Org
  <2>7. DataInv'
    BY <1>3, <2>1, <2>4, <2>5, <2>6 DEF DataInv
  <2>8. Grows
    BY <1>3, <2>2, <2>4, <2>5, InstallationAssumption DEF Grows
  <2>9. Whole(3 + 1)'
    <3>a. "hierarchy" \in columns
      BY <1>1 DEF Whole
    <3>1. "hierarchy" \in columns'
      BY <1>3, <3>a
    <3>2. owner'["admin"] # None
      BY <2>2, InstallationAssumption
    <3> QED
      BY <3>1, <3>2 DEF Whole
  <2>10. Installed!Proceeds(p) /\ UNCHANGED <<config, saved, password>> /\ subs'["emare"] = subs["emare"]
    BY <1>3
  <2> QED
    BY <1>1, <2>3, <2>7, <2>8, <2>9, <2>10, Made
<1> QED
  BY <1>2, <1>3 DEF Installed!MakeAdmin, Installed!bounds

LEMMA MakeSettingsInv ==
  ASSUME InstallInv, NEW p \in Hook, Installed!MakeSettings(p)
  PROVE  InstallInv'
<1>0. Installed!Makes(p, Installed!Stages[5])
  BY StagesAre DEF Installed!MakeSettings
<1>1. job[p].at = "make" /\ job[p].stage = 5 /\ Whole(5)
  BY <1>0, Making
<1>2. /\ settings' \in BOOLEAN /\ Installed!Proceeds(p)
      /\ UNCHANGED <<tables, columns, owner, password, plans, orgs, subs, quotas, config>>
      /\ UNCHANGED <<younger, migrated, deleted, saved, crossed>>
  BY DEF Installed!MakeSettings, Installed!history
<1>3. DataType'
  BY <1>2, AtHand DEF DataType
<1>4. DataInv'
  BY <1>2, AtHand DEF DataInv, OwnedUnlessYounger, RowWasMade
<1>5. Grows
  BY <1>2 DEF Grows, OwnedUnlessYounger, RowWasMade
<1>6. Whole(5 + 1)'
  BY <1>1, <1>2 DEF Whole
<1> QED
  BY <1>1, <1>2, <1>3, <1>4, <1>5, <1>6, Made

LEMMA MakePlansInv ==
  ASSUME InstallInv, NEW p \in Hook, Installed!MakePlans(p)
  PROVE  InstallInv'
<1>0. Installed!Makes(p, Installed!Stages[6])
  BY StagesAre DEF Installed!MakePlans
<1>1. job[p].at = "make" /\ job[p].stage = 6 /\ Whole(6)
  BY <1>0, Making
<1>2. CASE Installed!Dies(p)
  BY <1>1, <1>2, DiesInv
<1>3. CASE /\ plans' = "all" /\ Installed!Proceeds(p)
           /\ UNCHANGED <<tables, columns, owner, password, settings, orgs, subs, quotas, config>>
           /\ UNCHANGED <<younger, migrated, deleted, saved, crossed>>
  <2>1. DataType'
    BY <1>3, AtHand DEF DataType
  <2>2. DataInv'
    BY <1>3, AtHand DEF DataInv, OwnedUnlessYounger, RowWasMade
  <2>3. Grows
    BY <1>3 DEF Grows, OwnedUnlessYounger, RowWasMade
  <2>4. Whole(6 + 1)'
    BY <1>1, <1>3 DEF Whole
  <2> QED
    BY <1>1, <1>3, <2>1, <2>2, <2>3, <2>4, Made
<1> QED
  BY <1>2, <1>3 DEF Installed!MakePlans, Installed!bounds, Installed!history

LEMMA MakeOrgInv ==
  ASSUME InstallInv, NEW p \in Hook, Installed!MakeOrg(p)
  PROVE  InstallInv'
<1>0. Installed!Makes(p, Installed!Stages[7])
  BY StagesAre DEF Installed!MakeOrg
<1>1. job[p].at = "make" /\ job[p].stage = 7 /\ Whole(7)
  BY <1>0, Making
<1>2. CASE Installed!Dies(p)
  BY <1>1, <1>2, DiesInv
<1>3. CASE /\ "default" \notin orgs /\ orgs' = orgs \cup {"default"} /\ Installed!Proceeds(p)
           /\ owner' = IF owner["admin"] = None THEN owner ELSE [owner EXCEPT !["admin"] = "default"]
           /\ subs' = [subs EXCEPT !["default"] = @ + 1] /\ quotas' = quotas \cup {"default"}
           /\ UNCHANGED <<tables, columns, password, settings, plans, config>>
           /\ UNCHANGED <<younger, migrated, deleted, saved, crossed>>
  <2>1. DataType /\ DataInv
    BY AtHand
  <2>2. /\ owner' \in [Rows -> {None, ""} \cup Installed!Org]
        /\ owner'["admin"] \in {owner["admin"], "default"} /\ (owner["admin"] # None => owner'["admin"] = "default")
        /\ \A x \in Rows \ {"admin"} : owner'[x] = owner[x]
    BY <1>3, <2>1 DEF DataType, Rows, Installed!Org
  <2>a. subs \in [Installed!Org -> Nat] /\ subs["default"] = 0
    BY <1>3, <2>1 DEF DataType, DataInv
  <2>3. subs' \in [Installed!Org -> Nat] /\ subs'["default"] = 1 /\ subs'["emare"] = subs["emare"]
    BY <1>3, <2>a DEF Installed!Org
  <2>4. DataType'
    BY <1>3, <2>1, <2>2, <2>3 DEF DataType, Installed!Org
  <2>5. OwnedUnlessYounger => OwnedUnlessYounger'
    BY <1>3, <2>2 DEF OwnedUnlessYounger
  <2>6. owner'["server"] = owner["server"] /\ owner'["user"] = owner["user"] /\ (RowWasMade => RowWasMade')
    BY <1>3, <2>2 DEF RowWasMade, Rows
  <2>7. \A x \in Rows : owner'[x] \in Installed!Org => owner'[x] \in orgs'
    BY <1>3, <2>1, <2>2 DEF DataInv
  <2>8. DataInv'
    BY <1>3, <2>1, <2>3, <2>5, <2>6, <2>7 DEF DataInv
  <2>9. Grows
    <3>1. owner["admin"] # None => owner'["admin"] # None
      BY <2>2, InstallationAssumption DEF Installed!Org
    <3> QED
      BY <1>3, <2>3, <2>5, <2>6, <3>1 DEF Grows
  <2>10. Whole(7 + 1)'
    <3>1. "hierarchy" \in columns /\ (owner["admin"] # None \/ owner["user"] # None) /\ plans # "none"
      BY <1>1 DEF Whole
    <3> QED
      BY <1>3, <2>9, <3>1 DEF Whole, Grows
  <2> QED
    BY <1>1, <1>3, <2>3, <2>4, <2>8, <2>9, <2>10, Made
<1>4. plans # "none"
  BY <1>1 DEF Whole
<1> QED
  BY <1>2, <1>3, <1>4 DEF Installed!MakeOrg, Installed!bounds, Installed!history
-----------------------------------------------------------------------------
\* Whoever reads config.json, and what becomes of it.
LEMMA ReadFileInv ==
  ASSUME InstallInv, NEW p \in Hook, Installed!ReadFile(p)
  PROVE  InstallInv'
<1>0. Installed!Makes(p, Installed!Stages[4])
  BY StagesAre DEF Installed!ReadFile
<1>1. job[p].at = "make" /\ job[p].stage = 4 /\ Whole(4)
  BY <1>0, Making
<1>2. UNCHANGED <<Installed!database, config, Installed!history>>
  BY DEF Installed!ReadFile
<1>3. /\ UNCHANGED <<tables, columns, owner, password, settings, plans, orgs, subs, quotas>>
      /\ UNCHANGED <<config, younger, migrated, deleted, saved, crossed>>
  BY <1>2 DEF Installed!database, Installed!history
<1>4. CASE Installed!Proceeds(p)
  <2>1. Whole(4 + 1)'
    BY <1>1, <1>3 DEF Whole
  <2>2. PICK j \in Installed!JobState : Installed!Becomes(p, j) /\ j.at \in {"look", "up"} /\ ProcInv(p)'
    BY <1>1, <1>4, <2>1, Proceeding, AtHand
  <2> QED
    BY <1>1, <1>2, <2>2, OneGoes
<1>5. CASE /\ ~ (config.torn \/ config.password = "gone")
           /\ Installed!Becomes(p, [at |-> "insert", stage |-> 4, seen |-> config, put |-> config])
  <2>1. PICK j : j = [at |-> "insert", stage |-> 4, seen |-> config, put |-> config]
    OBVIOUS
  <2>2. j \in Installed!JobState /\ j.at = "insert" /\ j.stage = 4 /\ j.seen = config /\ j.put = config
    <3>1. config \in Installed!File
      BY AtHand DEF DataType
    <3> QED
      BY <2>1, <3>1 DEF Installed!JobState
  <2>3. Installed!Becomes(p, j) /\ job'[p] = j
    BY <1>5, <2>1, <2>2, Becoming, AtHand
  <2>4. Placed(p)' /\ HandsOver(p)'
    BY <1>3, <1>5, <2>2, <2>3 DEF Placed, HandsOver, Installed!ScriptPlace
  <2>5. Relies(p)'
    BY <1>1, <1>3, <2>2, <2>3 DEF Relies, Whole
  <2>6. Carries(p)'
    BY <2>2, <2>3 DEF Carries, CarriesAt, Installed!ScriptPlace
  <2>7. Masks(p)'
    BY <1>3, <2>2, <2>3, AtHand DEF Masks, DataInv, RowWasMade
  <2>8. ProcInv(p)'
    BY <2>4, <2>5, <2>6, <2>7 DEF ProcInv
  <2> QED
    BY <1>1, <1>2, <2>2, <2>3, <2>8, OneGoes
<1> QED
  BY <1>1, <1>4, <1>5 DEF Installed!ReadFile

LEMMA InsertInv ==
  ASSUME InstallInv, NEW p \in Hook, Installed!Insert(p)
  PROVE  InstallInv'
<1>1. job[p].at = "insert" /\ job[p].stage = 4
  BY AtHand DEF Installed!Insert, Installed!At, ProcInv, Placed
<1>2. /\ UNCHANGED <<tables, columns, settings, plans, orgs, subs, quotas, config>>
      /\ UNCHANGED <<migrated, deleted, saved, crossed>>
  BY DEF Installed!Insert
<1>3. DataType /\ JobsType /\ DataInv /\ FileInv /\ ProcInv(p) /\ job[p] \in Installed!JobState
  BY AtHand
<1>4. Whole(4)
  BY <1>1, <1>3 DEF ProcInv, Relies
<1>5. CASE owner["server"] # None
  <2>1. Installed!Proceeds(p) /\ UNCHANGED <<owner, password, younger>>
    BY <1>5 DEF Installed!Insert
  <2>2. DataType'
    BY <1>2, <1>3, <2>1 DEF DataType
  <2>3. DataInv'
    BY <1>2, <1>3, <2>1 DEF DataInv, OwnedUnlessYounger, RowWasMade
  <2>4. Grows
    BY <1>2, <2>1 DEF Grows, OwnedUnlessYounger, RowWasMade
  <2>5. Whole(4 + 1)'
    BY <1>2, <1>4, <2>1 DEF Whole
  <2> QED
    BY <1>1, <1>2, <2>1, <2>2, <2>3, <2>4, <2>5, Made
<1>6. CASE owner["server"] = None
  <2>1. PICK j : j = [at |-> "write", stage |-> job[p].stage, seen |-> job[p].seen,
                      put |-> [job[p].seen EXCEPT !.password = "masked"]]
    OBVIOUS
  <2>2. /\ owner' = [owner EXCEPT !["server"] = ""] /\ younger' = younger \cup {"server"}
        /\ password' = job[p].seen.password /\ Installed!Becomes(p, j)
    BY <1>6, <2>1 DEF Installed!Insert
  <2>3. job[p].seen \in Installed!File /\ job[p].seen.password \in {"plain", "masked"}
    BY <1>1, <1>3 DEF Installed!JobState, Installed!File, ProcInv, Placed
  <2>4. /\ j \in Installed!JobState /\ j.at = "write" /\ j.stage = 4 /\ j.seen = job[p].seen
        /\ j.put.password = "masked" /\ j.put.protocol = j.seen.protocol
    BY <1>1, <2>1, <2>3 DEF Installed!JobState, Installed!File
  <2>5. job'[p] = j /\ \A q \in Hook \ {p} : job'[q] = job[q]
    BY <1>3, <2>2, <2>4, Becoming
  <2>6. /\ owner' \in [Rows -> {None, ""} \cup Installed!Org] /\ owner'["server"] = ""
        /\ \A x \in Rows \ {"server"} : owner'[x] = owner[x]
    BY <1>3, <2>2 DEF DataType, Rows
  <2>7. None # "" /\ password' # None
    BY <2>2, <2>3, InstallationAssumption
  <2>8. DataType'
    BY <1>2, <1>3, <2>2, <2>3, <2>6 DEF DataType, Rows
  <2>9. OwnedUnlessYounger => OwnedUnlessYounger'
    BY <2>2, <2>6 DEF OwnedUnlessYounger
  <2>10. RowWasMade'
    BY <2>6, <2>7 DEF RowWasMade
  <2>11. password' = "masked" => deleted'
    <3>1. job[p].seen.password = "masked" => RowWasMade
      BY <1>1, <1>3 DEF ProcInv, Masks
    <3> QED
      BY <1>2, <1>6, <2>2, <3>1 DEF RowWasMade
  <2>12. \A x \in Rows : owner'[x] \in Installed!Org => owner'[x] \in orgs'
    BY <1>2, <1>3, <2>6 DEF DataInv, Installed!Org
  <2>13. DataInv'
    BY <1>2, <1>3, <2>6, <2>7, <2>9, <2>10, <2>11, <2>12 DEF DataInv
  <2>14. owner'["admin"] = owner["admin"] /\ owner'["user"] = owner["user"]
    BY <2>6 DEF Rows
  <2>15. Grows
    BY <1>2, <2>9, <2>10, <2>14 DEF Grows
  <2>16. \A q \in Hook \ {p} : Spares(q)
    BY <1>2 DEF Spares
  <2>17. FileInv'
    <3>1. CASE "file" \in crossed
      BY <1>2, <3>1 DEF FileInv
    <3>2. CASE "file" \notin crossed
      <4>1. ASSUME NEW q \in Hook, NEW r \in Hook, job'[q].at = "dump", job'[r].at = "dump" PROVE q = r
        BY <1>3, <2>4, <2>5, <3>2, <4>1 DEF FileInv
      <4>2. saved' => config'.protocol
        BY <1>2, <1>3, <3>2 DEF FileInv
      <4>3. job'[p].stage > 0 /\ job'[p].at \in {"write", "dump"}
        BY <2>4, <2>5
      <4> QED
        BY <4>1, <4>2, <4>3 DEF FileInv
    <3> QED
      BY <3>1, <3>2
  <2>18. Placed(p)' /\ Carries(p)'
    BY <2>3, <2>4, <2>5 DEF Placed, Carries, CarriesAt, Installed!ScriptPlace
  <2>19. Relies(p)'
    BY <1>2, <1>4, <2>4, <2>5, <2>14 DEF Relies, Whole
  <2>20. Masks(p)'
    BY <2>10 DEF Masks
  <2>21. HandsOver(p)'
    BY <1>1, <1>2, <1>3, <2>4, <2>5 DEF HandsOver, ProcInv
  <2>22. ProcInv(p)'
    BY <2>18, <2>19, <2>20, <2>21 DEF ProcInv
  <2> QED
    BY <2>2, <2>4, <2>8, <2>13, <2>15, <2>16, <2>17, <2>22, OneSteps
<1> QED
  BY <1>5, <1>6

LEMMA OpenFileInv ==
  ASSUME InstallInv, NEW p \in Hook, Installed!OpenFile(p)
  PROVE  InstallInv'
<1>1. DataType /\ JobsType /\ DataInv /\ FileInv /\ ProcInv(p) /\ job[p] \in Installed!JobState
  BY AtHand
<1>2. PICK j : j = [job[p] EXCEPT !.at = "dump"]
  OBVIOUS
<1>3. /\ job[p].at = "write" /\ config' = [config EXCEPT !.torn = TRUE] /\ Installed!Becomes(p, j)
      /\ crossed' = IF config # job[p].seen THEN crossed \cup {"file"} ELSE crossed
      /\ UNCHANGED <<tables, columns, owner, password, settings, plans, orgs, subs, quotas>>
      /\ UNCHANGED <<younger, migrated, deleted, saved>>
  BY <1>2 DEF Installed!OpenFile, Installed!At, Installed!database
<1>4. /\ j \in Installed!JobState /\ j.at = "dump" /\ j.stage = job[p].stage
      /\ j.seen = job[p].seen /\ j.put = job[p].put
  BY <1>1, <1>2 DEF Installed!JobState
<1>5. job'[p] = j /\ \A q \in Hook \ {p} : job'[q] = job[q]
  BY <1>1, <1>3, <1>4, Becoming
<1>6. config' \in Installed!File /\ config'.torn /\ config'.password = config.password
      /\ config'.protocol = config.protocol
  BY <1>1, <1>3 DEF DataType, Installed!File
<1>7. crossed \subseteq crossed' /\ crossed' \subseteq {"file", "subs"}
  BY <1>1, <1>3 DEF DataType
<1>8. DataType'
  BY <1>1, <1>3, <1>6, <1>7 DEF DataType
<1>9. DataInv'
  BY <1>1, <1>3, <1>6, <1>7 DEF DataInv, OwnedUnlessYounger, RowWasMade
<1>10. Grows
  BY <1>3, <1>7 DEF Grows, OwnedUnlessYounger, RowWasMade
<1>11. ASSUME "file" \notin crossed'
       PROVE  config = job[p].seen /\ ~config.torn /\ \A q \in Hook : job[q].at # "dump"
  <2>1. config = job[p].seen /\ "file" \notin crossed
    BY <1>3, <1>7, <1>11
  <2>2. ~config.torn
    BY <1>1, <1>3, <2>1 DEF ProcInv, HandsOver
  <2>3. ASSUME NEW q \in Hook PROVE job[q].at # "dump"
    BY <2>1, <2>2, AtHand DEF ProcInv, HandsOver
  <2> QED
    BY <2>1, <2>2, <2>3
<1>12. \A q \in Hook \ {p} : Spares(q)
  BY <1>3, <1>11 DEF Spares
<1>13. FileInv'
  <2> SUFFICES ASSUME "file" \notin crossed' PROVE FileInv'
    BY DEF FileInv
  <2>1. "file" \notin crossed /\ \A q \in Hook : job[q].at # "dump"
    BY <1>7, <1>11
  <2>2. ASSUME NEW q \in Hook, NEW r \in Hook, job'[q].at = "dump", job'[r].at = "dump" PROVE q = r
    BY <1>5, <2>1, <2>2
  <2>3. saved' => config'.protocol
    BY <1>1, <1>3, <1>6, <2>1 DEF FileInv
  <2>4. ASSUME config'.password = "plain", password' # None
        PROVE  \E q \in Hook : job'[q].stage > 0 /\ job'[q].at \in {"write", "dump"}
    <3>1. PICK q \in Hook : job[q].stage > 0 /\ job[q].at \in {"write", "dump"}
      BY <1>1, <1>3, <1>6, <2>1, <2>4 DEF FileInv
    <3>2. job'[q].stage > 0 /\ job'[q].at \in {"write", "dump"}
      BY <1>4, <1>5, <3>1
    <3> QED
      BY <3>2
  <2> QED
    BY <2>2, <2>3, <2>4 DEF FileInv
<1>14. Placed(p)'
  BY <1>1, <1>3, <1>4, <1>5 DEF ProcInv, Placed, Installed!ScriptPlace
<1>15. Relies(p)'
  BY <1>1, <1>3, <1>4, <1>5 DEF ProcInv, Relies, Whole
<1>16. Carries(p)'
  BY <1>4, <1>5 DEF Carries, CarriesAt, Installed!ScriptPlace
<1>17. Masks(p)'
  BY <1>1, <1>3, <1>4, <1>5, <1>10 DEF ProcInv, Masks, Grows
<1>18. HandsOver(p)'
  <2> SUFFICES ASSUME "file" \notin crossed' PROVE HandsOver(p)'
    BY DEF HandsOver
  <2>1. config = job[p].seen /\ "file" \notin crossed
    BY <1>7, <1>11
  <2> QED
    BY <1>1, <1>3, <1>4, <1>5, <1>6, <2>1 DEF ProcInv, HandsOver
<1>19. ProcInv(p)'
  BY <1>14, <1>15, <1>16, <1>17, <1>18 DEF ProcInv
<1> QED
  BY <1>3, <1>4, <1>8, <1>9, <1>10, <1>12, <1>13, <1>19, OneSteps
LEMMA WriteFileInv ==
  ASSUME InstallInv, NEW p \in Hook, Installed!WriteFile(p)
  PROVE  InstallInv'
<1>1. DataType /\ JobsType /\ DataInv /\ FileInv /\ ProcInv(p) /\ job[p] \in Installed!JobState
  BY AtHand
<1>2. /\ job[p].at = "dump" /\ config' = job[p].put
      /\ UNCHANGED <<tables, columns, owner, password, settings, plans, orgs, subs, quotas>>
      /\ UNCHANGED <<younger, migrated, deleted, crossed>>
  BY DEF Installed!WriteFile, Installed!At, Installed!database
<1>3. job[p].stage \in {0, 4}
  BY <1>1, <1>2 DEF ProcInv, Placed
<1>4. PICK j \in Installed!JobState :
         /\ Installed!Becomes(p, j) /\ j.at \in {"look", "up"} /\ ProcInv(p)'
         /\ saved' \in BOOLEAN /\ (job[p].stage = 0 \/ saved' = saved)
  <2>1. CASE job[p].stage = 4
    <3>1. Installed!Proceeds(p) /\ saved' = saved
      BY <2>1 DEF Installed!WriteFile, Installed!Starting
    <3>2. Whole(4)
      BY <1>1, <2>1 DEF ProcInv, Relies
    <3>3. Whole(4 + 1)'
      BY <1>2, <3>2 DEF Whole
    <3>4. saved' \in BOOLEAN
      BY <1>1, <3>1 DEF DataType
    <3> QED
      BY <1>1, <2>1, <3>1, <3>3, <3>4, Proceeding
  <2>2. CASE job[p].stage = 0
    <3>1. PICK i : i = Installed!Place("up", 0)
      OBVIOUS
    <3>2. i \in Installed!JobState /\ i.at = "up"
      BY <3>1, PlaceIs
    <3>3. Installed!Becomes(p, i) /\ saved' = TRUE
      BY <2>2, <3>1 DEF Installed!WriteFile, Installed!Starting, Installed!Goes
    <3>4. job'[p] = i
      BY <1>1, <3>2, <3>3, Becoming
    <3>5. Whole(8)
      BY <1>1, <1>2, <2>2 DEF ProcInv, Relies
    <3>6. Whole(8)' /\ Whole(0)'
      BY <1>2, <3>5 DEF Whole
    <3>7. Carries(p)'
      BY <3>2, <3>4 DEF Carries, CarriesAt, Installed!ScriptPlace
    <3>8. ProcInv(p)'
      BY <3>1, <3>4, <3>6, <3>7, PlaceInv
    <3> QED
      BY <2>2, <3>2, <3>3, <3>8
  <2> QED
    BY <1>3, <2>1, <2>2
<1>5. job'[p] = j /\ \A q \in Hook \ {p} : job'[q] = job[q]
  BY <1>1, <1>4, Becoming
<1>6. config' \in Installed!File
  BY <1>1, <1>2 DEF Installed!JobState
<1>7. DataType'
  BY <1>1, <1>2, <1>4, <1>6 DEF DataType
<1>8. config'.password = "masked" => RowWasMade
  BY <1>1, <1>2 DEF ProcInv, Masks
<1>9. DataInv'
  BY <1>1, <1>2, <1>8 DEF DataInv, OwnedUnlessYounger, RowWasMade
<1>10. Grows
  BY <1>2 DEF Grows, OwnedUnlessYounger, RowWasMade
<1>11. \A q \in Hook \ {p} : Spares(q)
  BY <1>1, <1>2 DEF FileInv, Spares
<1>12. FileInv'
  <2> SUFFICES ASSUME "file" \notin crossed' PROVE FileInv'
    BY DEF FileInv
  <2>1. "file" \notin crossed
    BY <1>2
  <2>2. ASSUME NEW q \in Hook, NEW r \in Hook, job'[q].at = "dump", job'[r].at = "dump" PROVE q = r
    BY <1>1, <1>4, <1>5, <2>1, <2>2 DEF FileInv
  <2>3. /\ config.password = job[p].seen.password /\ config.protocol = job[p].seen.protocol
        /\ IF job[p].stage = 0 THEN config'.password = job[p].seen.password /\ config'.protocol
           ELSE config'.password = "masked" /\ config'.protocol = job[p].seen.protocol
    BY <1>1, <1>2, <2>1 DEF ProcInv, HandsOver
  <2>4. saved' => config'.protocol
    BY <1>1, <1>4, <2>1, <2>3 DEF FileInv
  <2>5. ASSUME config'.password = "plain", password' # None
        PROVE  \E q \in Hook : job'[q].stage > 0 /\ job'[q].at \in {"write", "dump"}
    <3>1. job[p].stage = 0 /\ config.password = "plain"
      BY <2>3, <2>5
    <3>2. PICK q \in Hook : job[q].stage > 0 /\ job[q].at \in {"write", "dump"}
      BY <1>1, <1>2, <2>1, <2>5, <3>1 DEF FileInv
    <3>3. q # p
      BY <3>1, <3>2
    <3> QED
      BY <1>5, <3>2, <3>3
  <2> QED
    BY <2>2, <2>4, <2>5 DEF FileInv
<1> QED
  BY <1>4, <1>7, <1>9, <1>10, <1>11, <1>12, OneSteps

LEMMA AddProtocolInv ==
  ASSUME InstallInv, NEW p \in Hook, Installed!AddProtocol(p)
  PROVE  InstallInv'
<1>1. DataType /\ JobsType /\ DataInv /\ FileInv /\ ProcInv(p) /\ job[p] \in Installed!JobState
  BY AtHand
<1>2. PICK j : j = [at |-> "write", stage |-> 0, seen |-> config,
                    put |-> [Installed!Loaded EXCEPT !.protocol = TRUE]]
  OBVIOUS
<1>3. /\ job[p].at = "up" /\ Installed!Becomes(p, j)
      /\ crossed' = IF config.torn THEN crossed \cup {"file"} ELSE crossed
      /\ UNCHANGED <<tables, columns, owner, password, settings, plans, orgs, subs, quotas, config>>
      /\ UNCHANGED <<younger, migrated, deleted, saved>>
  BY <1>2 DEF Installed!AddProtocol, Installed!MayWrite, Installed!At, Installed!database
<1>4. /\ Installed!Loaded \in Installed!File
      /\ Installed!Loaded.password \in {config.password, "gone"} /\ (~config.torn => Installed!Loaded = config)
  BY <1>1 DEF Installed!Loaded, Installed!NoFile, Installed!File, DataType
<1>5. /\ j \in Installed!JobState /\ j.at = "write" /\ j.stage = 0 /\ j.seen = config
      /\ j.put.password = Installed!Loaded.password /\ j.put.protocol
  <2>1. config \in Installed!File
    BY <1>1 DEF DataType
  <2>2. PICK f : f = [Installed!Loaded EXCEPT !.protocol = TRUE]
    OBVIOUS
  <2>3. f \in Installed!File /\ f.password = Installed!Loaded.password /\ f.protocol
    BY <1>4, <2>2 DEF Installed!File
  <2>4. j = [at |-> "write", stage |-> 0, seen |-> config, put |-> f]
    BY <1>2, <2>2
  <2> QED
    BY <2>1, <2>3, <2>4 DEF Installed!JobState
<1>6. job'[p] = j
  BY <1>1, <1>3, <1>5, Becoming
<1>7. crossed \subseteq crossed' /\ crossed' \subseteq {"file", "subs"}
  BY <1>1, <1>3 DEF DataType
<1>8. DataType'
  BY <1>1, <1>3, <1>7 DEF DataType
<1>9. DataInv'
  BY <1>1, <1>3, <1>7 DEF DataInv, OwnedUnlessYounger, RowWasMade
<1>10. Grows /\ \A q \in Hook \ {p} : Spares(q)
  BY <1>3, <1>7 DEF Grows, Spares, OwnedUnlessYounger, RowWasMade
<1>11. FileInv'
  BY <1>1, <1>3, <1>5, <1>7, FileStays
<1>12. Placed(p)' /\ Carries(p)'
  BY <1>5, <1>6 DEF Placed, Carries, CarriesAt, Installed!ScriptPlace
<1>13. Whole(8)
  <2>1. job[p].stage = 0
    BY <1>1, <1>3 DEF ProcInv, Placed
  <2> QED
    BY <1>1, <1>3, <2>1 DEF ProcInv, Relies
<1>14. Relies(p)'
  BY <1>3, <1>5, <1>6, <1>13 DEF Relies, Whole
<1>15. Masks(p)'
  <2>1. config.password = "masked" => RowWasMade
    BY <1>1 DEF DataInv
  <2>2. "masked" \in {j.seen.password, j.put.password} => RowWasMade
    BY <1>4, <1>5, <2>1
  <2> QED
    BY <1>3, <1>6, <2>2 DEF Masks, RowWasMade
<1>16. HandsOver(p)'
  BY <1>3, <1>4, <1>5, <1>6 DEF HandsOver
<1>17. ProcInv(p)'
  BY <1>12, <1>14, <1>15, <1>16 DEF ProcInv
<1> QED
  BY <1>3, <1>5, <1>8, <1>9, <1>10, <1>11, <1>17, OneSteps

LEMMA InstallKillInv ==
  ASSUME InstallInv, NEW p \in Hook, Installed!Kill(p)
  PROVE  InstallInv'
<1>1. DataType /\ JobsType /\ DataInv /\ FileInv /\ ProcInv(p)
  BY AtHand
<1>2. /\ Installed!Becomes(p, Installed!Nowhere)
      /\ crossed' = IF job[p].at \in {"write", "dump"} THEN crossed \cup {"file"} ELSE crossed
      /\ UNCHANGED <<tables, columns, owner, password, settings, plans, orgs, subs, quotas, config>>
      /\ UNCHANGED <<younger, migrated, deleted, saved>>
  BY DEF Installed!Kill, Installed!At, Installed!database
<1>3. Installed!Nowhere \in Installed!JobState /\ Installed!Nowhere.at = "none" /\ ProcInv(p)'
  BY <1>1, <1>2, Nowhere
<1>4. crossed \subseteq crossed' /\ crossed' \subseteq {"file", "subs"}
  BY <1>1, <1>2 DEF DataType
<1>5. DataType'
  BY <1>1, <1>2, <1>4 DEF DataType
<1>6. DataInv'
  BY <1>1, <1>2, <1>4 DEF DataInv, OwnedUnlessYounger, RowWasMade
<1>7. Grows /\ \A q \in Hook \ {p} : Spares(q)
  BY <1>2, <1>4 DEF Grows, Spares, OwnedUnlessYounger, RowWasMade
<1>8. FileInv'
  BY <1>1, <1>2, <1>3, <1>4, FileStays
<1> QED
  BY <1>2, <1>3, <1>5, <1>6, <1>7, <1>8, OneSteps

-----------------------------------------------------------------------------
\* The requests of a running panel that change rows: no process goes to another place.
LEMMA AllStay ==
  ASSUME InstallInv, job' = job, DataType', DataInv', Grows, UNCHANGED <<config, saved, subs>>,
         password' \in {password, None}
  PROVE  InstallInv'
<1>1. JobsType' /\ FileInv'
  BY DEF InstallInv, JobsType, FileInv, Grows
<1>2. ASSUME NEW q \in Hook PROVE ProcInv(q)'
  <2>1. ProcInv(q) /\ Spares(q)
    BY DEF InstallInv, Spares
  <2> QED
    BY <2>1, Untouched
<1> QED
  BY <1>1, <1>2 DEF InstallInv

LEMMA AddUserInv ==
  ASSUME InstallInv, NEW p \in Hook, Installed!AddUser(p)
  PROVE  InstallInv'
<1>1. DataType /\ DataInv
  BY AtHand
<1>2. /\ owner' = [owner EXCEPT !["user"] = ""] /\ younger' = younger \cup {"user"}
      /\ UNCHANGED <<tables, columns, password, settings, plans, orgs, subs, quotas, config, job>>
      /\ UNCHANGED <<migrated, deleted, saved, crossed>>
  BY DEF Installed!AddUser
<1>3. /\ owner' \in [Rows -> {None, ""} \cup Installed!Org] /\ owner'["user"] = ""
      /\ \A x \in Rows \ {"user"} : owner'[x] = owner[x]
  BY <1>1, <1>2 DEF DataType, Rows
<1>4. DataType'
  BY <1>1, <1>2, <1>3 DEF DataType, Rows
<1>5. OwnedUnlessYounger => OwnedUnlessYounger'
  BY <1>2, <1>3 DEF OwnedUnlessYounger
<1>6. owner'["server"] = owner["server"] /\ owner'["admin"] = owner["admin"] /\ (RowWasMade => RowWasMade')
  BY <1>2, <1>3 DEF RowWasMade, Rows
<1>7. \A x \in Rows : owner'[x] \in Installed!Org => owner'[x] \in orgs'
  BY <1>1, <1>2, <1>3 DEF DataInv, Installed!Org
<1>8. DataInv'
  BY <1>1, <1>2, <1>5, <1>6, <1>7 DEF DataInv
<1>9. None # ""
  BY InstallationAssumption
<1>10. Grows
  BY <1>2, <1>3, <1>5, <1>6, <1>9 DEF Grows
<1> QED
  BY <1>2, <1>4, <1>8, <1>10, AllStay

LEMMA DeleteServerInv ==
  ASSUME InstallInv, NEW p \in Hook, Installed!DeleteServer(p)
  PROVE  InstallInv'
<1>1. DataType /\ DataInv
  BY AtHand
<1>2. /\ owner' = [owner EXCEPT !["server"] = None] /\ password' = None /\ deleted' = TRUE
      /\ UNCHANGED <<tables, columns, settings, plans, orgs, subs, quotas, config, job>>
      /\ UNCHANGED <<younger, migrated, saved, crossed>>
  BY DEF Installed!DeleteServer
<1>3. /\ owner' \in [Rows -> {None, ""} \cup Installed!Org] /\ owner'["server"] = None
      /\ \A x \in Rows \ {"server"} : owner'[x] = owner[x]
  BY <1>1, <1>2 DEF DataType, Rows
<1>4. DataType'
  BY <1>1, <1>2, <1>3 DEF DataType
<1>5. None \notin {"", "masked"} /\ None \notin Installed!Org
  BY InstallationAssumption
<1>6. OwnedUnlessYounger => OwnedUnlessYounger'
  BY <1>2, <1>3, <1>5 DEF OwnedUnlessYounger
<1>7. owner'["user"] = owner["user"] /\ owner'["admin"] = owner["admin"] /\ RowWasMade'
  BY <1>2, <1>3 DEF RowWasMade, Rows
<1>8. \A x \in Rows : owner'[x] \in Installed!Org => owner'[x] \in orgs'
  BY <1>1, <1>2, <1>3, <1>5 DEF DataInv
<1>9. DataInv'
  BY <1>1, <1>2, <1>3, <1>5, <1>6, <1>7, <1>8 DEF DataInv
<1>10. Grows
  BY <1>2, <1>6, <1>7 DEF Grows
<1> QED
  BY <1>2, <1>4, <1>9, <1>10, AllStay
-----------------------------------------------------------------------------
\* The steps of the script: it goes to a place whose needs are met.
LEMMA Went ==
  ASSUME InstallInv, NEW p \in Hook, NEW place \in Installed!ScriptPlace \cup {"none"},
         Installed!Becomes(p, Installed!Place(place, 0)), job[p].at \in Installed!ScriptPlace \cup {"none"},
         CarriesAt(place)', DataType', DataInv', Grows, \A q \in Hook \ {p} : Spares(q),
         UNCHANGED <<config, saved, password>>
  PROVE  InstallInv'
<1>1. PICK j : j = Installed!Place(place, 0)
  OBVIOUS
<1>a. /\ place \in {"none", "look", "make", "up"} \cup Installed!ScriptPlace
      /\ place \in {"none", "look", "make", "insert", "write", "dump", "up"} \cup Installed!ScriptPlace
  OBVIOUS
<1>2. j \in Installed!JobState /\ j.at = place
  BY <1>1, <1>a, PlaceIs
<1>3. job'[p] = j /\ Installed!Becomes(p, j)
  BY <1>1, <1>2, Becoming, AtHand
<1>4. place \notin {"look", "make", "up", "dump"} /\ job[p].at \notin {"write", "dump"}
  BY DEF Installed!ScriptPlace
<1>5. Carries(p)'
  BY <1>2, <1>3 DEF Carries, CarriesAt
<1>6. Whole(0)'
  BY DEF Whole
<1>7. ProcInv(p)'
  <2>1. job'[p] = Installed!Place(place, 0)
    BY <1>1, <1>3
  <2>2. (place \in {"look", "make"} <=> 0 > 0) /\ (place = "up" => Whole(8)')
    BY <1>4
  <2> QED
    BY <1>a, <1>5, <1>6, <2>1, <2>2, PlaceInv
<1>8. FileInv'
  BY <1>2, <1>3, <1>4, FileStays, AtHand DEF Grows
<1> QED
  BY <1>2, <1>3, <1>7, <1>8, OneSteps

\* Or it only goes on to another look.
LEMMA LookedFor ==
  ASSUME InstallInv, NEW p \in Hook, NEW place \in Installed!ScriptPlace \cup {"none"},
         Installed!Goes(p, place), job[p].at \in Installed!ScriptPlace, CarriesAt(place),
         UNCHANGED <<Installed!database, config, Installed!history>>
  PROVE  InstallInv'
<1>1. /\ UNCHANGED <<tables, columns, owner, password, settings, plans, orgs, subs, quotas>>
      /\ UNCHANGED <<config, younger, migrated, deleted, saved, crossed>>
  BY DEF Installed!database, Installed!history
<1>2. CarriesAt(place)'
  BY <1>1 DEF CarriesAt, OwnedUnlessYounger
<1>3. DataType' /\ DataInv'
  BY <1>1, AtHand DEF DataType, DataInv, OwnedUnlessYounger, RowWasMade
<1>4. Grows /\ \A q \in Hook \ {p} : Spares(q)
  BY <1>1 DEF Grows, Spares, OwnedUnlessYounger, RowWasMade
<1> QED
  BY <1>1, <1>2, <1>3, <1>4, Went DEF Installed!Goes

\* What a place of the script stands on.
LEMMA ScriptHas ==
  ASSUME InstallInv, NEW p \in Hook, NEW place \in Installed!ScriptPlace, job[p].at = place
  PROVE  "tenant" \in columns /\ CarriesAt(place)
BY AtHand DEF ProcInv, Carries, CarriesAt

LEMMA AddColumnsInv ==
  ASSUME InstallInv, NEW p \in Hook, Installed!AddColumns(p)
  PROVE  InstallInv'
<1>1. /\ job[p].at = "none" /\ columns' = columns \cup {"tenant"}
      /\ Installed!Becomes(p, Installed!Place("look for emare", 0))
      /\ UNCHANGED <<tables, owner, password, settings, plans, orgs, subs, quotas, config>>
      /\ UNCHANGED <<younger, migrated, deleted, saved, crossed>>
  BY DEF Installed!AddColumns, Installed!Idle, Installed!At, Installed!Goes, Installed!history
<1>2. DataType'
  BY <1>1, AtHand DEF DataType
<1>3. DataInv'
  BY <1>1, AtHand DEF DataInv, OwnedUnlessYounger, RowWasMade
<1>4. Grows /\ \A q \in Hook \ {p} : Spares(q)
  BY <1>1 DEF Grows, Spares, OwnedUnlessYounger, RowWasMade
<1>5. CarriesAt("look for emare")' /\ "look for emare" \in Installed!ScriptPlace
  BY <1>1 DEF CarriesAt, Installed!ScriptPlace
<1> QED
  BY <1>1, <1>2, <1>3, <1>4, <1>5, Went

LEMMA LookForEmareInv ==
  ASSUME InstallInv, NEW p \in Hook, Installed!LookForEmare(p)
  PROVE  InstallInv'
<1>1. job[p].at = "look for emare" /\ UNCHANGED <<Installed!database, config, Installed!history>>
  BY DEF Installed!LookForEmare, Installed!At
<1>2. {"look for emare", "assign", "make emare"} \subseteq Installed!ScriptPlace
  BY DEF Installed!ScriptPlace
<1>3. "tenant" \in columns
  BY <1>1, <1>2, ScriptHas
<1>4. CASE "emare" \in orgs /\ Installed!Goes(p, "assign")
  <2>1. CarriesAt("assign")
    BY <1>3, <1>4 DEF CarriesAt
  <2> QED
    BY <1>1, <1>2, <1>4, <2>1, LookedFor
<1>5. CASE Installed!Goes(p, "make emare")
  <2>1. CarriesAt("make emare")
    BY <1>3 DEF CarriesAt
  <2> QED
    BY <1>1, <1>2, <1>5, <2>1, LookedFor
<1> QED
  BY <1>4, <1>5 DEF Installed!LookForEmare

LEMMA MakeEmareInv ==
  ASSUME InstallInv, NEW p \in Hook, Installed!MakeEmare(p)
  PROVE  InstallInv'
<1>1. job[p].at = "make emare"
  BY DEF Installed!MakeEmare, Installed!At
<1>2. {"make emare", "assign"} \subseteq Installed!ScriptPlace
  BY DEF Installed!ScriptPlace
<1>3. "tenant" \in columns
  BY <1>1, <1>2, ScriptHas
<1>4. CASE Installed!Dies(p)
  BY <1>1, <1>4, DiesInv
<1>5. CASE /\ orgs' = orgs \cup {"emare"} /\ Installed!Becomes(p, Installed!Place("assign", 0))
           /\ UNCHANGED <<tables, columns, owner, password, settings, plans, subs, quotas, config>>
           /\ UNCHANGED <<younger, migrated, deleted, saved, crossed>>
  <2>1. DataType'
    BY <1>5, AtHand DEF DataType, Installed!Org
  <2>2. DataInv'
    BY <1>5, AtHand DEF DataInv, OwnedUnlessYounger, RowWasMade
  <2>3. Grows /\ \A q \in Hook \ {p} : Spares(q)
    BY <1>5 DEF Grows, Spares, OwnedUnlessYounger, RowWasMade
  <2>4. CarriesAt("assign")'
    BY <1>3, <1>5 DEF CarriesAt
  <2> QED
    BY <1>1, <1>2, <1>5, <2>1, <2>2, <2>3, <2>4, Went
<1> QED
  BY <1>4, <1>5 DEF Installed!MakeEmare, Installed!Goes, Installed!bounds, Installed!history

\* Whoever has no organization gets the script's.
LEMMA AssignInv ==
  ASSUME InstallInv, NEW p \in Hook, Installed!Assign(p)
  PROVE  InstallInv'
<1>1. DataType /\ DataInv
  BY AtHand
<1>2. /\ job[p].at = "assign" /\ owner' = [x \in DOMAIN owner |-> Installed!Assigned(x)] /\ younger' = {}
      /\ Installed!Becomes(p, Installed!Place("look for plan", 0))
      /\ UNCHANGED <<tables, columns, password, settings, plans, orgs, subs, quotas, config>>
      /\ UNCHANGED <<migrated, deleted, saved, crossed>>
  BY DEF Installed!Assign, Installed!At, Installed!Goes
<1>3. {"assign", "look for plan"} \subseteq Installed!ScriptPlace
  BY DEF Installed!ScriptPlace
<1>4. "tenant" \in columns /\ "emare" \in orgs
  BY <1>2, <1>3, ScriptHas DEF CarriesAt
<1>5. None \notin {"", "emare"}
  BY InstallationAssumption DEF Installed!Org
<1>6. DOMAIN owner = Rows /\ \A x \in Rows : owner[x] \in {None, ""} \cup Installed!Org
  BY <1>1 DEF DataType
<1>7. DOMAIN owner' = Rows /\ \A x \in Rows : owner'[x] = IF owner[x] = "" THEN "emare" ELSE owner[x]
  BY <1>2, <1>6 DEF Installed!Assigned
<1>8. owner' \in [Rows -> {None, ""} \cup Installed!Org]
  <2>1. \A x \in Rows : owner'[x] \in {None, ""} \cup Installed!Org
    BY <1>6, <1>7 DEF Installed!Org
  <2>2. owner' = [x \in Rows |-> owner'[x]]
    BY <1>2, <1>6
  <2> QED
    BY <2>1, <2>2
<1>9. OwnedUnlessYounger'
  BY <1>7 DEF OwnedUnlessYounger
<1>10. \A x \in Rows : owner'[x] = None <=> owner[x] = None
  BY <1>5, <1>7
<1>11. DataType'
  BY <1>1, <1>2, <1>8 DEF DataType
<1>12. RowWasMade => RowWasMade'
  BY <1>2, <1>10 DEF RowWasMade, Rows
<1>13. \A x \in Rows : owner'[x] \in Installed!Org => owner'[x] \in orgs'
  BY <1>1, <1>2, <1>4, <1>7 DEF DataInv
<1>14. owner'["server"] = None <=> owner["server"] = None
  BY <1>10 DEF Rows
<1>15. DataInv'
  BY <1>1, <1>2, <1>9, <1>12, <1>13, <1>14 DEF DataInv
<1>16. Grows /\ \A q \in Hook \ {p} : Spares(q)
  BY <1>2, <1>9, <1>10, <1>12 DEF Grows, Spares, Rows
<1>17. CarriesAt("look for plan")'
  BY <1>2, <1>4, <1>9 DEF CarriesAt
<1> QED
  BY <1>2, <1>3, <1>11, <1>15, <1>16, <1>17, Went

LEMMA LookForPlanInv ==
  ASSUME InstallInv, NEW p \in Hook, Installed!LookForPlan(p)
  PROVE  InstallInv'
<1>1. job[p].at = "look for plan" /\ UNCHANGED <<Installed!database, config, Installed!history>>
  BY DEF Installed!LookForPlan, Installed!At
<1>2. {"look for plan", "make plan", "look for subscription"} \subseteq Installed!ScriptPlace
  BY DEF Installed!ScriptPlace
<1>3. "tenant" \in columns /\ OwnedUnlessYounger
  BY <1>1, <1>2, ScriptHas DEF CarriesAt
<1>4. CarriesAt("make plan") /\ CarriesAt("look for subscription")
  BY <1>3 DEF CarriesAt
<1>5. Installed!Goes(p, "make plan") \/ Installed!Goes(p, "look for subscription")
  BY DEF Installed!LookForPlan
<1> QED
  BY <1>1, <1>2, <1>4, <1>5, LookedFor

LEMMA MakeCommunityInv ==
  ASSUME InstallInv, NEW p \in Hook, Installed!MakeCommunity(p)
  PROVE  InstallInv'
<1>1. job[p].at = "make plan"
  BY DEF Installed!MakeCommunity, Installed!At
<1>2. {"make plan", "look for subscription"} \subseteq Installed!ScriptPlace
  BY DEF Installed!ScriptPlace
<1>3. "tenant" \in columns /\ OwnedUnlessYounger
  BY <1>1, <1>2, ScriptHas DEF CarriesAt
<1>4. CASE Installed!Dies(p)
  BY <1>1, <1>4, DiesInv
<1>5. CASE /\ plans' = "community" /\ Installed!Becomes(p, Installed!Place("look for subscription", 0))
           /\ UNCHANGED <<tables, columns, owner, password, settings, orgs, subs, quotas, config>>
           /\ UNCHANGED <<younger, migrated, deleted, saved, crossed>>
  <2>1. DataType'
    BY <1>5, AtHand DEF DataType
  <2>2. DataInv'
    BY <1>5, AtHand DEF DataInv, OwnedUnlessYounger, RowWasMade
  <2>3. Grows /\ \A q \in Hook \ {p} : Spares(q)
    BY <1>5 DEF Grows, Spares, OwnedUnlessYounger, RowWasMade
  <2>4. CarriesAt("look for subscription")'
    BY <1>3, <1>5 DEF CarriesAt, OwnedUnlessYounger
  <2> QED
    BY <1>1, <1>2, <1>5, <2>1, <2>2, <2>3, <2>4, Went
<1> QED
  BY <1>4, <1>5 DEF Installed!MakeCommunity, Installed!Goes, Installed!bounds, Installed!history

LEMMA LookForSubscriptionInv ==
  ASSUME InstallInv, NEW p \in Hook, Installed!LookForSubscription(p)
  PROVE  InstallInv'
<1>1. job[p].at = "look for subscription" /\ UNCHANGED <<Installed!database, config, Installed!history>>
  BY DEF Installed!LookForSubscription, Installed!At
<1>2. {"look for subscription", "subscribe", "look for quota"} \subseteq Installed!ScriptPlace
  BY DEF Installed!ScriptPlace
<1>3. "tenant" \in columns /\ OwnedUnlessYounger
  BY <1>1, <1>2, ScriptHas DEF CarriesAt
<1>4. subs["emare"] \in Nat
  BY AtHand DEF DataType, Installed!Org
<1>5. CASE subs["emare"] = 0 /\ Installed!Goes(p, "subscribe")
  <2>1. CarriesAt("subscribe")
    BY <1>3, <1>5 DEF CarriesAt
  <2> QED
    BY <1>1, <1>2, <1>5, <2>1, LookedFor
<1>6. CASE subs["emare"] # 0 /\ Installed!Goes(p, "look for quota")
  <2>1. CarriesAt("look for quota")
    <3>a. subs["emare"] # 0
      BY <1>6
    <3>1. subs["emare"] > 0
      BY <1>4, <3>a
    <3> QED
      BY <1>3, <3>1 DEF CarriesAt
  <2> QED
    BY <1>1, <1>2, <1>6, <2>1, LookedFor
<1> QED
  BY <1>5, <1>6 DEF Installed!LookForSubscription

\* A second subscription is of two scripts that overlapped.
LEMMA SubscribeInv ==
  ASSUME InstallInv, NEW p \in Hook, Installed!Subscribe(p)
  PROVE  InstallInv'
<1>1. DataType /\ DataInv
  BY AtHand
<1>2. /\ job[p].at = "subscribe" /\ subs' = [subs EXCEPT !["emare"] = @ + 1]
      /\ crossed' = IF \E q \in Hook \ {p} : job[q].at = "subscribe" THEN crossed \cup {"subs"} ELSE crossed
      /\ quotas' = quotas \cup {"emare"} /\ migrated' = TRUE
      /\ Installed!Becomes(p, Installed!Place("none", 0))
      /\ UNCHANGED <<tables, columns, owner, password, settings, plans, orgs, config>>
      /\ UNCHANGED <<younger, deleted, saved>>
  BY DEF Installed!Subscribe, Installed!At, Installed!Nowhere
<1>3. "subscribe" \in Installed!ScriptPlace
  BY DEF Installed!ScriptPlace
<1>4. "tenant" \in columns /\ OwnedUnlessYounger /\ (subs["emare"] > 0 => "subs" \in crossed)
  BY <1>2, <1>3, ScriptHas DEF CarriesAt
<1>5. crossed \subseteq crossed' /\ crossed' \subseteq {"file", "subs"}
  BY <1>1, <1>2 DEF DataType
<1>6. subs \in [Installed!Org -> Nat] /\ subs["emare"] \in Nat
  BY <1>1 DEF DataType, Installed!Org
<1>7. /\ subs' \in [Installed!Org -> Nat] /\ subs'["emare"] = subs["emare"] + 1
      /\ subs'["default"] = subs["default"]
  BY <1>2, <1>6 DEF Installed!Org
<1>8. DataType'
  BY <1>1, <1>2, <1>5, <1>7 DEF DataType, Installed!Org
<1>9. OwnedUnlessYounger' /\ (RowWasMade => RowWasMade')
  BY <1>2, <1>4 DEF OwnedUnlessYounger, RowWasMade
<1>10. subs'["emare"] > 0 /\ (subs'["emare"] > 1 => "subs" \in crossed')
  BY <1>4, <1>5, <1>6, <1>7
<1>11. DataInv'
  BY <1>1, <1>2, <1>4, <1>7, <1>9, <1>10 DEF DataInv
<1>12. Grows
  BY <1>2, <1>5, <1>9, <1>10 DEF Grows
<1>13. \A q \in Hook \ {p} : Spares(q)
  BY <1>2 DEF Spares
<1>14. CarriesAt("none")'
  BY DEF CarriesAt, Installed!ScriptPlace
<1> QED
  BY <1>2, <1>3, <1>8, <1>11, <1>12, <1>13, <1>14, Went

LEMMA AllotInv ==
  ASSUME InstallInv, NEW p \in Hook, Installed!Allot(p)
  PROVE  InstallInv'
<1>1. DataType /\ DataInv
  BY AtHand
<1>2. /\ job[p].at = "look for quota" /\ quotas' = quotas \cup {"emare"} /\ migrated' = TRUE
      /\ Installed!Becomes(p, Installed!Place("none", 0))
      /\ UNCHANGED <<tables, columns, owner, password, settings, plans, orgs, subs, config>>
      /\ UNCHANGED <<younger, deleted, saved, crossed>>
  BY DEF Installed!Allot, Installed!At, Installed!Nowhere
<1>3. "look for quota" \in Installed!ScriptPlace
  BY DEF Installed!ScriptPlace
<1>4. "tenant" \in columns /\ OwnedUnlessYounger /\ subs["emare"] > 0
  BY <1>2, <1>3, ScriptHas DEF CarriesAt
<1>5. DataType'
  BY <1>1, <1>2 DEF DataType, Installed!Org
<1>6. OwnedUnlessYounger' /\ (RowWasMade => RowWasMade')
  BY <1>2, <1>4 DEF OwnedUnlessYounger, RowWasMade
<1>7. DataInv'
  BY <1>1, <1>2, <1>4, <1>6 DEF DataInv
<1>8. Grows /\ \A q \in Hook \ {p} : Spares(q)
  BY <1>2, <1>6 DEF Grows, Spares
<1>9. CarriesAt("none")'
  BY DEF CarriesAt, Installed!ScriptPlace
<1> QED
  BY <1>2, <1>3, <1>5, <1>7, <1>8, <1>9, Went

-----------------------------------------------------------------------------
LEMMA InstallStep ==
  ASSUME InstallInv, Installed!Next
  PROVE  InstallInv'
<1> PICK p \in Hook : Installed!Step(p)
  BY DEF Installed!Next
<1>1. Installed!Start(p) \/ Installed!Look(p) => InstallInv'
  BY StartInv, LookInv
<1>2. Installed!MakeTables(p) \/ Installed!AddHierarchy(p) \/ Installed!MakeAdmin(p) => InstallInv'
  BY MakeTablesInv, AddHierarchyInv, MakeAdminInv
<1>3. Installed!ReadFile(p) \/ Installed!Insert(p) \/ Installed!OpenFile(p) \/ Installed!WriteFile(p) => InstallInv'
  BY ReadFileInv, InsertInv, OpenFileInv, WriteFileInv
<1>4. Installed!MakeSettings(p) \/ Installed!MakePlans(p) \/ Installed!MakeOrg(p) => InstallInv'
  BY MakeSettingsInv, MakePlansInv, MakeOrgInv
<1>5. Installed!AddColumns(p) \/ Installed!LookForEmare(p) \/ Installed!MakeEmare(p) \/ Installed!Assign(p)
        => InstallInv'
  BY AddColumnsInv, LookForEmareInv, MakeEmareInv, AssignInv
<1>6. Installed!LookForPlan(p) \/ Installed!MakeCommunity(p) \/ Installed!LookForSubscription(p)
        \/ Installed!Subscribe(p) \/ Installed!Allot(p)
        => InstallInv'
  BY LookForPlanInv, MakeCommunityInv, LookForSubscriptionInv, SubscribeInv, AllotInv
<1>7. Installed!AddUser(p) \/ Installed!DeleteServer(p) \/ Installed!AddProtocol(p) \/ Installed!Kill(p) => InstallInv'
  BY AddUserInv, DeleteServerInv, AddProtocolInv, InstallKillInv
<1> QED
  BY <1>1, <1>2, <1>3, <1>4, <1>5, <1>6, <1>7 DEF Installed!Step

LEMMA InstallIsWhole == ASSUME InstallInv PROVE InstallationIsWhole
<1>1. DataType /\ JobsType /\ DataInv /\ FileInv /\ \A p \in Hook : ProcInv(p)
  BY DEF InstallInv
<1>2. Installed!StartedIsWhole
  <2>1. ASSUME NEW p \in Hook, Installed!Up(p) PROVE Whole(8)
    <3>1. job[p].stage \in 0 .. 7 /\ ProcInv(p)
      BY AtHand
    <3>2. job[p].stage = 0 /\ job[p].at \in {"up", "write", "dump"}
      BY <2>1, <3>1 DEF Installed!Up, Installed!At, Installed!Starting, ProcInv, Placed
    <3> QED
      BY <3>1, <3>2 DEF ProcInv, Relies
  <2>2. ASSUME \E p \in Hook : Installed!Up(p)
        PROVE  /\ "hierarchy" \in columns /\ {owner["admin"], owner["user"]} # {None}
               /\ plans # "none" /\ orgs # {}
    BY <2>1, <2>2 DEF Whole
  <2> QED
    BY <1>1, <2>2 DEF Installed!StartedIsWhole, DataInv
<1>3. Installed!RowsAreOwned
  BY <1>1 DEF Installed!RowsAreOwned, DataType, DataInv, OwnedUnlessYounger
<1>4. Installed!FileIsHandedOver
  BY <1>1 DEF Installed!FileIsHandedOver, Installed!Starting, DataInv, FileInv
<1> QED
  BY <1>2, <1>3, <1>4 DEF InstallationIsWhole, Installed!InstallationIsWhole

\* However many starts of a panel, runs of the script and requests overlap, and wherever they
\* are killed: a panel that is up finds what it relies on, the rows keep their organizations and
\* the file is handed over (init_database, _migrate_servers_from_json, migrate_tenant.py).
THEOREM InstallWhole == PanelSpec => []InstallationIsWhole
<1>1. PanelInit => InstallInv
  BY InstallInit DEF PanelInit
<1>2. InstallInv /\ [PanelNext]_panelVars => InstallInv'
  <2> SUFFICES ASSUME InstallInv, [PanelNext]_panelVars PROVE InstallInv'
    OBVIOUS
  <2>1. CASE Installed!Next
    BY <2>1, InstallStep
  <2>2. CASE UNCHANGED installVars
    <3>1. /\ UNCHANGED <<tables, columns, owner, password, settings, plans, orgs, subs, quotas>>
          /\ UNCHANGED <<config, younger, migrated, deleted, saved, crossed, job>>
      BY <2>2 DEF installVars
    <3>2. DataType' /\ DataInv' /\ Grows
      BY <3>1 DEF InstallInv, DataType, DataInv, Grows, OwnedUnlessYounger, RowWasMade
    <3> QED
      BY <3>1, <3>2, AllStay
  <2> QED
    BY <2>1, <2>2 DEF PanelNext, panelVars
<1>3. InstallInv => InstallationIsWhole
  BY InstallIsWhole
<1> QED
  BY <1>1, <1>2, <1>3, PTL DEF PanelSpec
=============================================================================
