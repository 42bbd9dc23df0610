---------------------------- MODULE RmmResponse ----------------------------
(***************************************************************************)
(* What operators and playbooks do about what the remote monitoring found  *)
(* (emarefirewall/rmm.py and the routes over it): tickets and their notes, *)
(* indicators of threats, playbooks and their runs, cases with evidence    *)
(* and a timeline, and the risk scores of the devices.                     *)
(*                                                                         *)
(* A method of the store holds a lock of its process around each           *)
(* transaction; a request takes the lock several times.  The requests are  *)
(* those of one process (alone) or of one process each.  Nothing enforces  *)
(* the foreign keys of the tables, and their ids are never used again.     *)
(* A score is in units: half of one unit counts as nothing.                *)
(***************************************************************************)
EXTENDS Naturals, Sequences, Functions, FiniteSets

CONSTANTS
    Worker,     \* threads that serve requests
    Note, Status, Indicator, Device,
    Plan,       \* the lists of actions that a playbook may be given
    Points,     \* what a factor adds to a score
    Full, Keep, \* the highest score, and how many factors are kept
    MaxTickets, \* bound: tickets, and tasks of playbooks
    MaxThreats, MaxBooks, MaxRuns, MaxCases, MaxTimeline,    \* bounds
    None

VARIABLES
    alone,      \* the workers are threads of one process
    tickets,
    threats,    \* the id of each indicator's row, None when it has none
    given,      \* whom the ids of threat_intel were given to, in order
    tasks,      \* how many tasks playbooks have made
    playbooks,  \* None where one was deleted
    runs,       \* playbook_runs: by their ids, None where one went with its playbook
    cases,
    timeline, evidence, \* of each case id, those without a row too
    risk,
    job,        \* the request of each worker, between two of its transactions
    added,      \* notes that were answered as added, and the ticket of each
    shown,      \* the last answer of rmm_case_detail
    due,        \* the scores, had each change been made at once
    crossed     \* what overlapped with a request that may have undone it

Book == [plan : Plan, enabled : BOOLEAN, runs : Nat]
Row == [book : Nat, results : Seq(Nat)]
Running == [at : {"run"}, book : Nat, todo : Seq(STRING), results : Seq(Nat)]

ConstantsAssumption ==
    /\ MaxCases \in Nat
    /\ Plan \subseteq Seq(STRING)
    /\ None \notin Book /\ None \notin Row /\ None \notin Running

deskVars == <<tickets, threats, given, tasks, added>>
bookVars == <<playbooks, runs>>
caseVars == <<cases, timeline, evidence, shown>>
riskVars == <<risk, due>>
vars == <<alone, deskVars, bookVars, caseVars, riskVars, job, crossed>>

Init ==
    /\ alone \in BOOLEAN
    /\ tickets = <<>> /\ added = {}
    /\ threats = [i \in Indicator |-> None] /\ given = <<>>
    /\ tasks = 0
    /\ playbooks = <<>> /\ runs = <<>>
    /\ cases = <<>>
    /\ timeline = [c \in 1..MaxCases |-> <<>>] /\ evidence = [c \in 1..MaxCases |-> 0]
    /\ shown = None
    /\ risk = [d \in Device |-> None] /\ due = risk
    /\ job = [w \in Worker |-> None]
    /\ crossed = {}

Idle(w) == job[w] = None
At(w, place) == ~Idle(w) /\ job[w].at = place
Become(w, r) == job' = [job EXCEPT ![w] = r]
End(w) == Become(w, None)
Others(w, place) == {v \in Worker \ {w} : At(v, place)}

-----------------------------------------------------------------------------
\* Tickets.  update_ticket reads the notes in one section and writes them, with its own, in another.

Opened(by) == [status |-> "open", by |-> by, notes |-> {}]

CreateTicket(w) ==
    /\ Idle(w) /\ Len(tickets) < MaxTickets
    /\ tickets' = Append(tickets, Opened("staff"))
    /\ UNCHANGED <<threats, given, tasks, added, bookVars, caseVars, riskVars, job, crossed>>

\* A note is added once.
Fresh == Note \ ({t[2] : t \in added} \cup {job[w].note : w \in {v \in Worker : At(v, "update")}})

\* What is written of the notes: nothing when the request has none.
\* A slip: the notes are written back even when the request adds none.
BugNoted(j, notes) == j.notes \cup ({j.note} \ {None})

Noted(j, notes) == IF j.note = None THEN notes ELSE j.notes \cup {j.note}

UpdateTicket(w) ==
    \E id \in DOMAIN tickets, status \in Status \cup {None}, note \in Fresh \cup {None} :
        /\ Idle(w)
        /\ Become(w, [at |-> "update", id |-> id, status |-> status, note |-> note,
                      notes |-> tickets[id].notes])
        /\ UNCHANGED <<deskVars, bookVars, caseVars, riskVars, crossed>>

WriteTicket(w) ==
    /\ At(w, "update")
    /\ LET j == job[w] IN
       /\ tickets' = [tickets EXCEPT ![j.id] =
            [status |-> IF j.status = None THEN @.status ELSE j.status, by |-> @.by, notes |-> Noted(j, @.notes)]]
       /\ added' = added \cup (IF j.note = None THEN {} ELSE {<<j.id, j.note>>})
       /\ crossed' = IF \E v \in Others(w, "update") : job[v].id = j.id /\ job[v].note # None
                     THEN crossed \cup {j.note} ELSE crossed
    /\ End(w)
    /\ UNCHANGED <<threats, given, tasks, bookVars, caseVars, riskVars>>

-----------------------------------------------------------------------------
\* Indicators: one row each, overwritten when it is there.

NewThreatId == Len(given) + 1

AddThreatIndicator(i) ==
    IF threats[i] # None THEN UNCHANGED <<threats, given>>
    ELSE /\ Len(given) < MaxThreats
         /\ threats' = [threats EXCEPT ![i] = NewThreatId]
         /\ given' = Append(given, i)

AddThreat(w) ==
    /\ Idle(w)
    /\ \E i \in Indicator : AddThreatIndicator(i)
    /\ UNCHANGED <<tickets, tasks, added, bookVars, caseVars, riskVars, job, crossed>>

WithoutThreat(id) == [i \in Indicator |-> IF threats[i] = id THEN None ELSE threats[i]]

\* The id is one that a list has shown before.
RemoveThreat(w) ==
    /\ Idle(w)
    /\ \E id \in DOMAIN given : threats' = WithoutThreat(id)
    /\ UNCHANGED <<tickets, given, tasks, added, bookVars, caseVars, riskVars, job, crossed>>

-----------------------------------------------------------------------------
\* Playbooks.  A run reads the playbook, does its actions in one transaction each, and then writes
\* its row and the count of the playbook in one transaction.

NewBook(plan) == [plan |-> plan, enabled |-> TRUE, runs |-> 0]

CreatePlaybook(w) ==
    /\ Idle(w) /\ Len(playbooks) < MaxBooks
    /\ \E plan \in Plan : playbooks' = Append(playbooks, NewBook(plan))
    /\ UNCHANGED <<deskVars, runs, caseVars, riskVars, job, crossed>>

Books == {b \in DOMAIN playbooks : playbooks[b] # None}

Edits(book) ==
    {[book EXCEPT !.plan = plan] : plan \in Plan} \cup {[book EXCEPT !.enabled = on] : on \in BOOLEAN}

UpdatePlaybook(w) ==
    /\ Idle(w)
    /\ \E b \in Books : \E edited \in Edits(playbooks[b]) : playbooks' = [playbooks EXCEPT ![b] = edited]
    /\ UNCHANGED <<deskVars, runs, caseVars, riskVars, job, crossed>>

Results(rows) == UNION {{<<"ticket", n>> : n \in Range(r.results)} : r \in rows}
Rows == Range(runs) \ {None}
RunsOf(b) == {n \in DOMAIN runs : runs[n] # None /\ runs[n].book = b}
WithoutRunsOf(b) == [n \in DOMAIN runs |-> IF n \in RunsOf(b) THEN None ELSE runs[n]]

DeletePlaybook(w) ==
    /\ Idle(w)
    /\ \E b \in Books :
        /\ playbooks' = [playbooks EXCEPT ![b] = None]
        /\ runs' = WithoutRunsOf(b)
        /\ crossed' = crossed \cup Results({runs[n] : n \in RunsOf(b)})
                              \cup {<<"book", job[v].book>> : v \in {v \in Others(w, "run") : job[v].book = b}}
    /\ UNCHANGED <<deskVars, caseVars, riskVars, job>>

Begun(b) == [at |-> "run", book |-> b, todo |-> playbooks[b].plan, results |-> <<>>]

RunPlaybook(w) ==
    /\ Idle(w) /\ Len(runs) + Cardinality(Others(w, "run")) < MaxRuns
    /\ \E b \in Books :
        /\ playbooks[b].enabled
        /\ Become(w, Begun(b))
    /\ UNCHANGED <<deskVars, bookVars, caseVars, riskVars, crossed>>

\* One action of the run: 0 stands for a result that names no ticket.
RunAction(w) ==
    /\ At(w, "run") /\ job[w].todo # <<>>
    /\ LET j == job[w]
           Done(n) == Become(w, [at |-> "run", book |-> j.book, todo |-> Tail(j.todo),
                                 results |-> Append(j.results, n)])
       IN
       \/ /\ Head(j.todo) = "block_ip"
          /\ \E i \in Indicator : AddThreatIndicator(i)
          /\ Done(0)
          /\ UNCHANGED <<tickets, tasks, crossed>>
       \/ /\ Head(j.todo) = "create_ticket" /\ Len(tickets) < MaxTickets
          /\ tickets' = Append(tickets, Opened("playbook"))
          /\ Done(Len(tickets'))
          /\ UNCHANGED <<threats, given, tasks, crossed>>
       \/ /\ Head(j.todo) = "run_task" /\ tasks < MaxTickets
          /\ tasks' = tasks + 1
          /\ Done(0)
          /\ UNCHANGED <<tickets, threats, given, crossed>>
       \/ /\ Head(j.todo) = "unknown"
          /\ Done(0)
          /\ UNCHANGED <<tickets, threats, given, tasks, crossed>>
       \/ \* not a dictionary: the request fails, and what was done stays
          /\ Head(j.todo) = "malformed"
          /\ crossed' = crossed \cup Results({j})
          /\ End(w)
          /\ UNCHANGED <<tickets, threats, given, tasks>>
    /\ UNCHANGED <<added, bookVars, caseVars, riskVars>>

\* The count of a playbook that was deleted meanwhile has no row, its run has one.
Counted(b) ==
    IF playbooks[b] = None THEN playbooks ELSE [playbooks EXCEPT ![b].runs = @ + 1]

RecordRun(w) ==
    /\ At(w, "run") /\ job[w].todo = <<>>
    /\ runs' = Append(runs, [book |-> job[w].book, results |-> job[w].results])
    /\ playbooks' = Counted(job[w].book)
    /\ End(w)
    /\ UNCHANGED <<deskVars, caseVars, riskVars, crossed>>

-----------------------------------------------------------------------------
\* Cases.  Evidence and changes are taken for ids that have no row, too.

Entry(c, e) == timeline' = [timeline EXCEPT ![c] = Append(@, e)]
Room(c) == Len(timeline[c]) < MaxTimeline

NewCase == [status |-> "open", closed |-> FALSE]

CreateCase(w) ==
    /\ Idle(w) /\ Len(cases) < MaxCases
    /\ LET c == Len(cases) + 1 IN
       /\ cases' = Append(cases, NewCase)
       /\ Entry(c, "created")
       /\ crossed' = IF timeline[c] = <<>> THEN crossed ELSE crossed \cup {<<"case", c>>}
    /\ UNCHANGED <<evidence, shown, deskVars, bookVars, riskVars, job>>

\* closed_at is set with the status, and stays when the case is opened again.
Updated(row, status) == [status |-> status, closed |-> row.closed \/ status = "closed"]

UpdateCase(w) ==
    /\ Idle(w)
    /\ \E c \in 1..MaxCases, status \in {"open", "closed"} :
        /\ Room(c)
        /\ cases' = IF c \in DOMAIN cases
                    THEN [cases EXCEPT ![c] = Updated(@, status)] ELSE cases
        /\ Entry(c, status)
    /\ UNCHANGED <<evidence, shown, deskVars, bookVars, riskVars, job, crossed>>

AddEvidence(w) ==
    /\ Idle(w)
    /\ \E c \in 1..MaxCases :
        /\ Room(c)
        /\ evidence' = [evidence EXCEPT ![c] = @ + 1]
        /\ Entry(c, "evidence_added")
    /\ UNCHANGED <<cases, shown, deskVars, bookVars, riskVars, job, crossed>>

\* rmm_case_detail reads the case, its timeline and its evidence in three sections.
ReadCase(w) ==
    /\ Idle(w)
    /\ \E c \in DOMAIN cases : Become(w, [at |-> "timeline", id |-> c])
    /\ UNCHANGED <<deskVars, bookVars, caseVars, riskVars, crossed>>

ReadTimeline(w) ==
    /\ At(w, "timeline")
    /\ Become(w, [at |-> "evidence", id |-> job[w].id, timeline |-> timeline[job[w].id]])
    /\ UNCHANGED <<deskVars, bookVars, caseVars, riskVars, crossed>>

AnswerCase(w) ==
    /\ At(w, "evidence")
    /\ shown' = [timeline |-> job[w].timeline, evidence |-> evidence[job[w].id]]
    /\ End(w)
    /\ UNCHANGED <<cases, timeline, evidence, deskVars, bookVars, riskVars, crossed>>

-----------------------------------------------------------------------------
\* Risk scores.  A change reads the row and writes it, in one section of its process: the
\* transaction begins with the write, so that another process can come between.

NewFactor(row, points) ==
    LET old == IF row = None THEN [score |-> 0, factors |-> <<>>] ELSE row
        all == Append(old.factors, points)
    IN [score |-> IF old.score + points > Full THEN Full ELSE old.score + points,
        factors |-> SubSeq(all, IF Len(all) > Keep THEN 2 ELSE 1, Len(all))]

\* Only the score is written, and only of rows that have one.
Decayed(row, score) == IF row = None \/ score = 0 THEN row ELSE [row EXCEPT !.score = score \div 2]

\* The lock of the store, which is one of the process.
SectionIsFree(w) == alone => Others(w, "factor") \cup Others(w, "decay") = {}

AddRiskFactor(w) ==
    /\ Idle(w) /\ SectionIsFree(w)
    /\ \E d \in Device, p \in Points :
        Become(w, [at |-> "factor", of |-> {d}, points |-> p, rows |-> risk])
    /\ UNCHANGED <<deskVars, bookVars, caseVars, riskVars, crossed>>

DecayRiskScores(w) ==
    /\ Idle(w) /\ SectionIsFree(w)
    /\ Become(w, [at |-> "decay", of |-> {d \in Device : risk[d] # None}, rows |-> risk])
    /\ UNCHANGED <<deskVars, bookVars, caseVars, riskVars, crossed>>

\* What the section leaves in a row: another process may have made the row that this one did not
\* find (the unique index refuses a second, and the factor is lost), or changed what it had read.
Left(j, d) ==
    CASE j.at = "decay" -> Decayed(risk[d], j.rows[d].score)
      [] j.at = "factor" /\ j.rows[d] = None /\ risk[d] # None -> risk[d]
      [] OTHER -> NewFactor(j.rows[d], j.points)

Due(j, d) ==
    IF j.at = "factor" THEN NewFactor(due[d], j.points)
    ELSE IF due[d] = None THEN None ELSE Decayed(due[d], due[d].score)

WriteRisk(w) ==
    /\ At(w, "factor") \/ At(w, "decay")
    /\ LET j == job[w]
           met == {d \in j.of : \E v \in Others(w, "factor") \cup Others(w, "decay") : d \in job[v].of}
       IN /\ risk' = [d \in Device |-> IF d \in j.of THEN Left(j, d) ELSE risk[d]]
          /\ due' = [d \in Device |-> IF d \in j.of THEN Due(j, d) ELSE due[d]]
          /\ crossed' = crossed \cup {<<"risk", d>> : d \in met}
    /\ End(w)
    /\ UNCHANGED <<deskVars, bookVars, caseVars>>

-----------------------------------------------------------------------------
\* A process dies: its requests end where they are.
Crash(w) ==
    /\ ~Idle(w)
    /\ LET dead == IF alone THEN {v \in Worker : ~Idle(v)} ELSE {w} IN
       /\ job' = [v \in Worker |-> IF v \in dead THEN None ELSE job[v]]
       /\ crossed' = crossed \cup Results({job[v] : v \in {v \in dead : At(v, "run")}})
    /\ UNCHANGED <<deskVars, bookVars, caseVars, riskVars>>

TicketStep(w) == CreateTicket(w) \/ UpdateTicket(w) \/ WriteTicket(w) \/ Crash(w)
ThreatStep(w) == AddThreat(w) \/ RemoveThreat(w)
BookStep(w) ==
    CreatePlaybook(w) \/ UpdatePlaybook(w) \/ DeletePlaybook(w) \/ RunPlaybook(w) \/ RunAction(w)
        \/ RecordRun(w) \/ Crash(w)
CaseStep(w) ==
    CreateCase(w) \/ UpdateCase(w) \/ AddEvidence(w) \/ ReadCase(w) \/ ReadTimeline(w) \/ AnswerCase(w)
        \/ Crash(w)
RiskStep(w) == AddRiskFactor(w) \/ DecayRiskScores(w) \/ WriteRisk(w) \/ Crash(w)

Step(w) == TicketStep(w) \/ ThreatStep(w) \/ BookStep(w) \/ CaseStep(w) \/ RiskStep(w)

Next == alone' = alone /\ \E w \in Worker : Step(w)

-----------------------------------------------------------------------------
\* A note that was answered as added is in its ticket, unless another request that adds a note had
\* read the ticket before and wrote it afterwards.
NotesAreKept == \A t \in added : t[2] \in tickets[t[1]].notes \cup crossed

\* An id that was once shown names one indicator, so that whoever removes by it removes that one.
IdsNameOneIndicator == \A i \in Indicator : threats[i] # None => given[threats[i]] = i

\* The count of a playbook is that of its runs, runs of a playbook that is gone were on when it
\* went, and a ticket that a playbook opened is in the row of its run, in a run that is on, or was
\* opened by a run that broke off or whose row went with the playbook.
RunsAreOnRecord ==
    /\ \A b \in Books : playbooks[b].runs = Cardinality(RunsOf(b))
    /\ \A r \in Rows : r.book \notin Books => <<"book", r.book>> \in crossed
    /\ \A n \in DOMAIN tickets :
        tickets[n].by = "playbook" =>
            <<"ticket", n>> \in crossed \cup Results(Rows)
                                       \cup Results({job[w] : w \in {w \in Worker : At(w, "run")}})

\* What a timeline tells of these kinds, by its places.
Entries(line, kinds) == {n \in DOMAIN line : line[n] \in kinds}
Pieces(line) == Cardinality(Entries(line, {"evidence_added"}))

\* The timeline of a case begins with its creation, unless something was written about its id
\* before, its last status is that of the case, a closed case has its date, each piece of evidence
\* has its entry, and an answer that tells of evidence shows it.
CasesAreTold ==
    /\ \A c \in 1..MaxCases : evidence[c] = Pieces(timeline[c])
    /\ \A c \in DOMAIN cases :
        LET changes == Entries(timeline[c], {"open", "closed"}) IN
        /\ cases[c].status = "closed" => cases[c].closed
        /\ <<"case", c>> \notin crossed =>
            /\ timeline[c][1] = "created"
            /\ changes = {} => cases[c].status = "open"
            /\ \A n \in changes : (\A m \in changes : m <= n) => timeline[c][n] = cases[c].status
    /\ shown # None => Pieces(shown.timeline) <= shown.evidence

\* A score and its factors are what the changes make of it one after another, unless those of two
\* processes overlapped.
RiskIsCounted == \A d \in Device : <<"risk", d>> \in crossed \/ risk[d] = due[d]

ResponsesAreOnRecord ==
    NotesAreKept /\ IdsNameOneIndicator /\ RunsAreOnRecord /\ CasesAreTold /\ RiskIsCounted
=============================================================================
