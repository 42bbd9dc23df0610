------------------------------- MODULE LogPage -------------------------------
(***************************************************************************)
(* What the firewall's log counts and shows: the statistics and queries of *)
(* the store (emarefirewall/store.py), the requests that read it and are   *)
(* entered in it themselves (emarefirewall/routes.py), the attacks that    *)
(* are collected from a server (emarefirewall/manager.py), and the page    *)
(* that follows the log (emarefirewall/templates/logs.html).               *)
(*                                                                         *)
(* add and clear hold the lock of the store; a query goes through the ring *)
(* without it, and fails when the ring changes meanwhile.  An answer may   *)
(* reach the page after the page has changed.  The chain and the writing   *)
(* to the database are in LogStore.  Of the statistics, those of responses *)
(* are kept: the others count entries in the same way.                     *)
(***************************************************************************)
EXTENDS Naturals, Sequences, SequencesExt, FiniteSets, Functions

CONSTANTS
    Request,        \* requests at a time, each from an address of its own
    Source,         \* where a server counts what it has dropped
    MaxEntries,     \* max_entries, the length of the ring
    Limit,          \* entries in an answer
    MaxRows,        \* rows of the page
    MaxRequests, MaxDrops, MaxClears, MaxRestarts,      \* bounds
    None

VARIABLES
    ring,       \* _entries, oldest first
    counter,
    stats,      \* of the responses: all, by address, by status
    past,       \* all entries since the numbering began
    begun,      \* how often it did
    page,
    job,        \* where each request stands
    drops,      \* the counters of the server
    told,       \* the last answer with statistics
    asked, clears, restarts

logVars == <<ring, counter, stats, past>>
bounds == <<asked, clears, restarts>>
vars == <<logVars, begun, page, job, drops, told, bounds>>

Status == {"fine", "failed"}
NoStats == [all |-> 0, ip |-> [r \in Request |-> 0], status |-> [s \in Status |-> 0]]

\* LAST_ID, the rows from the newest on and the filter are the page's.  For the properties: which
\* numbering the rows have, what the answers left out, and whether one came that was asked for
\* by a page that has changed since.
NewPage(filter) ==
    [last |-> 0, rows |-> <<>>, filter |-> filter, of |-> None, missed |-> {}, crossed |-> FALSE]

Init ==
    /\ ring = <<>> /\ counter = 0 /\ stats = NoStats /\ past = <<>> /\ begun = 0
    /\ page = NewPage("")
    /\ job = [r \in Request |-> None]
    /\ drops = [s \in Source |-> 0]
    /\ told = None
    /\ asked = 0 /\ clears = 0 /\ restarts = 0

Idle(r) == job[r] = None
At(r, place) == ~Idle(r) /\ job[r].at = place
Sum(f) == FoldFunction(+, 0, f)
Ids(seq) == {seq[i].id : i \in DOMAIN seq}

-----------------------------------------------------------------------------
\* Entries.  What is going through the ring, or through the addresses when there is a new one, fails.

Ring(seq) == IF Len(seq) > MaxEntries THEN SubSeq(seq, Len(seq) - MaxEntries + 1, Len(seq)) ELSE seq

Counted(s, e) ==
    IF e.category # "RESPONSE" THEN s
    ELSE [s EXCEPT !.all = @ + 1, !.ip[e.of] = @ + 1, !.status[e.with] = @ + 1]

Broken(j, e) ==
    /\ j # None
    /\ j.at = "scan" \/ (j.at = "rank" /\ e.category = "RESPONSE" /\ stats.ip[e.of] = 0)

Enter(category, r, x, jobs) ==
    LET e == [id |-> counter + 1, category |-> category, of |-> r, with |-> x] IN
    /\ counter' = e.id
    /\ ring' = Ring(Append(ring, e))
    /\ stats' = Counted(stats, e)
    /\ past' = Append(past, e)
    /\ job' = [q \in Request |-> IF Broken(jobs[q], e) THEN [jobs[q] EXCEPT !.broken = TRUE] ELSE jobs[q]]

Goes(r, j) == [job EXCEPT ![r] = j]
Answers(status) == [at |-> "respond", status |-> status, answer |-> None]

\* Before each request.
Begins(r, j) ==
    /\ Idle(r) /\ asked < MaxRequests
    /\ asked' = asked + 1
    /\ Enter("REQUEST", r, None, Goes(r, j))

\* After each request: its answer, if it has one that the page waits for, is on its way.
Respond(r) ==
    /\ At(r, "respond")
    /\ Enter("RESPONSE", r, job[r].status,
             Goes(r, IF job[r].answer = None THEN None ELSE [job[r] EXCEPT !.at = "sent"]))
    /\ UNCHANGED <<begun, page, drops, told, bounds>>

\* Some other request.
Other(r) ==
    /\ \E s \in Status : Begins(r, Answers(s))
    /\ UNCHANGED <<begun, page, drops, told, clears, restarts>>

Refuse(r) ==
    /\ \/ At(r, "poll") \/ At(r, "stats")
       \/ At(r, "collect") /\ job[r].ask = Source /\ job[r].found = <<>>
    /\ Enter("RATE_LIMIT", r, None, Goes(r, Answers("failed")))
    /\ UNCHANGED <<begun, page, drops, told, bounds>>

-----------------------------------------------------------------------------
\* The page asks for what it has not shown yet, every three seconds and when its filter changes.

Matches(e, filter) == filter = "" \/ e.category = filter

\* A slip: the entry that was shown last is asked for again.
BugQuery(since, filter) ==
    SelectSeq(Reverse(ring), LAMBDA e : e.id >= since /\ Matches(e, filter))

Query(since, filter) ==
    SelectSeq(Reverse(ring), LAMBDA e : e.id > since /\ Matches(e, filter))

Poll(r) ==
    /\ Begins(r, [at |-> "poll", since |-> page.last, filter |-> page.filter])
    /\ UNCHANGED <<begun, page, drops, told, clears, restarts>>

\* LAST_ID = 0, the rows are taken away, and the page asks again.
ApplyFilter(r) ==
    /\ \E f \in {"", "RESPONSE"} \ {page.filter} :
        /\ page' = NewPage(f)
        /\ Begins(r, [at |-> "poll", since |-> 0, filter |-> f])
    /\ UNCHANGED <<begun, drops, told, clears, restarts>>

StartScan(r) ==
    /\ At(r, "poll")
    /\ LET all == Query(job[r].since, job[r].filter)
           seen == SubSeq(all, 1, IF Len(all) > Limit THEN Limit ELSE Len(all))
           due == {e \in Range(past) : e.id > job[r].since /\ Matches(e, job[r].filter)}
       IN job' = Goes(r, [at |-> "scan", broken |-> FALSE, since |-> job[r].since, filter |-> job[r].filter,
                          seen |-> seen, left |-> {e.id : e \in due} \ Ids(seen), of |-> begun])
    /\ UNCHANGED <<logVars, begun, page, drops, told, bounds>>

EndScan(r) ==
    /\ At(r, "scan")
    /\ job' = Goes(r, IF job[r].broken THEN Answers("failed")
                      ELSE [Answers("fine") EXCEPT !.answer = job[r]])
    /\ UNCHANGED <<logVars, begun, page, drops, told, bounds>>

\* The rows that the page has after an answer, and the greatest id of them.
With(a) ==
    LET rows == a.seen \o page.rows
        newest == Head(a.seen).id
    IN [page EXCEPT !.last = IF newest > @ THEN newest ELSE @,
                    !.rows = SubSeq(rows, 1, IF Len(rows) > MaxRows THEN MaxRows ELSE Len(rows)),
                    !.of = a.of,
                    !.missed = @ \cup a.left \cup Ids(SubSeq(rows, MaxRows + 1, Len(rows))),
                    !.crossed = @ \/ a.since # page.last \/ a.filter # page.filter
                                  \/ page.of \notin {None, a.of}]

\* An answer without entries changes nothing, and one may be lost.
Arrive(r) ==
    /\ At(r, "sent")
    /\ LET a == job[r].answer IN
       \/ page' = page
       \/ a.at = "scan" /\ a.seen # <<>> /\ page' = With(a)
       \/ a.at = "clear" /\ page' = NewPage(page.filter)
    /\ job' = Goes(r, None)
    /\ UNCHANGED <<logVars, begun, drops, told, bounds>>

-----------------------------------------------------------------------------
\* Statistics: the addresses are ranked, then the totals are read and the table of statuses is
\* taken as it is, which is written out later.

Stats(r) ==
    /\ Begins(r, [at |-> "stats"])
    /\ UNCHANGED <<begun, page, drops, told, clears, restarts>>

StartRank(r) ==
    /\ At(r, "stats")
    /\ job' = Goes(r, [at |-> "rank", broken |-> FALSE, ips |-> Sum(stats.ip), of |-> begun])
    /\ UNCHANGED <<logVars, begun, page, drops, told, bounds>>

EndRank(r) ==
    /\ At(r, "rank")
    /\ job' = Goes(r, IF job[r].broken THEN Answers("failed")
                      ELSE [at |-> "json", ips |-> job[r].ips, all |-> stats.all, same |-> job[r].of = begun,
                            table |-> None])
    /\ UNCHANGED <<logVars, begun, page, drops, told, bounds>>

WriteOut(r) ==
    /\ At(r, "json")
    /\ told' = [ips |-> job[r].ips, all |-> job[r].all, same |-> job[r].same,
                statuses |-> Sum(IF job[r].table = None THEN stats.status ELSE job[r].table)]
    /\ job' = Goes(r, Answers("fine"))
    /\ UNCHANGED <<logVars, begun, page, drops, bounds>>

-----------------------------------------------------------------------------
\* The numbering begins anew.  A table that is being written out stays as it was.

Kept(jobs) ==
    [r \in Request |->
        IF jobs[r] = None THEN None
        ELSE IF jobs[r].at = "json" /\ jobs[r].table = None THEN [jobs[r] EXCEPT !.table = stats.status]
        ELSE IF jobs[r].at = "scan" /\ ring # <<>> THEN [jobs[r] EXCEPT !.broken = TRUE]
        ELSE IF jobs[r].at = "rank" /\ stats.all > 0 THEN [jobs[r] EXCEPT !.of = None]
        ELSE jobs[r]]

AskClear(r) ==
    /\ clears < MaxClears
    /\ Begins(r, [at |-> "clear"])
    /\ clears' = clears + 1
    /\ UNCHANGED <<begun, page, drops, told, restarts>>

\* The page that asked for it begins anew with the answer; others do not hear of it.
Clear(r) ==
    /\ At(r, "clear")
    /\ ring' = <<>> /\ counter' = 0 /\ stats' = NoStats /\ past' = <<>> /\ begun' = begun + 1
    /\ \E answer \in {None, job[r]} :
        job' = [Kept(job) EXCEPT ![r] = [Answers("fine") EXCEPT !.answer = answer]]
    /\ UNCHANGED <<page, drops, told, bounds>>

\* What had not been written is lost, the newest of the rest is loaded and counted.
Restart ==
    /\ restarts < MaxRestarts
    /\ restarts' = restarts + 1 /\ begun' = begun + 1
    /\ \E n \in 0..Len(past) :
        /\ past' = SubSeq(past, 1, n)
        /\ ring' = Ring(past')
        /\ counter' = n
        /\ stats' = FoldLeft(Counted, NoStats, ring')
    /\ job' = [r \in Request |-> None]
    /\ UNCHANGED <<page, drops, told, asked, clears>>

-----------------------------------------------------------------------------
\* Attacks.  A server only counts, and each collection enters what it finds.

Attack(s) ==
    /\ drops[s] < MaxDrops
    /\ drops' = [drops EXCEPT ![s] = @ + 1]
    /\ UNCHANGED <<logVars, begun, page, job, told, bounds>>

Collect(r) ==
    /\ Begins(r, [at |-> "collect", ask |-> Source, found |-> <<>>])
    /\ UNCHANGED <<begun, page, drops, told, clears, restarts>>

\* One command: it tells of nothing when it fails or when nothing was dropped.
Look(r) ==
    /\ At(r, "collect") /\ job[r].ask # {}
    /\ LET s == CHOOSE s \in job[r].ask : TRUE
           j == [job[r] EXCEPT !.ask = @ \ {s}]
       IN \/ job' = Goes(r, j)
          \/ /\ drops[s] > 0
             /\ job' = Goes(r, [j EXCEPT !.found = Append(@, <<s, drops[s]>>)])
    /\ UNCHANGED <<logVars, begun, page, drops, told, bounds>>

\* EmareOS: one command for all counters.
LookAtAll(r) ==
    /\ At(r, "collect") /\ job[r].ask = Source /\ job[r].found = <<>>
    /\ \E dropping \in {{}, {s \in Source : drops[s] > 0}} :
        job' = Goes(r, [job[r] EXCEPT !.ask = {}, !.found = SetToSeq({<<s, drops[s]>> : s \in dropping})])
    /\ UNCHANGED <<logVars, begun, page, drops, told, bounds>>

LookFails(r) ==
    /\ At(r, "collect") /\ job[r].ask # {}
    /\ Enter("ERROR", r, None, Goes(r, Answers("failed")))
    /\ UNCHANGED <<begun, page, drops, told, bounds>>

EnterFound(r) ==
    /\ At(r, "collect") /\ job[r].ask = {}
    /\ IF job[r].found = <<>> THEN job' = Goes(r, Answers("fine")) /\ UNCHANGED logVars
       ELSE Enter("L7", r, Head(job[r].found), Goes(r, [job[r] EXCEPT !.found = Tail(@)]))
    /\ UNCHANGED <<begun, page, drops, told, bounds>>

-----------------------------------------------------------------------------
PageStep(r) ==
    \/ Poll(r) \/ ApplyFilter(r) \/ StartScan(r) \/ EndScan(r) \/ Arrive(r)
    \/ AskClear(r) \/ Clear(r) \/ Refuse(r) \/ Respond(r) \/ Restart

StatsStep(r) ==
    \/ Stats(r) \/ StartRank(r) \/ EndRank(r) \/ WriteOut(r)
    \/ Other(r) \/ AskClear(r) \/ Clear(r) \/ Refuse(r) \/ Respond(r)

CollectStep(r) ==
    \/ Collect(r) \/ Look(r) \/ LookAtAll(r) \/ LookFails(r) \/ EnterFound(r)
    \/ (\E s \in Source : Attack(s)) \/ Refuse(r) \/ Respond(r)

Next == \E r \in Request : PageStep(r) \/ StatsStep(r) \/ CollectStep(r)

-----------------------------------------------------------------------------
\* The page shows what matches its filter, from the newest on, each entry once, and everything up
\* to LAST_ID that no answer left out: unless an answer came that was asked for before the page
\* changed, or the numbering began anew under it.
PageIsComplete ==
    page.crossed \/ page.of \notin {None, begun} \/
        /\ \A i \in 1..Len(page.rows) - 1 : page.rows[i].id > page.rows[i + 1].id
        /\ Ids(page.rows) =
            {e.id : e \in {e \in Range(past) : e.id =< page.last /\ Matches(e, page.filter)}} \ page.missed

\* In an answer with statistics there are no fewer responses by status than there are in all, and,
\* unless the log was cleared in between, no more by address.
StatsAgree == told # None => told.all =< told.statuses /\ (told.same => told.ips =< told.all)

LogIsShown == PageIsComplete /\ StatsAgree

\* "total_blocks" (store.py:331), the sum of what the events tell: each collection adds the
\* counters of the server anew, so that it exceeds what was dropped.
BlocksAreCountedOnce ==
    FoldLeft(LAMBDA n, e : IF e.category = "L7" THEN n + e.with[2] ELSE n, 0, ring) =< Sum(drops)
=============================================================================
