------------------------------ MODULE MCStores ------------------------------
(***************************************************************************)
(* What is stored, in parts: the tenants of the firewall service with what *)
(* belongs to them, its log, the users of the panel, its data centres, the *)
(* sites of its customers, and what is done about alarms: tickets,         *)
(* playbooks with the threats they enter, cases, and scores.  A behaviour  *)
(* is one of a single part, the others stay as they begin.                 *)
(***************************************************************************)
EXTENDS Tenants, TLC

CONSTANTS
    Backend, MaxEntries, FlushSize, Timer, Buffer, DbMayFail,
    MaxAdds, MaxClears, MaxRestarts, MaxAlterations,
    User, Code, MaxTokens, MaxSecret, MaxRequests,
    Slug, File,
    Organization, Org, MaxCreated, MaxFaults,
    TicketStatus, Playbook, Points, Full, Keep,
    MaxTickets, MaxThreats, MaxBooks, MaxRuns, MaxCases, MaxTimeline

VARIABLES
    part,
    entries, counter, chain, list, buf, timer, flush, db, sequence, open, stamps,
    clears, restarts, alterations,
    role, active, factor, tokens, issued, req, secrets, requests, proved, spent, mixed, ousted,
    database, centre, created, of, access, stood, blind,
    listed, site, saved, upload, served, overlapped, faults,
    alone, tickets, threats, given, tasks, playbooks, runs, cases, timeline, evidence, risk, job,
    added, shown, due, crossed

\* The servers are not of the organization that a request may come from.
OrgOfServer == [s \in Name |-> 2]

OneServerEach == [p \in Plan |-> 1]

Log == INSTANCE LogStore
Account == INSTANCE Accounts

Centre == INSTANCE DataCenters WITH
    Server <- Name, Request <- Worker, Code <- Server, request <- access

Site == INSTANCE WebSites WITH
    Request <- Worker, row <- listed, request <- upload, mixed <- overlapped

\* Two playbooks: one that succeeds, and one that breaks off.
TwoPlaybooks == {<<"block_ip", "create_ticket">>, <<"create_ticket", "unknown", "run_task", "malformed">>}

Response == INSTANCE RmmResponse WITH
    Note <- Code, Status <- TicketStatus, Indicator <- File, Device <- User, Plan <- Playbook

logVars == <<entries, counter, chain, list, buf, timer, flush, db, sequence, open, stamps,
             clears, restarts, alterations>>
accountVars == <<role, active, factor, tokens, issued, req, secrets, requests, proved, spent,
                 mixed, ousted>>
centreVars == <<database, centre, created, of, access, stood, blind>>
siteVars == <<listed, site, saved, upload, served, overlapped, faults>>
responseVars == <<alone, tickets, threats, given, tasks, playbooks, runs, cases, timeline, evidence,
                  risk, job, added, shown, due, crossed>>

ASSUME PartsAssumption ==
    /\ ConstantsAssumption /\ Log!ConstantsAssumption
    /\ Account!ConstantsAssumption /\ Centre!ConstantsAssumption /\ Response!ConstantsAssumption

\* The buffers of the log are alike: it begins with one of them.
StoresInit ==
    /\ part \in {"tenants", "log", "accounts", "centres", "sites", "tickets", "books", "cases", "scores"}
    /\ Init /\ Log!Init /\ Account!Init /\ Centre!Init /\ Site!Init /\ Response!Init
    /\ part \notin {"books", "scores"} => alone
    /\ part # "tenants" => store = "memory"
    /\ buf = CHOOSE l \in Buffer : TRUE
    /\ part # "accounts" => \A u \in User : role[u] = "other" \/ u = CHOOSE v \in User : TRUE
    /\ part # "centres" => database = "sqlite"

StoresNext ==
    /\ part' = part
    /\ \/ part = "tenants" /\ Next /\ UNCHANGED <<logVars, accountVars, centreVars, siteVars, responseVars>>
       \/ part = "log" /\ Log!Next /\ UNCHANGED <<vars, accountVars, centreVars, siteVars, responseVars>>
       \/ part = "accounts" /\ Account!Next /\ UNCHANGED <<vars, logVars, centreVars, siteVars, responseVars>>
       \/ part = "centres" /\ Centre!Next /\ UNCHANGED <<vars, logVars, accountVars, siteVars, responseVars>>
       \/ part = "sites" /\ Site!Next /\ UNCHANGED <<vars, logVars, accountVars, centreVars, responseVars>>
       \/ /\ part = "tickets" /\ \E w \in Worker : Response!TicketStep(w)
          /\ UNCHANGED <<vars, logVars, accountVars, centreVars, siteVars, alone>>
       \/ /\ part = "books" /\ \E w \in Worker : Response!ThreatStep(w) \/ Response!BookStep(w)
          /\ UNCHANGED <<vars, logVars, accountVars, centreVars, siteVars, alone>>
       \/ /\ part = "cases" /\ \E w \in Worker : Response!CaseStep(w)
          /\ UNCHANGED <<vars, logVars, accountVars, centreVars, siteVars, alone>>
       \/ /\ part = "scores" /\ \E w \in Worker : Response!RiskStep(w)
          /\ UNCHANGED <<vars, logVars, accountVars, centreVars, siteVars, alone>>

StoresSpec ==
    StoresInit
        /\ [][StoresNext]_<<part, vars, logVars, accountVars, centreVars, siteVars, responseVars>>

Symmetry == Permutations(Worker) \cup Permutations(Server)

\* The state of a part that does not run is that of an initial state, where the part may run.
LogIsSound              == part = "log" => Log!LogIsSound
AccountsAreSound        == part = "accounts" => Account!AccountsAreSound
ServersStandWherePlaced == part = "centres" => Centre!ServersStandWherePlaced
SitesAreWhole           == part = "sites" => Site!SitesAreWhole
ResponsesAreOnRecord    == part \in {"tickets", "books", "cases", "scores"} => Response!ResponsesAreOnRecord
=============================================================================
