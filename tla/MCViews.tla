------------------------------ MODULE MCViews ------------------------------
(***************************************************************************)
(* What a browser follows, in parts: the live watches of the terminal, and *)
(* what is shown of the firewall's log: the page, the statistics and the   *)
(* attacks.  A behaviour is one of a single part, the others stay as they  *)
(* begin.                                                                  *)
(***************************************************************************)
EXTENDS LiveWatch

CONSTANTS Request, Source, MaxEntries, Limit, MaxRows, MaxRequests, MaxDrops, MaxClears, MaxRestarts

VARIABLES part, ring, counter, stats, past, begun, page, job, drops, told, asked, clears, restarts

View == INSTANCE LogPage

viewVars == <<ring, counter, stats, past, begun, page, job, drops, told, asked, clears, restarts>>

ViewsInit ==
    /\ part \in {"watch", "page", "statistics", "attacks"}
    /\ Init /\ View!Init
    /\ part # "watch" => \A w, v \in Watcher : sid[w] = sid[v]

ViewsNext ==
    /\ part' = part
    /\ \/ part = "watch" /\ Next /\ UNCHANGED viewVars
       \/ part = "page" /\ (\E r \in Request : View!PageStep(r)) /\ UNCHANGED vars
       \/ part = "statistics" /\ (\E r \in Request : View!StatsStep(r)) /\ UNCHANGED vars
       \/ part = "attacks" /\ (\E r \in Request : View!CollectStep(r)) /\ UNCHANGED vars

\* Nothing is said of what the requests to the log must do.
ViewsSpec == ViewsInit /\ [][ViewsNext]_<<part, vars, viewVars>> /\ Fairness

\* Whatever is added, cleared and asked for meanwhile, the page shows the log up to where it
\* stands, and an answer with statistics agrees with itself.
LogIsShown == View!LogIsShown
=============================================================================
