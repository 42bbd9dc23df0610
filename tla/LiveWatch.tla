------------------------------ MODULE LiveWatch ------------------------------
(***************************************************************************)
(* The live watches of the web terminal (routes/terminal.py).              *)
(*                                                                         *)
(* A socket session asks for a command to be repeated every few seconds.   *)
(* Each accepted request creates a watcher: an entry of _active_watchers,   *)
(* a stop event, and a thread that loops until the event is set or the SSH *)
(* connection is lost.  The handlers of one session run concurrently with  *)
(* one another and with the threads; only the pops and the writes of       *)
(* _active_watchers are under _watcher_lock, the Event is set outside it.   *)
(*                                                                         *)
(* One element of Watcher stands for one accepted watch_start request: its *)
(* handler first, then the thread that the handler starts.                 *)
(***************************************************************************)
EXTENDS Naturals, FiniteSets

CONSTANTS
    Sid,        \* socket sessions
    Watcher,    \* accepted watch_start requests: bounds how many are made
    None        \* no watcher

ASSUME NoneAssumption == None \notin Watcher

VARIABLES
    active,     \* _active_watchers: the watcher registered for a session
    open,       \* the sessions whose socket is connected
    sid,        \* the session each watcher was created for
    stop,       \* the watchers whose stop_event is set
    pc,         \* where the handler, then the thread, of a watcher stands
    prev,       \* what a handler popped and has yet to signal
    popped,     \* popped by watch_stop or disconnect, and not signalled yet
    connected   \* ssh_mgr.is_connected of the watched server

vars == <<active, open, sid, stop, pc, prev, popped, connected>>

Handler == {"replacing", "signalling", "creating", "registered"}
Thread  == {"testing", "checking", "executing", "waiting", "cleaning"}
Phase   == {"unused", "done"} \cup Handler \cup Thread

Init ==
    /\ active = [s \in Sid |-> None]
    /\ open = Sid
    /\ sid \in [Watcher -> Sid]
    /\ stop = {}
    /\ pc = [w \in Watcher |-> "unused"]
    /\ prev = [w \in Watcher |-> None]
    /\ popped = {}
    /\ connected = TRUE

Goto(w, from, to) == pc[w] = from /\ pc' = [pc EXCEPT ![w] = to]

(***************************************************************************)
(* watch_start                                                             *)
(***************************************************************************)
\* The checks of the handler pass: an authorised command on a connected server.
WatchStart(w) ==
    /\ sid[w] \in open
    /\ connected
    /\ Goto(w, "unused", "replacing")
    /\ UNCHANGED <<active, open, sid, stop, prev, popped, connected>>

\* _stop_watcher: the pop under the lock ...
PopPrevious(w) ==
    /\ Goto(w, "replacing", "signalling")
    /\ prev' = [prev EXCEPT ![w] = active[sid[w]]]
    /\ active' = [active EXCEPT ![sid[w]] = None]
    /\ UNCHANGED <<open, sid, stop, popped, connected>>

\* ... and the signal after it has been released.
SignalPrevious(w) ==
    /\ Goto(w, "signalling", "creating")
    /\ stop' = stop \cup ({prev[w]} \ {None})
    /\ prev' = [prev EXCEPT ![w] = None]
    /\ UNCHANGED <<active, open, sid, popped, connected>>

Register(w) ==
    /\ Goto(w, "creating", "registered")
    /\ active' = [active EXCEPT ![sid[w]] = w]
    /\ UNCHANGED <<open, sid, stop, prev, popped, connected>>

StartThread(w) ==
    /\ Goto(w, "registered", "testing")
    /\ UNCHANGED <<active, open, sid, stop, prev, popped, connected>>

(***************************************************************************)
(* _run_watcher                                                            *)
(***************************************************************************)
\* while not stop_event.is_set()
TestStop(w) ==
    /\ pc[w] = "testing"
    /\ pc' = [pc EXCEPT ![w] = IF w \in stop THEN "cleaning" ELSE "checking"]
    /\ UNCHANGED <<active, open, sid, stop, prev, popped, connected>>

\* Mutant of CheckConnection: the break is missing.
BugCheckConnection(w) ==
    /\ pc[w] = "checking"
    /\ pc' = [pc EXCEPT ![w] = IF connected THEN "executing" ELSE "waiting"]
    /\ UNCHANGED <<active, open, sid, stop, prev, popped, connected>>

\* A lost connection is reported and ends the loop.
CheckConnection(w) ==
    /\ pc[w] = "checking"
    /\ pc' = [pc EXCEPT ![w] = IF connected THEN "executing" ELSE "cleaning"]
    /\ UNCHANGED <<active, open, sid, stop, prev, popped, connected>>

Execute(w) ==
    /\ Goto(w, "executing", "waiting")
    /\ UNCHANGED <<active, open, sid, stop, prev, popped, connected>>

\* stop_event.wait(interval): returns when the event is set or the time is over.
Wake(w) ==
    /\ Goto(w, "waiting", "testing")
    /\ UNCHANGED <<active, open, sid, stop, prev, popped, connected>>

\* Mutant of Cleanup: the thread leaves its entry behind.
BugCleanup(w) ==
    /\ Goto(w, "cleaning", "done")
    /\ UNCHANGED <<active, open, sid, stop, prev, popped, connected>>

\* The thread pops the entry of its session, whichever watcher it names.
Cleanup(w) ==
    /\ Goto(w, "cleaning", "done")
    /\ active' = [active EXCEPT ![sid[w]] = None]
    /\ UNCHANGED <<open, sid, stop, prev, popped, connected>>

(***************************************************************************)
(* watch_stop and disconnect, each of them _stop_watcher(sid)              *)
(***************************************************************************)
PopActive(s) ==
    /\ active' = [active EXCEPT ![s] = None]
    /\ popped' = popped \cup ({active[s]} \ {None})

WatchStop(s) ==
    /\ s \in open
    /\ active[s] # None
    /\ PopActive(s)
    /\ UNCHANGED <<open, sid, stop, pc, prev, connected>>

Disconnect(s) ==
    /\ s \in open
    /\ open' = open \ {s}
    /\ PopActive(s)
    /\ UNCHANGED <<sid, stop, pc, prev, connected>>

SignalPopped(w) ==
    /\ w \in popped
    /\ popped' = popped \ {w}
    /\ stop' = stop \cup {w}
    /\ UNCHANGED <<active, open, sid, pc, prev, connected>>

(***************************************************************************)
(* The SSH connection of the watched server comes and goes.                *)
(***************************************************************************)
ConnectionChanges ==
    /\ connected' = ~connected
    /\ UNCHANGED <<active, open, sid, stop, pc, prev, popped>>

ThreadStep(w) ==
    TestStop(w) \/ CheckConnection(w) \/ Execute(w) \/ Wake(w) \/ Cleanup(w)

HandlerStep(w) ==
    PopPrevious(w) \/ SignalPrevious(w) \/ Register(w) \/ StartThread(w)

Next ==
    \/ \E w \in Watcher : WatchStart(w) \/ HandlerStep(w) \/ ThreadStep(w) \/ SignalPopped(w)
    \/ \E s \in Sid : WatchStop(s) \/ Disconnect(s)
    \/ ConnectionChanges

\* Threads and handlers that have begun are scheduled; nobody has to make a request.
Fairness ==
    \A w \in Watcher : WF_vars(HandlerStep(w)) /\ WF_vars(ThreadStep(w)) /\ WF_vars(SignalPopped(w))

Spec == Init /\ [][Next]_vars /\ Fairness

Running(w) == pc[w] \in Thread \cup {"registered"}

-----------------------------------------------------------------------------
TypeOK ==
    /\ active \in [Sid -> Watcher \cup {None}]
    /\ open \subseteq Sid
    /\ sid \in [Watcher -> Sid]
    /\ stop \subseteq Watcher
    /\ pc \in [Watcher -> Phase]
    /\ prev \in [Watcher -> Watcher \cup {None}]
    /\ popped \subseteq Watcher
    /\ connected \in BOOLEAN

\* An entry of _active_watchers names a watcher of its own session whose thread has
\* not finished and whose stop event nobody has set or is about to set: the registration
\* before the start of the thread and the pops under the lock leave no stale entry.
EntriesAreLive ==
    \A s \in Sid : active[s] # None =>
        /\ sid[active[s]] = s
        /\ Running(active[s])
        /\ active[s] \notin stop \cup popped
        /\ \A w \in Watcher : prev[w] # active[s]

\* A watcher is taken out of _active_watchers to be stopped by one handler only.
PoppedOnce ==
    \A v, w \in Watcher :
        /\ prev[w] # None => prev[w] \notin popped \cup stop
        /\ prev[v] = prev[w] /\ prev[v] # None => v = w

\* A watcher that is not registered yet cannot be reached by any handler.
UnregisteredUntouched ==
    \A w \in Watcher : pc[w] \in {"unused", "replacing", "signalling", "creating"} =>
        /\ w \notin stop \cup popped
        /\ \A v \in Watcher : prev[v] # w

\* However handlers and threads interleave, a watch is named by its session's entry or by one
\* handler that has popped it, never by two, and an entry names none that has ended or is to end.
WatchersAreOwned == EntriesAreLive /\ PoppedOnce

\* The inductive invariant behind WatchersAreOwned.
IInv == TypeOK /\ EntriesAreLive /\ PoppedOnce /\ UnregisteredUntouched

\* A watcher that was told to stop ends, even when it was told so between the creation
\* of its event and the start of its thread; and when the server stays unreachable every
\* watch of it ends.
WatchesEnd ==
    /\ \A w \in Watcher : (w \in stop) ~> (pc[w] = "done")
    /\ (<>[](~connected)) => <>[](\A w \in Watcher : ~Running(w))

\* "Baglanti koptugunda watcher'i da durdur" (routes/terminal.py:217): the watchers of a
\* session that has been disconnected end.
DisconnectEnds ==
    \A w \in Watcher : (sid[w] \notin open /\ Running(w)) ~> ~Running(w)
=============================================================================
