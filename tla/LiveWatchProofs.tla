--------------------------- MODULE LiveWatchProofs ---------------------------
(* Proofs of the safety properties of LiveWatch for any number of sessions and watchers. *)
EXTENDS LiveWatch, TLAPS

\* The inductive invariant holds in the initial states: no watcher exists yet.
LEMMA InitIInv == Init => IInv
  BY NoneAssumption, SMTT(30) DEF Init, IInv, TypeOK, EntriesAreLive, PoppedOnce, UnregisteredUntouched, Phase

\* The steps of a watch_start handler keep the invariant.
LEMMA HandlerIInv ==
  ASSUME IInv, NEW w \in Watcher, WatchStart(w) \/ HandlerStep(w)
  PROVE  IInv'
<1> USE NoneAssumption DEF IInv, TypeOK, Phase, Handler, Thread, Goto
<1>1. CASE WatchStart(w)
  BY <1>1, SMTT(60) DEF WatchStart, EntriesAreLive, PoppedOnce, UnregisteredUntouched, Running
<1>2. CASE PopPrevious(w)
  BY <1>2, SMTT(60) DEF PopPrevious, EntriesAreLive, PoppedOnce, UnregisteredUntouched, Running
<1>3. CASE SignalPrevious(w)
  BY <1>3, SMTT(60) DEF SignalPrevious, EntriesAreLive, PoppedOnce, UnregisteredUntouched, Running
<1>4. CASE Register(w)
  BY <1>4, SMTT(60) DEF Register, EntriesAreLive, PoppedOnce, UnregisteredUntouched, Running
<1>5. CASE StartThread(w)
  BY <1>5, SMTT(60) DEF StartThread, EntriesAreLive, PoppedOnce, UnregisteredUntouched, Running
<1> QED BY <1>1, <1>2, <1>3, <1>4, <1>5 DEF HandlerStep

\* So do the steps of a watcher's thread; only Cleanup changes a registration.
LEMMA ThreadIInv ==
  ASSUME IInv, NEW w \in Watcher, ThreadStep(w)
  PROVE  IInv'
<1> USE NoneAssumption DEF IInv, TypeOK, Phase, Handler, Thread, Goto
<1>1. CASE TestStop(w)
  BY <1>1, SMTT(60) DEF TestStop, EntriesAreLive, PoppedOnce, UnregisteredUntouched, Running
<1>2. CASE CheckConnection(w)
  BY <1>2, SMTT(60) DEF CheckConnection, EntriesAreLive, PoppedOnce, UnregisteredUntouched, Running
<1>3. CASE Execute(w)
  BY <1>3, SMTT(60) DEF Execute, EntriesAreLive, PoppedOnce, UnregisteredUntouched, Running
<1>4. CASE Wake(w)
  BY <1>4, SMTT(60) DEF Wake, EntriesAreLive, PoppedOnce, UnregisteredUntouched, Running
<1>5. CASE Cleanup(w)
  BY <1>5, SMTT(60) DEF Cleanup, EntriesAreLive, PoppedOnce, UnregisteredUntouched, Running
<1> QED BY <1>1, <1>2, <1>3, <1>4, <1>5 DEF ThreadStep

\* watch_stop and disconnect pop an entry, and signal it later.
LEMMA StopIInv ==
  ASSUME IInv,
         \/ \E s \in Sid : WatchStop(s) \/ Disconnect(s)
         \/ \E w \in Watcher : SignalPopped(w)
         \/ ConnectionChanges
  PROVE  IInv'
<1> USE NoneAssumption DEF IInv, TypeOK, Phase, Handler, Thread
<1>1. ASSUME NEW s \in Sid, WatchStop(s) PROVE IInv'
  BY <1>1, SMTT(60) DEF WatchStop, PopActive, EntriesAreLive, PoppedOnce, UnregisteredUntouched, Running
<1>2. ASSUME NEW s \in Sid, Disconnect(s) PROVE IInv'
  BY <1>2, SMTT(60) DEF Disconnect, PopActive, EntriesAreLive, PoppedOnce, UnregisteredUntouched, Running
<1>3. ASSUME NEW w \in Watcher, SignalPopped(w) PROVE IInv'
  BY <1>3, SMTT(60) DEF SignalPopped, EntriesAreLive, PoppedOnce, UnregisteredUntouched, Running
<1>4. CASE ConnectionChanges
  BY <1>4, SMTT(60) DEF ConnectionChanges, EntriesAreLive, PoppedOnce, UnregisteredUntouched, Running
<1> QED BY <1>1, <1>2, <1>3, <1>4

LEMMA NextIInv == IInv /\ [Next]_vars => IInv'
<1> SUFFICES ASSUME IInv, [Next]_vars PROVE IInv'
  OBVIOUS
<1>1. CASE UNCHANGED vars
  BY <1>1 DEF vars, IInv, TypeOK, EntriesAreLive, PoppedOnce, UnregisteredUntouched, Running
<1>2. CASE Next
  BY <1>2, HandlerIInv, ThreadIInv, StopIInv DEF Next
<1> QED BY <1>1, <1>2

\* The tables of handlers, threads and registrations are well formed for any number of
\* sessions and watchers: a registration names a watcher.
THEOREM TypeCorrect == Spec => []TypeOK
<1>1. IInv => TypeOK
  BY DEF IInv
<1> QED
  BY InitIInv, NextIInv, <1>1, PTL DEF Spec

\* Whatever the interleaving of the handlers and the threads, _active_watchers holds no
\* entry of a finished watcher and none whose stop event is set, and no two handlers ever
\* hold the same watcher to signal it.
THEOREM OwnedWatchers == Spec => []WatchersAreOwned
<1>1. IInv => WatchersAreOwned
  BY DEF IInv, WatchersAreOwned
<1> QED BY <1>1, InitIInv, NextIInv, PTL DEF Spec
=============================================================================
