------------------------------- MODULE LogStore -------------------------------
(***************************************************************************)
(* The log of the firewall (emarefirewall/store.py, LogStore) with its     *)
(* 5651 hash chain (emarefirewall/law5651.py, Law5651Stamper): a ring of   *)
(* the newest entries, a buffer that is written to the database in         *)
(* batches, and a stamper that chains every entry to the one before it.    *)
(*                                                                         *)
(* add, clear and verify run under _lock.  The Timer that flushes the      *)
(* buffer does not take it.  The process may stop at any moment; what is   *)
(* in the buffer is then lost and the chain goes on from the database.     *)
(*                                                                         *)
(* An entry stands for its content: "hash" is a number that no other stamp *)
(* has, as a SHA-256 over the previous hash and the content would be, and  *)
(* "stamped" is the id that the hashed content had, so that an entry whose *)
(* id is not that one no longer matches its entry_hash.  The statistics,   *)
(* which only count entries, are left out.                                 *)
(***************************************************************************)
EXTENDS Naturals, Sequences, FiniteSets, SequencesExt

CONSTANTS
    Backend,      \* "sqlite" or "postgres"
    MaxEntries,   \* max_entries, the length of the ring
    FlushSize,    \* _FLUSH_SIZE
    Timer,        \* Timer threads alive at one time: bounds the concurrent flushes
    Buffer,       \* list objects that _write_buf may be
    DbMayFail,    \* may insert_batch raise before it writes anything?
    MaxAdds,      \* bound: entries added
    MaxClears,    \* bound: clears
    MaxRestarts,  \* bound: restarts
    MaxAlterations    \* bound: stored entries altered from outside

ConstantsAssumption ==
    /\ Backend \in {"sqlite", "postgres"}
    /\ MaxEntries \in Nat \ {0} /\ FlushSize \in Nat \ {0, 1}
    /\ {MaxAdds, MaxClears, MaxRestarts, MaxAlterations} \subseteq Nat

VARIABLES
    entries,   \* _entries, oldest first
    counter,   \* _counter
    chain,     \* _chain_index and _last_chain_hash of the stamper
    list,      \* the contents of the list objects
    buf,       \* the list that _write_buf is
    timer,     \* _flush_timer: "none", "armed", or "fired" and about to flush
    flush,     \* where each flush stands, and the list it took
    db,        \* the rows of the table
    sequence,  \* the last id that the sequence of the table gave (PostgreSQL)
    open,      \* the ids inserted by a batch that failed and not committed yet
    stamps,    \* history: how many stamps were made, the last hash
    clears, restarts, alterations

store == <<entries, counter, chain>>
writer == <<list, buf, timer, flush>>
table == <<db, sequence, open>>
bounds == <<clears, restarts, alterations>>
vars == <<store, writer, table, stamps, bounds>>

\* add flushes in its own thread, under the lock.
Adder == "add"
Flusher == Timer \cup {Adder}
NotFlushing == [pc |-> "off", list |-> CHOOSE l \in Buffer : TRUE]

Genesis == 0
Entry == [id : Nat, stamped : Nat, index : 1 .. MaxAdds, prev : 0 .. MaxAdds, hash : 1 .. MaxAdds]

Init ==
    /\ entries = <<>>
    /\ counter = 0
    /\ chain = [index |-> 0, last |-> Genesis]
    /\ list = [l \in Buffer |-> <<>>]
    /\ buf \in Buffer
    /\ timer = "none"
    /\ flush = [f \in Flusher |-> NotFlushing]
    /\ db = {}
    /\ open = {}
    /\ stamps = 0
    /\ sequence = 0
    /\ clears = 0
    /\ restarts = 0
    /\ alterations = 0

Unlocked == flush[Adder].pc = "off"

\* deque(maxlen): the oldest entry makes room for the new one.
Ring(seq) == IF Len(seq) > MaxEntries THEN SubSeq(seq, Len(seq) - MaxEntries + 1, Len(seq)) ELSE seq

(***************************************************************************)
(* add: number, stamp, remember, buffer; then flush or arm the timer       *)
(***************************************************************************)
\* stamp_entry
Stamped(id) ==
    [id |-> id, stamped |-> id, index |-> chain.index + 1, prev |-> chain.last, hash |-> stamps + 1]

Persist(e) ==
    LET buffered == Append(list[buf], e)
    IN  /\ list' = [list EXCEPT ![buf] = buffered]
        /\ IF Len(buffered) >= FlushSize
           THEN flush' = [flush EXCEPT ![Adder].pc = "disarm"] /\ UNCHANGED timer
           ELSE timer' = (IF timer = "none" THEN "armed" ELSE timer) /\ UNCHANGED flush

Add ==
    LET e == Stamped(counter + 1)
    IN  /\ Unlocked
        /\ stamps < MaxAdds
        /\ stamps' = stamps + 1
        /\ counter' = counter + 1
        /\ chain' = [index |-> e.index, last |-> e.hash]
        /\ entries' = Ring(Append(entries, e))
        /\ Persist(e)
        /\ UNCHANGED <<buf, table, bounds>>

(***************************************************************************)
(* _flush_db, in the thread of the timer or of add                         *)
(***************************************************************************)
Fire(t) ==
    /\ timer = "armed"
    /\ flush[t].pc = "off"
    /\ timer' = "fired"
    /\ flush' = [flush EXCEPT ![t].pc = "disarm"]
    /\ UNCHANGED <<store, list, buf, table, stamps, bounds>>

\* if self._flush_timer is not None
TestTimer(f) ==
    /\ flush[f].pc = "disarm"
    /\ flush' = [flush EXCEPT ![f].pc = IF timer = "none" THEN "take" ELSE "cancel"]
    /\ UNCHANGED <<store, list, buf, timer, table, stamps, bounds>>

\* Another flush may have disarmed the timer since: None has no cancel, and this flush
\* ends with an AttributeError.
Disarm(f) ==
    /\ flush[f].pc = "cancel"
    /\ timer' = "none"
    /\ flush' = [flush EXCEPT ![f] = IF timer = "none" THEN NotFlushing ELSE [@ EXCEPT !.pc = "take"]]
    /\ UNCHANGED <<store, list, buf, table, stamps, bounds>>

\* buf = self._write_buf
Take(f) ==
    /\ flush[f].pc = "take"
    /\ flush' = [flush EXCEPT ![f] = [pc |-> "swap", list |-> buf]]
    /\ UNCHANGED <<store, list, buf, timer, table, stamps, bounds>>

\* self._write_buf = []: a list object that nobody refers to
Swap(f) ==
    /\ flush[f].pc = "swap"
    /\ \E fresh \in Buffer :
        /\ fresh # buf
        /\ \A g \in Flusher : flush[g].pc \in {"swap", "insert"} => flush[g].list # fresh
        /\ buf' = fresh
        /\ list' = [list EXCEPT ![fresh] = <<>>]
    /\ flush' = [flush EXCEPT ![f].pc = "insert"]
    /\ UNCHANGED <<store, timer, table, stamps, bounds>>

\* SQLite inserts the ids of the entries, up to the first that the table has already;
\* PostgreSQL is not given them and numbers the rows itself.
Rows(batch) ==
    LET Clash(i) == \/ \E e \in db : e.id = batch[i].id
                    \/ \E j \in 1 .. i - 1 : batch[j].id = batch[i].id
    IN  IF Backend = "sqlite"
        THEN {batch[i] : i \in {i \in DOMAIN batch : \A j \in 1 .. i : ~Clash(j)}}
        ELSE {[batch[i] EXCEPT !.id = sequence + i] : i \in DOMAIN batch}

\* insert_batch: after a clash the rows before it wait for the next commit, and the rest
\* of the batch is dropped.
Insert(f) ==
    /\ flush[f].pc = "insert"
    /\ LET batch == list[flush[f].list]
           rows == Rows(batch)
       IN  \/ /\ db' = db \cup rows
              /\ sequence' = IF Backend = "postgres" THEN sequence + Len(batch) ELSE sequence
              /\ open' = IF Cardinality(rows) = Len(batch) THEN {}
                         ELSE open \cup {e.id : e \in rows}
           \/ /\ DbMayFail
              /\ UNCHANGED table
    /\ flush' = [flush EXCEPT ![f] = NotFlushing]
    /\ UNCHANGED <<store, list, buf, timer, stamps, bounds>>

(***************************************************************************)
(* clear: the buffer and the stamper are not touched                       *)
(***************************************************************************)
Clear ==
    /\ Unlocked
    /\ clears < MaxClears
    /\ clears' = clears + 1
    /\ entries' = <<>>
    /\ counter' = 0
    /\ db' = {}
    /\ open' = {}
    /\ UNCHANGED <<chain, writer, sequence, stamps, restarts, alterations>>

(***************************************************************************)
(* The process stops and starts again                                      *)
(***************************************************************************)
\* load_recent: the newest rows by id, oldest first.
Rank(e, rows) == Cardinality({d \in rows : d.id <= e.id})
LoadRecent(rows) == Ring([i \in 1 .. Cardinality(rows) |-> CHOOSE e \in rows : Rank(e, rows) = i])

HighestId(seq) == IF seq = <<>> THEN 0 ELSE Last(seq).id

\* Mutant of Restored: the stamper begins a chain of its own.
BugRestored(seq) == [index |-> 0, last |-> Genesis]

\* restore_from_entries on a new stamper: the greatest chain_index wins.
Restored(seq) ==
    IF seq = <<>> THEN [index |-> 0, last |-> Genesis]
    ELSE LET newest == CHOOSE e \in ToSet(seq) : \A o \in ToSet(seq) : o.index <= e.index
         IN  [index |-> newest.index, last |-> newest.hash]

\* Rows that were not committed are gone, _cleanup_old_logs deletes the rows older than
\* the retention period, and the rest is loaded.
Restart ==
    /\ restarts < MaxRestarts
    /\ restarts' = restarts + 1
    /\ \E cutoff \in 0 .. stamps :
        db' = {e \in db : e.id \notin open /\ e.hash > cutoff}
    /\ open' = {}
    /\ entries' = LoadRecent(db')
    /\ counter' = HighestId(entries')
    /\ chain' = Restored(entries')
    /\ list' = [l \in Buffer |-> <<>>]
    /\ timer' = "none"
    /\ flush' = [f \in Flusher |-> NotFlushing]
    /\ UNCHANGED <<buf, sequence, stamps, clears, alterations>>

\* A stored row is changed by something else than the log.
Alter(e) ==
    /\ alterations < MaxAlterations
    /\ alterations' = alterations + 1
    /\ db' = (db \ {e}) \cup {[e EXCEPT !.stamped = 0]}
    /\ UNCHANGED <<store, writer, sequence, open, stamps, clears, restarts>>

FlushStep(f) == TestTimer(f) \/ Disarm(f) \/ Take(f) \/ Swap(f) \/ Insert(f)

Next ==
    \/ Add
    \/ \E t \in Timer : Fire(t)
    \/ \E f \in Flusher : FlushStep(f)
    \/ Clear
    \/ Restart
    \/ \E e \in db : Alter(e)

Spec == Init /\ [][Next]_vars

(***************************************************************************)
(* verify_5651_chain on the newest entries: content, link, one after the   *)
(* other from the genesis hash.  The sort by id changes nothing, since the *)
(* ring is sorted (RingIsSorted).                                          *)
(***************************************************************************)

Verified(seq) ==
    \A i \in DOMAIN seq :
        /\ seq[i].stamped = seq[i].id
        /\ seq[i].prev = IF i = 1 THEN Genesis ELSE seq[i - 1].hash

Newest(limit) == SubSeq(entries, IF Len(entries) > limit THEN Len(entries) - limit + 1 ELSE 1, Len(entries))

-----------------------------------------------------------------------------
TypeOK ==
    /\ entries \in Seq(Entry) /\ Len(entries) <= MaxEntries
    /\ counter \in Nat
    /\ chain \in [index : 0 .. MaxAdds, last : 0 .. MaxAdds]
    /\ list \in [Buffer -> Seq(Entry)]
    /\ buf \in Buffer
    /\ timer \in {"none", "armed", "fired"}
    /\ flush \in [Flusher -> [pc : {"off", "disarm", "cancel", "take", "swap", "insert"}, list : Buffer]]
    /\ db \subseteq Entry
    /\ sequence \in Nat
    /\ open \subseteq {e.id : e \in db}
    /\ stamps \in 0 .. MaxAdds
    /\ clears \in 0 .. MaxClears /\ restarts \in 0 .. MaxRestarts /\ alterations \in 0 .. MaxAlterations

\* The ids of the ring increase strictly, across clears, restarts and lost batches, up to
\* the counter: no two entries of the ring have the same id, and the polls by since_id
\* miss nothing.
RingIsSorted ==
    /\ \A i, j \in DOMAIN entries : i < j => entries[i].id < entries[j].id
    /\ entries # <<>> => counter = Last(entries).id

\* As long as the log has not been cleared, the stored chain of SQLite never forks: whatever
\* batches were lost and wherever the process stopped, no two rows follow the same row.  (In
\* PostgreSQL it may: the rows of two flushes are numbered in the order of their inserts, and the
\* newest by that order is not the last of the chain.)
StoredChainDoesNotFork ==
    Backend = "sqlite" /\ clears = 0 => \A d, e \in db : d.prev = e.prev => d.hash = e.hash

\* What verification accepts is a chain without a gap from its first entry on, in which
\* every entry is as it was stamped, after any losses, alterations and clears.
VerifiedIsComplete ==
    Verified(entries) => \A i \in DOMAIN entries :
        entries[i].index = i /\ entries[i].stamped = entries[i].id

\* What is stored and shown is in the order in which it was stamped, and verified only if whole.
ChainIsSound == RingIsSorted /\ StoredChainDoesNotFork /\ VerifiedIsComplete

\* No entry is left in the write buffer with nobody to take it from there: a timer is set,
\* or a flush has yet to read the buffer, even if two flushes disarm the timer at a time
\* and one of them fails.
BufferIsAwaited ==
    list[buf] # <<>> =>
        timer # "none" \/ \E f \in Flusher : flush[f].pc \in {"take", "swap"}

\* The log keeps what it was given in order, and keeps the writing of it going.
LogIsSound == ChainIsSound /\ BufferIsAwaited

Buffered == UNION ({ToSet(list[buf])} \cup
    {ToSet(list[flush[f].list]) : f \in {f \in Flusher : flush[f].pc \in {"swap", "insert"}}})

\* "Thread-safe in-memory ring buffer + kalici depolama backend'i" (store.py:24): an entry
\* of the ring is in the database or on its way there.
NothingIsDropped ==
    \A e \in ToSet(entries) : \E o \in Buffered \cup db : o.hash = e.hash

\* "Zincir butunlugu API uzerinden dogrulanabilir" (emarefirewall/README.md:76): the
\* verification accepts a chain that nothing has been taken from or changed in.
IntactIsAccepted == Verified(entries)

\* Nothing the database holds differs from what was stamped, unless it was altered there.
RowsAreAsStamped == alterations = 0 => \A e \in db : e.stamped = e.id

=============================================================================
