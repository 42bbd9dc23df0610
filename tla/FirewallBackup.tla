---------------------------- MODULE FirewallBackup ----------------------------
(***************************************************************************)
(* Backups of a server's firewall (emarefirewall/manager.py,               *)
(* backup_firewall, restore_firewall and delete_backup): they are files on *)
(* that server, read and written section by section over SSH while other   *)
(* operators change the firewall or do the same.                           *)
(*                                                                         *)
(* A section is a file of ufw or firewalld, or a table of Emare OS (the    *)
(* table "filter" a restore fills is taken for the one "rules" a backup    *)
(* reads); its content is a value without structure.                       *)
(***************************************************************************)
EXTENDS Integers, Sequences, FiniteSets

CONSTANTS
    Operator, Content,
    MaxCalls, MaxFailures, MaxNow,  \* bounds: calls, commands that fail, seconds
    None                            \* no content, no file, no call

VARIABLES
    kind, conf,     \* the firewall: its kind, the content of each of its sections
    files,          \* the backups: what the file of an id says
    op, now, calls, failures,
    before          \* the configurations that a restore began with, by the id of its own backup

vars == <<kind, conf, files, op, now, calls, failures, before>>

Sections ==
    CASE kind = "ufw" -> <<"user", "user6", "before">>
      [] kind = "firewalld" -> <<"zone", "direct">>
      [] kind = "emareos" -> <<"filter", "lists", "services">>

\* The sections that are put back.
Restored == {"user", "user6", "zone", "direct", "filter", "lists"}

SectionName == {"user", "user6", "before", "zone", "direct", "filter", "lists", "services"}

ConstantsAssumption == None \notin [SectionName -> Content \cup {None}]

\* An id holds the name and the second.
Ids == {"auto", "pre_restore"} \X (0 .. MaxNow)

Nothing == [s \in SectionName |-> None]

Init ==
    /\ kind \in {"ufw", "firewalld", "emareos"}
    /\ conf \in {[s \in SectionName |-> IF s \in {"user", "zone", "filter"} THEN c ELSE None] : c \in Content}
    /\ files = [i \in Ids |-> None]
    /\ op = [o \in Operator |-> None]
    /\ now = 0 /\ calls = 0 /\ failures = 0
    /\ before = [i \in Ids |-> {}]

-----------------------------------------------------------------------------
Busy(o) == op[o] # None

\* Mutant of Backup: the last section is not read.
BugBackup(name) == [i \in 1 .. Len(Sections) - 1 |-> <<"read", Sections[i]>>] \o <<<<"write", name>>>>

Backup(name) == [i \in DOMAIN Sections |-> <<"read", Sections[i]>>] \o <<<<"write", name>>>>

\* Only what has content is put back: on Emare OS the table is cleared, then filled.
Restore(saved) ==
    LET todo(s) == CASE saved[s] = None \/ s \notin Restored -> <<>>
                     [] saved[s] # None /\ s \in Restored /\ s = "filter" -> <<<<"put", s, None>>, <<"put", s, saved[s]>>>>
                     [] OTHER -> <<<<"put", s, saved[s]>>>>
    IN  todo(Sections[1]) \o todo(Sections[2])

Begin(o, what, id) ==
    /\ ~Busy(o) /\ calls < MaxCalls /\ calls' = calls + 1
    /\ op' = [op EXCEPT ![o] =
          [what |-> what, id |-> id, own |-> None, read |-> Nothing, start |-> None, ok |-> TRUE,
           todo |-> CASE what = "backup" -> Backup("auto")
                      [] what = "restore" -> <<<<"load", id>>>>
                      [] what = "delete" -> <<<<"delete", id>>>>]]
    /\ UNCHANGED <<kind, conf, files, now, failures, before>>

Command(o) == Head(op[o].todo)
Next1(o, f) == op' = [op EXCEPT ![o] = [f EXCEPT !.todo = Tail(@)]]
Doing(o, c) == Busy(o) /\ op[o].todo # <<>> /\ Command(o)[1] = c

\* The configuration of the call's start is kept as long as nobody else changes it.
Load(o) ==
    /\ Doing(o, "load")
    /\ op' = [op EXCEPT ![o] = IF files[op[o].id] = None THEN None
                ELSE [@ EXCEPT !.start = conf, !.todo = Backup("pre_restore") \o Restore(files[op[o].id])]]
    /\ UNCHANGED <<kind, conf, files, now, calls, failures, before>>

\* The first command of a backup fixes its id.
Own(o) == IF op[o].own = None THEN now ELSE op[o].own

Read(o) ==
    /\ Doing(o, "read")
    /\ LET s == Command(o)[2]
       IN  Next1(o, [op[o] EXCEPT !.read[s] = conf[s], !.own = Own(o)])
    /\ UNCHANGED <<kind, conf, files, now, calls, failures, before>>

\* Two backups of one name and second are one file: the later one stays.
Write(o) ==
    /\ Doing(o, "write")
    /\ LET id == <<Command(o)[2], Own(o)>>
       IN  /\ files' = [files EXCEPT ![id] = op[o].read]
           /\ before' = IF op[o].what = "restore" THEN [before EXCEPT ![id] = @ \cup {op[o].start}] ELSE before
    /\ Next1(o, op[o])
    /\ UNCHANGED <<kind, conf, now, calls, failures>>

Disturbed(o) == [q \in Operator |-> IF q = o \/ ~Busy(q) THEN op[q] ELSE [op[q] EXCEPT !.start = None]]

Put(o) ==
    /\ Doing(o, "put")
    /\ conf' = [conf EXCEPT ![Command(o)[2]] = Command(o)[3]]
    /\ op' = [Disturbed(o) EXCEPT ![o].todo = Tail(@)]
    /\ UNCHANGED <<kind, files, now, calls, failures, before>>

Delete(o) ==
    /\ Doing(o, "delete")
    /\ files' = [files EXCEPT ![op[o].id] = None]
    /\ before' = [before EXCEPT ![op[o].id] = {}]
    /\ Next1(o, op[o])
    /\ UNCHANGED <<kind, conf, now, calls, failures>>

\* What cannot be read is saved as empty; a file that cannot be written ends a backup, but
\* not a restore, which does not look at the answer of its own backup.
Fail(o) ==
    /\ Busy(o) /\ op[o].todo # <<>> /\ failures < MaxFailures /\ failures' = failures + 1
    /\ op' = [op EXCEPT ![o] =
                IF Command(o)[1] \in {"load", "delete"} \/ (Command(o)[1] = "write" /\ op[o].what = "backup")
                  THEN None
                ELSE [@ EXCEPT !.todo = Tail(@), !.own = Own(o), !.ok = FALSE]]
    /\ UNCHANGED <<kind, conf, files, now, calls, before>>

Answer(o) ==
    /\ Busy(o) /\ op[o].todo = <<>>
    /\ op' = [op EXCEPT ![o] = None]
    /\ UNCHANGED <<kind, conf, files, now, calls, failures, before>>

\* Somebody changes a section of the firewall.
Edit(s, c) ==
    /\ calls < MaxCalls /\ calls' = calls + 1
    /\ c # conf[s]
    /\ conf' = [conf EXCEPT ![s] = c]
    /\ op' = [q \in Operator |-> IF Busy(q) THEN [op[q] EXCEPT !.start = None] ELSE None]
    /\ UNCHANGED <<kind, files, now, failures, before>>

Tick == now < MaxNow /\ now' = now + 1 /\ UNCHANGED <<kind, conf, files, op, calls, failures, before>>

Next ==
    \/ \E o \in Operator :
         \/ Begin(o, "backup", None)
         \/ \E i \in {j \in Ids : files[j] # None}, w \in {"restore", "delete"} : Begin(o, w, i)
         \/ Load(o) \/ Read(o) \/ Write(o) \/ Put(o) \/ Delete(o) \/ Fail(o) \/ Answer(o)
    \/ \E i \in DOMAIN Sections, c \in Content \cup {None} : Edit(Sections[i], c)
    \/ Tick

Spec == Init /\ [][Next]_vars

-----------------------------------------------------------------------------
OfKind == {Sections[i] : i \in DOMAIN Sections}
Same(a, b) == \A s \in OfKind : a[s] = b[s]

\* "Once mevcut config'i otomatik yedekle" (manager.py:3582): what a restore found when it
\* began is in its own backup from then on, if it was the only one of that second, no
\* command failed and nobody changed the firewall meanwhile.
RestoreIsUndoable ==
    failures = 0 => \A i \in Ids : \A c \in before[i] :
        c # None /\ Cardinality(before[i]) = 1 => files[i] # None /\ Same(files[i], c)

\* The same without the second: the backups of two restores are not taken for one another.
EveryRestoreIsUndoable ==
    failures = 0 => \A i \in Ids : \A c \in before[i] :
        c # None => \E j \in Ids : files[j] # None /\ Same(files[j], c)

\* "Yedegi geri yukler" (manager.py:3563): after a restore the firewall is as it was saved.
RestoredIsAsSaved ==
    failures = 0 => \A o \in Operator :
        Busy(o) /\ op[o].what = "restore" /\ op[o].todo = <<>> /\ op[o].start # None /\ files[op[o].id] # None
            => Same(conf, files[op[o].id])
=============================================================================
