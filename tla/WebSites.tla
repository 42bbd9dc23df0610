------------------------------ MODULE WebSites ------------------------------
(***************************************************************************)
(* The customers' static sites (routes/webdizayn.py): a row for each slug, *)
(* the directory nginx serves for it, and the archive that an upload saves *)
(* in a file of its own before it replaces the directory.                  *)
(*                                                                         *)
(* Nothing is locked.  All uploads of a slug use one temporary file, which *)
(* each of them opens for writing and unlinks at its end; an upload clears *)
(* the directory before it extracts a file, and what fails then leaves     *)
(* what is there by then.                                                  *)
(***************************************************************************)
EXTENDS Naturals, FiniteSets

CONSTANTS
    Slug, Request, File, None,
    MaxFaults       \* bound: failures of the disk, of an archive and ends of the process

VARIABLES
    row,        \* the slugs that have a row
    site,       \* the directory of each slug: whose archive each file is from, None where it is not there
    saved,      \* the temporary file of each slug: whose archive it holds, None if there is none
    request,    \* each request: slug, where it stands, the archive it has opened and what its bytes
                \* have become, whether that file is still the temporary one, the files that are left
    served,     \* history: the upload that was told success last and still stands, None if there is none
    mixed,      \* history: the slugs about which requests have overlapped, or one was ended
    faults

vars == <<row, site, saved, request, served, mixed, faults>>

Empty == [f \in File |-> None]
Working(s, at, archive, linked, left) ==
    [slug |-> s, at |-> at, archive |-> archive, bytes |-> archive, linked |-> linked, left |-> left]

Free == Working(None, "idle", None, FALSE, {})

\* Where a request begins.
FirstOf(kind) == CASE kind = "create" -> "mkdir" [] kind = "delete" -> "rmtree" [] kind = "upload" -> "save"

Init ==
    /\ row = {}
    /\ site = [s \in Slug |-> Empty] /\ saved = [s \in Slug |-> None]
    /\ request = [r \in Request |-> Free]
    /\ served = [s \in Slug |-> None] /\ mixed = {} /\ faults = 0

Fault == faults < MaxFaults /\ faults' = faults + 1
NoFault == faults' = faults
Goto(r, at) == request' = [request EXCEPT ![r].at = at]

Others(r, s) == {q \in Request \ {r} : request[q].slug = s}

\* The session reads the row; from here on the request works on the slug.
Begin(r, s, kind) ==
    /\ request[r] = Free
    /\ (kind = "create") <=> s \notin row
    /\ request' = [request EXCEPT ![r] = Working(s, FirstOf(kind), None, FALSE, {})]
    /\ mixed' = IF Others(r, s) # {} THEN mixed \cup {s} ELSE mixed
    /\ UNCHANGED <<row, site, saved, served, faults>>

-----------------------------------------------------------------------------
(***************************************************************************)
(* api_create_client, api_delete_client                                    *)
(***************************************************************************)
\* A directory that is there already is taken as it is.
MakeDirectory(r) ==
    /\ request[r].at = "mkdir"
    /\ \/ Goto(r, "insert") /\ NoFault
       \/ Fault /\ request' = [request EXCEPT ![r] = Free]
    /\ UNCHANGED <<row, site, saved, served, mixed>>

\* The slug is unique: the second of two rows is refused.
InsertRow(r) ==
    /\ request[r].at = "insert"
    /\ row' = row \cup {request[r].slug}
    /\ request' = [request EXCEPT ![r] = Free]
    /\ UNCHANGED <<site, saved, served, mixed, faults>>

\* Removal may fail after any of the files.
RemoveTree(r) ==
    LET s == request[r].slug IN
    /\ request[r].at = "rmtree"
    /\ \/ site' = [site EXCEPT ![s] = Empty] /\ Goto(r, "forget") /\ NoFault
       \/ /\ Fault
          /\ \E kept \in SUBSET File :
                site' = [site EXCEPT ![s] = [f \in File |-> IF f \in kept THEN @[f] ELSE None]]
          /\ request' = [request EXCEPT ![r] = Free]
    /\ served' = [served EXCEPT ![s] = None]
    /\ UNCHANGED <<row, saved, mixed>>

\* Of two requests that delete a row the second fails.
DeleteRow(r) ==
    /\ request[r].at = "forget"
    /\ row' = row \ {request[r].slug}
    /\ request' = [request EXCEPT ![r] = Free]
    /\ UNCHANGED <<site, saved, served, mixed, faults>>

-----------------------------------------------------------------------------
(***************************************************************************)
(* api_upload_files                                                        *)
(***************************************************************************)
\* f.save writes over the file an upload may be reading.
Save(r) ==
    LET s == request[r].slug IN
    /\ request[r].at = "save"
    /\ saved' = [saved EXCEPT ![s] = r]
    /\ request' = [q \in Request |->
            IF q = r THEN [request[q] EXCEPT !.at = "open"]
            ELSE IF request[q].slug = s /\ request[q].linked THEN [request[q] EXCEPT !.bytes = r]
            ELSE request[q]]
    /\ UNCHANGED <<row, site, served, mixed, faults>>

\* The end of an upload: whoever saved the temporary file, it is unlinked.
Unlink(r) ==
    LET s == request[r].slug IN
    /\ saved' = [saved EXCEPT ![s] = None]
    /\ request' = [q \in Request |->
            IF q = r THEN Free
            ELSE IF request[q].slug = s THEN [request[q] EXCEPT !.linked = FALSE]
            ELSE request[q]]

GiveUp(r) ==
    /\ Unlink(r)
    /\ UNCHANGED <<row, site, served, mixed>>

\* The archive is opened and its names are looked at.
OpenArchive(r) ==
    LET s == request[r].slug IN
    /\ request[r].at = "open"
    /\ \/ /\ saved[s] # None
          /\ request' = [request EXCEPT ![r] = Working(s, "clear", saved[s], TRUE, File)]
          /\ NoFault /\ UNCHANGED <<row, site, saved, served, mixed>>
       \/ saved[s] = None /\ NoFault /\ GiveUp(r)       \* unlinked by another upload
       \/ Fault /\ GiveUp(r)                            \* no archive, or a name that is not allowed

\* Mutant of Cleared: the files of the new archive are written over the old ones.
BugCleared(old) == old

Cleared(old) == Empty

\* rmtree and mkdir
Clear(r) ==
    LET s == request[r].slug IN
    /\ request[r].at = "clear"
    /\ site' = [site EXCEPT ![s] = Cleared(@)]
    /\ served' = [served EXCEPT ![s] = None]
    /\ Goto(r, "extract")
    /\ UNCHANGED <<row, saved, mixed, faults>>

\* One file; its directory is made anew if it has gone.  Of an archive that was written over the
\* bytes are those of the other one, or none that can be read.
Extract(r) ==
    LET s == request[r].slug
        bytes == request[r].bytes IN
    /\ request[r].at = "extract" /\ request[r].left # {}
    /\ \/ \E f \in request[r].left :
            /\ site' = [site EXCEPT ![s][f] = bytes]
            /\ request' = [request EXCEPT ![r].left = @ \ {f}]
            /\ NoFault /\ UNCHANGED <<row, saved, served, mixed>>
       \/ bytes # request[r].archive /\ NoFault /\ GiveUp(r)
       \/ Fault /\ GiveUp(r)        \* a damaged member, or a full disk

\* What the directory holds by now is counted, and the answer says so.
Answer(r) ==
    LET s == request[r].slug IN
    /\ request[r].at = "extract" /\ request[r].left = {}
    /\ Unlink(r)
    /\ served' = [served EXCEPT ![s] = r]
    /\ UNCHANGED <<row, site, mixed, faults>>

\* The process ends; the temporary files stay.
Kill ==
    /\ Fault
    /\ mixed' = mixed \cup {request[r].slug : r \in {q \in Request : request[q] # Free}}
    /\ request' = [r \in Request |-> Free]
    /\ UNCHANGED <<row, site, saved, served>>

Next ==
    \/ \E r \in Request, s \in Slug, kind \in {"create", "delete", "upload"} : Begin(r, s, kind)
    \/ \E r \in Request :
        \/ MakeDirectory(r) \/ InsertRow(r) \/ RemoveTree(r) \/ DeleteRow(r)
        \/ Save(r) \/ OpenArchive(r) \/ Clear(r) \/ Extract(r) \/ Answer(r)
    \/ Kill

Spec == Init /\ [][Next]_vars

-----------------------------------------------------------------------------
TypeOK ==
    /\ row \subseteq Slug /\ mixed \subseteq Slug
    /\ site \in [Slug -> [File -> Request \cup {None}]]
    /\ saved \in [Slug -> Request \cup {None}] /\ served \in [Slug -> Request \cup {None}]
    /\ \A r \in Request : request[r].left \subseteq File
    /\ faults \in 0 .. MaxFaults

Sources(s) == {site[s][f] : f \in File} \ {None}

(***************************************************************************)
(* While no two requests about a slug overlap and none is cut off: what is *)
(* served is of a single archive, the whole of it if its upload was        *)
(* answered with success and nothing was begun since, whatever earlier     *)
(* uploads and deletions have failed half way; and a slug that has no row  *)
(* serves nothing.                                                         *)
(***************************************************************************)
SitesAreWhole ==
    \A s \in Slug \ mixed :
        /\ Cardinality(Sources(s)) <= 1
        /\ served[s] # None => site[s] = [f \in File |-> served[s]]
        /\ s \notin row => Sources(s) = {}
=============================================================================
