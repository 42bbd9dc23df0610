---------------------------- MODULE Installation ----------------------------
(***************************************************************************)
(* How the panel's database comes to have what the panel relies on: the    *)
(* start of a panel (core/database.py, init_database), which fills what it *)
(* finds empty and takes servers over from config.json, the script that    *)
(* gives older rows an organization (migrate_tenant.py), and the requests  *)
(* of a running panel that write config.json too (core/config_io.py and    *)
(* routes/domain_ops/storage.py).                                          *)
(*                                                                         *)
(* Panels may start side by side, and beside the script; each may be       *)
(* killed between two steps.  A step is a look at a table or a transaction *)
(* with what it reads under the write lock; a row that a unique column     *)
(* refuses ends a panel's start or the script, unless the code catches it. *)
(* One server stands for those of the file, with an id each.               *)
(***************************************************************************)
EXTENDS Naturals, Sequences

CONSTANTS
    Process,
    MaxStarts, MaxWrites,   \* bounds: starts of either program, requests
    None

VARIABLES
    tables,     \* the tables are there
    columns,    \* what older tables lack: "hierarchy" of organizations, "tenant" of five others
    owner,      \* of the administrator, another user and the server: None without a row,
                \* "" without an organization
    password,   \* that of the server's row
    settings, plans, orgs, subs, quotas,
    file,       \* config.json
    job,        \* each process: where it is, the stage of a start, the file as it was read, and
                \* what is to be written over it
    starts, writes,
    younger,    \* rows that no script has seen
    migrated,   \* a script has come to its end
    deleted,    \* the server was deleted once
    saved,      \* a protocol was answered as added
    crossed     \* what overlapped or was cut off: "file", "subs"

database == <<tables, columns, owner, password, settings, plans, orgs, subs, quotas>>
history == <<younger, migrated, deleted, saved, crossed>>
bounds == <<starts, writes>>
vars == <<database, file, job, bounds, history>>

Org == {"default", "emare"}
\* A slip: the organization is made before the plans.
BugStages == <<"tables", "hierarchy", "admin", "servers", "settings", "org", "plans">>

Stages == <<"tables", "hierarchy", "admin", "servers", "settings", "plans", "org">>

NoFile == [torn |-> FALSE, password |-> "gone", protocol |-> FALSE]
Place(place, stage) == [at |-> place, stage |-> stage, seen |-> NoFile, put |-> NoFile]
Nowhere == Place("none", 0)

\* A new installation, or one from before there were organizations.
Init ==
    /\ tables \in BOOLEAN
    /\ columns = {}
    /\ owner = [x \in {"admin", "user", "server"} |-> IF tables THEN "" ELSE None]
    /\ password = IF tables THEN "plain" ELSE None
    /\ settings = FALSE /\ plans = "none"
    /\ orgs = {} /\ subs = [o \in Org |-> 0] /\ quotas = {}
    /\ file = [torn |-> FALSE, password |-> IF tables THEN "masked" ELSE "plain", protocol |-> FALSE]
    /\ job = [p \in Process |-> Nowhere]
    /\ starts = 0 /\ writes = 0
    /\ younger = {} /\ migrated = FALSE /\ deleted = FALSE /\ saved = FALSE /\ crossed = {}

At(p, place) == job[p].at = place
Idle(p) == At(p, "none")
Becomes(p, j) == job' = [job EXCEPT ![p] = j]
Goes(p, place) == Becomes(p, Place(place, 0))
Dies(p) == Becomes(p, Nowhere) /\ UNCHANGED <<database, file, bounds, history>>

-----------------------------------------------------------------------------
\* The start of a panel.

Starting(p) == job[p].stage > 0
Stage(p) == Stages[job[p].stage]
LooksAt(n) == IF n > Len(Stages) THEN Place("up", 0) ELSE Place("look", n)
Proceeds(p) == Becomes(p, LooksAt(job[p].stage + 1))

Start(p) ==
    /\ Idle(p) /\ starts < MaxStarts
    /\ starts' = starts + 1
    /\ Becomes(p, LooksAt(1))
    /\ UNCHANGED <<database, file, writes, history>>

Missing(stage) ==
    CASE stage = "tables" -> ~tables
      [] stage = "hierarchy" -> "hierarchy" \notin columns
      [] stage = "admin" -> {owner["admin"], owner["user"]} = {None}
      [] stage = "servers" -> owner["server"] = None
      [] stage = "settings" -> ~settings
      [] stage = "plans" -> plans = "none"
      [] stage = "org" -> orgs = {}

Look(p) ==
    /\ At(p, "look")
    /\ IF Missing(Stage(p)) THEN Becomes(p, Place("make", job[p].stage)) ELSE Proceeds(p)
    /\ UNCHANGED <<database, file, bounds, history>>

Makes(p, stage) == At(p, "make") /\ Stage(p) = stage

MakeTables(p) ==
    /\ Makes(p, "tables")
    /\ \/ tables /\ Dies(p)
       \/ /\ ~tables
          /\ tables' = TRUE /\ columns' = {"hierarchy", "tenant"}
          /\ Proceeds(p)
          /\ UNCHANGED <<owner, password, settings, plans, orgs, subs, quotas, file, bounds, history>>

\* A column that is there by now is caught.
AddHierarchy(p) ==
    /\ Makes(p, "hierarchy")
    /\ columns' = columns \cup {"hierarchy"}
    /\ Proceeds(p)
    /\ UNCHANGED <<tables, owner, password, settings, plans, orgs, subs, quotas, file, bounds, history>>

MakeAdmin(p) ==
    /\ Makes(p, "admin")
    /\ \/ owner["admin"] # None /\ Dies(p)
       \/ /\ owner["admin"] = None
          /\ owner' = [owner EXCEPT !["admin"] = ""] /\ younger' = younger \cup {"admin"}
          /\ Proceeds(p)
          /\ UNCHANGED <<tables, columns, password, settings, plans, orgs, subs, quotas, file, bounds,
                         migrated, deleted, saved, crossed>>

\* A file that cannot be read, or has no servers, is passed over.
ReadFile(p) ==
    /\ Makes(p, "servers")
    /\ IF file.torn \/ file.password = "gone" THEN Proceeds(p)
       ELSE Becomes(p, [at |-> "insert", stage |-> job[p].stage, seen |-> file, put |-> file])
    /\ UNCHANGED <<database, file, bounds, history>>

Insert(p) ==
    /\ At(p, "insert")
    /\ IF owner["server"] # None THEN Proceeds(p) /\ UNCHANGED <<owner, password, younger>>
       ELSE /\ owner' = [owner EXCEPT !["server"] = ""] /\ younger' = younger \cup {"server"}
            /\ password' = job[p].seen.password
            /\ Becomes(p, [at |-> "write", stage |-> job[p].stage, seen |-> job[p].seen,
                           put |-> [job[p].seen EXCEPT !.password = "masked"]])
    /\ UNCHANGED <<tables, columns, settings, plans, orgs, subs, quotas, file, bounds,
                   migrated, deleted, saved, crossed>>

\* The file is opened, which empties it, and written.  Whoever changes it between the look at
\* it and this, or is writing it, has overlapped.
OpenFile(p) ==
    /\ At(p, "write")
    /\ file' = [file EXCEPT !.torn = TRUE]
    /\ Becomes(p, [job[p] EXCEPT !.at = "dump"])
    /\ crossed' = IF file # job[p].seen THEN crossed \cup {"file"} ELSE crossed
    /\ UNCHANGED <<database, bounds, younger, migrated, deleted, saved>>

WriteFile(p) ==
    /\ At(p, "dump")
    /\ file' = job[p].put
    /\ IF Starting(p) THEN Proceeds(p) /\ saved' = saved ELSE Goes(p, "up") /\ saved' = TRUE
    /\ UNCHANGED <<database, bounds, younger, migrated, deleted, crossed>>

MakeSettings(p) ==
    /\ Makes(p, "settings")
    /\ settings' = (settings \/ (~file.torn /\ file.password # "gone"))
    /\ Proceeds(p)
    /\ UNCHANGED <<tables, columns, owner, password, plans, orgs, subs, quotas, file, bounds, history>>

MakePlans(p) ==
    /\ Makes(p, "plans")
    /\ \/ plans # "none" /\ Dies(p)
       \/ /\ plans = "none" /\ plans' = "all"
          /\ Proceeds(p)
          /\ UNCHANGED <<tables, columns, owner, password, settings, orgs, subs, quotas, file, bounds, history>>

\* The administrator's organization, with a subscription and a quota if there is a plan for them.
MakeOrg(p) ==
    /\ Makes(p, "org")
    /\ \/ "default" \in orgs /\ Dies(p)
       \/ /\ "default" \notin orgs
          /\ orgs' = orgs \cup {"default"}
          /\ owner' = IF owner["admin"] = None THEN owner ELSE [owner EXCEPT !["admin"] = "default"]
          /\ IF plans = "none" THEN UNCHANGED <<subs, quotas>>
             ELSE subs' = [subs EXCEPT !["default"] = @ + 1] /\ quotas' = quotas \cup {"default"}
          /\ Proceeds(p)
          /\ UNCHANGED <<tables, columns, password, settings, plans, file, bounds, history>>

-----------------------------------------------------------------------------
\* The script.

AddColumns(p) ==
    /\ Idle(p) /\ tables /\ starts < MaxStarts
    /\ starts' = starts + 1
    /\ columns' = columns \cup {"tenant"}
    /\ Goes(p, "look for emare")
    /\ UNCHANGED <<tables, owner, password, settings, plans, orgs, subs, quotas, file, writes, history>>

LookForEmare(p) ==
    /\ At(p, "look for emare")
    /\ Goes(p, IF "emare" \in orgs THEN "assign" ELSE "make emare")
    /\ UNCHANGED <<database, file, bounds, history>>

MakeEmare(p) ==
    /\ At(p, "make emare")
    /\ \/ "emare" \in orgs /\ Dies(p)
       \/ /\ "emare" \notin orgs
          /\ orgs' = orgs \cup {"emare"}
          /\ Goes(p, "assign")
          /\ UNCHANGED <<tables, columns, owner, password, settings, plans, subs, quotas, file, bounds, history>>

Assigned(x) == IF owner[x] = "" THEN "emare" ELSE owner[x]

Assign(p) ==
    /\ At(p, "assign")
    /\ owner' = [x \in DOMAIN owner |-> Assigned(x)]
    /\ younger' = {}
    /\ Goes(p, "look for plan")
    /\ UNCHANGED <<tables, columns, password, settings, plans, orgs, subs, quotas, file, bounds,
                   migrated, deleted, saved, crossed>>

LookForPlan(p) ==
    /\ At(p, "look for plan")
    /\ Goes(p, IF plans = "none" THEN "make plan" ELSE "look for subscription")
    /\ UNCHANGED <<database, file, bounds, history>>

MakeCommunity(p) ==
    /\ At(p, "make plan")
    /\ \/ plans # "none" /\ Dies(p)
       \/ /\ plans = "none" /\ plans' = "community"
          /\ Goes(p, "look for subscription")
          /\ UNCHANGED <<tables, columns, owner, password, settings, orgs, subs, quotas, file, bounds, history>>

LookForSubscription(p) ==
    /\ At(p, "look for subscription")
    /\ Goes(p, IF subs["emare"] = 0 THEN "subscribe" ELSE "look for quota")
    /\ UNCHANGED <<database, file, bounds, history>>

\* The subscription takes the write lock, which the look for the quota comes under.
Subscribe(p) ==
    /\ At(p, "subscribe")
    /\ subs' = [subs EXCEPT !["emare"] = @ + 1]
    /\ crossed' = IF \E q \in Process \ {p} : At(q, "subscribe") THEN crossed \cup {"subs"} ELSE crossed
    /\ quotas' = quotas \cup {"emare"}
    /\ migrated' = TRUE /\ Becomes(p, Nowhere)
    /\ UNCHANGED <<tables, columns, owner, password, settings, plans, orgs, file, bounds, younger, deleted, saved>>

\* The script that finds a subscription only sees to the quota.
Allot(p) ==
    /\ At(p, "look for quota")
    /\ quotas' = quotas \cup {"emare"}
    /\ migrated' = TRUE /\ Becomes(p, Nowhere)
    /\ UNCHANGED <<tables, columns, owner, password, settings, plans, orgs, subs, file, bounds,
                   younger, deleted, saved, crossed>>

-----------------------------------------------------------------------------
\* A running panel.

MayWrite(p) == At(p, "up") /\ writes < MaxWrites /\ writes' = writes + 1

AddUser(p) ==
    /\ MayWrite(p) /\ owner["user"] = None
    /\ owner' = [owner EXCEPT !["user"] = ""] /\ younger' = younger \cup {"user"}
    /\ UNCHANGED <<tables, columns, password, settings, plans, orgs, subs, quotas, file, job, starts,
                   migrated, deleted, saved, crossed>>

DeleteServer(p) ==
    /\ MayWrite(p) /\ owner["server"] # None
    /\ owner' = [owner EXCEPT !["server"] = None] /\ password' = None /\ deleted' = TRUE
    /\ UNCHANGED <<tables, columns, settings, plans, orgs, subs, quotas, file, job, starts,
                   younger, migrated, saved, crossed>>

\* A protocol is added to the file as it was read: what cannot be read is taken for an empty one.
Loaded == IF file.torn THEN NoFile ELSE file

AddProtocol(p) ==
    /\ MayWrite(p) /\ ~file.protocol
    /\ Becomes(p, [at |-> "write", stage |-> 0, seen |-> file, put |-> [Loaded EXCEPT !.protocol = TRUE]])
    /\ crossed' = IF file.torn THEN crossed \cup {"file"} ELSE crossed
    /\ UNCHANGED <<database, file, starts, younger, migrated, deleted, saved>>

-----------------------------------------------------------------------------
\* Whoever is killed between the transaction with the servers and the end of the file leaves that.
Kill(p) ==
    /\ ~Idle(p)
    /\ Becomes(p, Nowhere)
    /\ crossed' = IF At(p, "write") \/ At(p, "dump") THEN crossed \cup {"file"} ELSE crossed
    /\ UNCHANGED <<database, file, bounds, younger, migrated, deleted, saved>>

Step(p) ==
    \/ Start(p) \/ Look(p) \/ MakeTables(p) \/ AddHierarchy(p) \/ MakeAdmin(p) \/ ReadFile(p) \/ Insert(p)
    \/ OpenFile(p) \/ WriteFile(p) \/ MakeSettings(p) \/ MakePlans(p) \/ MakeOrg(p)
    \/ AddColumns(p) \/ LookForEmare(p) \/ MakeEmare(p) \/ Assign(p) \/ LookForPlan(p) \/ MakeCommunity(p)
    \/ LookForSubscription(p) \/ Subscribe(p) \/ Allot(p)
    \/ AddUser(p) \/ DeleteServer(p) \/ AddProtocol(p) \/ Kill(p)

Next == \E p \in Process : Step(p)

-----------------------------------------------------------------------------
File == [torn : BOOLEAN, password : {"plain", "masked", "gone"}, protocol : BOOLEAN]
ScriptPlace == {"look for emare", "make emare", "assign", "look for plan", "make plan",
                "look for subscription", "subscribe", "look for quota"}
JobState == [at : {"none", "look", "make", "insert", "write", "dump", "up"} \cup ScriptPlace,
             stage : 0 .. 7, seen : File, put : File]

TypeOK ==
    /\ {tables, settings, migrated, deleted, saved} \subseteq BOOLEAN
    /\ columns \subseteq {"hierarchy", "tenant"}
    /\ owner \in [{"admin", "user", "server"} -> {None, ""} \cup Org]
    /\ password \in {None, "plain", "masked"}
    /\ plans \in {"none", "community", "all"}
    /\ orgs \subseteq Org /\ subs \in [Org -> Nat] /\ quotas \subseteq Org
    /\ file \in File
    /\ job \in [Process -> JobState]
    /\ younger \subseteq {"admin", "user", "server"} /\ crossed \subseteq {"file", "subs"}

Up(p) == At(p, "up") \/ (~Starting(p) /\ job[p].at \in {"write", "dump"})

\* However starts and scripts overlap and wherever they were killed, a panel that is up finds what
\* it relies on, and each organization that was made for it has its plan: the default one in full,
\* the other once a script has come to its end, with one subscription unless two scripts overlapped.
StartedIsWhole ==
    /\ (\E p \in Process : Up(p)) =>
        "hierarchy" \in columns /\ {owner["admin"], owner["user"]} # {None} /\ plans # "none" /\ orgs # {}
    /\ "default" \in orgs => subs["default"] = 1 /\ "default" \in quotas
    /\ migrated => "tenant" \in columns /\ subs["emare"] > 0 /\ "emare" \in quotas
    /\ subs["emare"] > 1 => "subs" \in crossed

\* Who has an organization keeps it, the administrator that of the panel, and once a script has
\* come to its end only rows that came after it have none.
RowsAreOwned ==
    /\ \A x \in DOMAIN owner : owner[x] \in Org => owner[x] \in orgs
    /\ migrated => \A x \in DOMAIN owner : owner[x] = "" => x \in younger

\* A server taken over from the file has its password, unless it was deleted and comes back; and
\* the file keeps neither passwords beside the database nor loses what a request has added,
\* unless writers of the file overlapped or one was cut off.
FileIsHandedOver ==
    /\ password = "masked" => deleted
    /\ "file" \in crossed
        \/ /\ file.password = "plain" /\ password # None =>
                \E p \in Process : Starting(p) /\ job[p].at \in {"write", "dump"}
           /\ saved => file.protocol \/ file.torn

InstallationIsWhole == StartedIsWhole /\ RowsAreOwned /\ FileIsHandedOver
=============================================================================
