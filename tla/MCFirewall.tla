----------------------------- MODULE MCFirewall -----------------------------
(***************************************************************************)
(* The firewall library's manager in three parts, on a server each: its    *)
(* rules, its protections and its backups; the heartbeats of its remote    *)
(* monitoring, with one correlation rule of either type; and its networks, *)
(* once few of them ("checked"), with the requests that go from server to  *)
(* server, and once several of few members ("numbered").  A behaviour is   *)
(* one of a single part, the others stay as they begin.                    *)
(***************************************************************************)
EXTENDS FirewallManager, TLC

CONSTANTS
    Prot,
    Content, MaxNow,
    Cooldown, Least, Window, Horizon, MaxBeats, MaxRequests,
    Process, Member, Entered, Applier, Checker, MaxNetworks, MaxMembers,
    CheckedNetworks, NumberedMembers    \* bounds: the networks of "checked", the members of "numbered"

VARIABLES
    part,
    system, refused, srv, pop, last, doubled, shown, pcalls, pfailures,
    type, conf, files, bop, now, bcalls, bfailures, before,
    clock, device, metrics, config, alarms, on, ruleset, events, hop, beats, hcalls, overlapped,
    members, seq, named, ruled, request

Protect == INSTANCE Protections WITH
    kind <- system, op <- pop, cache <- shown, calls <- pcalls, failures <- pfailures

Backup == INSTANCE FirewallBackup WITH
    kind <- type, op <- bop, calls <- bcalls, failures <- bfailures

Health == INSTANCE RmmHealth WITH
    Worker <- Operator, Rule <- {"threshold", "frequency"}, MaxCalls <- MaxRequests,
    rules <- ruleset, op <- hop, calls <- hcalls

Network == INSTANCE Networks WITH Server <- Member, Rule <- Entered, name <- named, rules <- ruled

ASSUME PartsAssumption ==
    Backup!ConstantsAssumption /\ Health!ConstantsAssumption /\ Network!ConstantsAssumption

protectVars  == <<system, refused, srv, pop, last, doubled, shown, pcalls, pfailures>>
backupVars   == <<type, conf, files, bop, now, bcalls, bfailures, before>>
healthVars   == <<clock, device, metrics, config, alarms, on, ruleset, events, hop, beats,
                  hcalls, overlapped>>
networkVars  == <<members, seq, named, ruled, request>>
firewallVars == <<part, vars, protectVars, backupVars, healthVars, networkVars>>

FirewallInit ==
    /\ part \in {"rules", "protections", "backups", "health", "checked", "numbered"}
    /\ Init /\ Protect!Init /\ Backup!Init /\ Health!Init /\ Network!Init
    /\ part # "checked" => \A m \in Member : ruled[m] = {}
    /\ part # "rules" => kind = "ufw"
    /\ part # "protections" => system = "linux" /\ refused = {}
    /\ part # "backups" => type = "ufw" /\ conf["user"] = CHOOSE c \in Content : TRUE
    /\ IF part = "health" THEN Cardinality(ruleset) = 1 ELSE ruleset = {} /\ config.cooldown = Health!Shortest

Short == \A p \in Process, i \in 1 .. MaxNetworks :
            members'[p][i] # None => Len(members'[p][i]) <= NumberedMembers

FirewallNext ==
    /\ part' = part
    /\ \/ part = "rules" /\ Next /\ UNCHANGED <<protectVars, backupVars, healthVars, networkVars>>
       \/ part = "protections" /\ Protect!Next /\ UNCHANGED <<vars, backupVars, healthVars, networkVars>>
       \/ part = "backups" /\ Backup!Next /\ UNCHANGED <<vars, protectVars, healthVars, networkVars>>
       \/ part = "health" /\ Health!Next /\ UNCHANGED <<vars, protectVars, backupVars, networkVars>>
       \/ /\ part \in {"checked", "numbered"} /\ Network!Next
          /\ IF part = "checked" THEN \A p \in Process : seq'[p] <= CheckedNetworks
             ELSE request' = request /\ Short
          /\ UNCHANGED <<vars, protectVars, backupVars, healthVars>>

FirewallSpec == FirewallInit /\ [][FirewallNext]_firewallVars

Symmetry == Permutations(Operator)

\* The state of a part that does not run is that of an initial state, where the part may run.
AnswersHold       == part = "protections" => Protect!AnswersHold
RestoreIsUndoable == part = "backups" => Backup!RestoreIsUndoable
ReportsAreSpaced  == part = "health" => Health!ReportsAreSpaced
NetworksAreTold   == Network!NetworksAreTold
=============================================================================
