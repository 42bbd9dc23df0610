--------------------------- MODULE FirewallManager ---------------------------
(***************************************************************************)
(* The firewall library's manager (emarefirewall/manager.py) on one        *)
(* server, called by the routes (emarefirewall/routes.py) for several      *)
(* operators at a time.                                                    *)
(*                                                                         *)
(* A method is a short program of commands, one for each kind of firewall: *)
(* the answer is that of the first command that reaches the server, the    *)
(* others are made whatever becomes of them.  Commands of different        *)
(* operators interleave.  The firewall itself is outside of the repository *)
(* and is modelled by what the commands are used for: ufw and Emare OS     *)
(* keep a list of rules and take the first that matches, firewalld keeps a *)
(* permanent and a running configuration.  Ports, addresses and rows are   *)
(* values without structure; the validation of their syntax is left out.   *)
(***************************************************************************)
EXTENDS Integers, Sequences, SequencesExt

CONSTANTS
    Operator,
    Port, Ip,       \* Port: also the services, each by its port
    Row,            \* rows of the tables of Emare OS: routes, addresses, queues, ...
    MaxCalls, MaxFailures,  \* bounds: calls in all, commands that fail
    None

Name == {"add_rule", "delete_rule", "toggle_rule", "enable", "disable", "status", "add_service",
         "remove_service", "add_row", "remove_row", "block", "unblock", "forward", "remove_forward",
         "rich", "remove_rich", "ban", "unban", "geo", "remove_geo"}

\* None is the name of no call (the calls are listed below).
ASSUME NoneAssumption == None \notin Name

Kind == {"ufw", "firewalld", "emareos"}

VARIABLES
    kind,       \* what _detect_type finds
    fw,         \* the firewall
    cache,      \* the cached status
    op,         \* the call of each operator: what is left of its program
    promised,   \* addresses block_ip was answered for, and nobody has unblocked since
    history,    \* what has been called so far, as far as the properties need it
    calls, failures

vars == <<kind, fw, cache, op, promised, history, calls, failures>>

\* No call: every operator's at first, and after its answer.
Idle == [name |-> None, ip |-> None, todo |-> <<>>, ok |-> "open", read |-> None, found |-> 0,
         crossed |-> FALSE]

Init ==
    /\ kind \in Kind
    /\ fw = [active |-> TRUE, chain |-> <<>>, permanent |-> {}, runtime |-> {},
             lists |-> {}, nat |-> <<>>, rows |-> <<>>]
    /\ cache = None
    /\ op = [o \in Operator |-> Idle]
    /\ promised = {} /\ history = {} /\ calls = 0 /\ failures = 0

-----------------------------------------------------------------------------
\* What a status shows.

Entry(r) == [rule |-> r, on |-> TRUE]
Texts(s) == [i \in DOMAIN s |-> s[i].rule]
Places(s, r) == {i \in DOMAIN s : s[i] = r}
First(s, r) == SelectInSeq(s, LAMBDA x : x = r)

\* The groups of the listing of firewalld, one after the other.
FirewalldRules ==
    LET Group(g) == SetToSeq({r \in fw.runtime : r[1] = g})
    IN  Group("service") \o Group("allow") \o Group("forward") \o Group("block")

\* Emare OS is shown as active as soon as there is a rule, disabled ones included.
EmareosStatus ==
    [active |-> fw.chain # <<>>, rules |-> fw.chain, forwards |-> fw.nat, blocked |-> fw.lists]

\* A server that does not answer and one whose firewalld is stopped look alike.
Unknown == [active |-> FALSE, rules |-> <<>>, type |-> None]

Status ==
    CASE kind = "ufw" -> [active |-> fw.active, rules |-> fw.chain]
      [] kind = "firewalld" /\ fw.active -> [active |-> TRUE, rules |-> FirewalldRules]
      [] kind = "firewalld" /\ ~fw.active -> Unknown
      [] kind = "emareos" -> EmareosStatus

-----------------------------------------------------------------------------
\* The programs.

Forget == <<<<"forget">>>>
Permanently(c) == <<c, <<"reload">>>>
OnKind(u, f, e) == CASE kind = "ufw" -> u [] kind = "firewalld" -> f [] kind = "emareos" -> e

Enable  == Forget \o OnKind(<<<<"activate">>>>, <<<<"activate">>>>, <<<<"switch_all", TRUE>>>>)
Disable == Forget \o OnKind(<<<<"stop">>>>, <<<<"stop">>>>, <<<<"switch_all", FALSE>>>>)

\* With firewalld the port is opened, whatever the action.
AddRule(action, p) ==
    Forget \o OnKind(<<<<"append", <<action, p>>>>>>,
                     Permanently(<<"permanent", <<"allow", p>>>>),
                     <<<<"append", <<action, p>>>>>>)

\* The port is another one than the port it leads to.
AddRedirect(p) ==
    Forget \o OnKind(<<<<"nat", <<"forward", p>>>>, <<"append", <<"allow", p>>>>>>,
                     <<<<"permanent", <<"forward", p>>>>, <<"permanent", <<"masquerade">>>>,
                       <<"reload">>>>,
                     <<<<"nat", <<"forward", p>>>>>>)

AddService(p) ==
    OnKind(<<<<"append", <<"service", p>>>>>>,
           Permanently(<<"permanent", <<"service", p>>>>),
           <<<<"enable_service", p>>>>)

RemoveService(p) ==
    OnKind(<<<<"delete", <<"service", p>>>>>>,
           Permanently(<<"not_permanent", <<"service", p>>>>),
           <<<<"unlist", <<"service", p>>>>>>)

ToggleRule(i, on) == OnKind(<<>>, <<>>, <<<<"switch", i, on>>>>)

AddRow(x) == OnKind(<<>>, <<>>, <<<<"row", x>>>>)
RemoveRow(i) == OnKind(<<>>, <<>>, <<<<"row_at", i>>>>)

\* The status is read first; what it says decides the rest (see Delete).
DeleteRule(i) == Forget \o <<<<"read">>, <<"store">>, <<"delete_listed", i>>>>

GetStatus == <<<<"read">>, <<"store">>>>

\* Mutant of BlockIp: on Emare OS the rule that drops the list is taken for granted.
BugBlockIp(ip) ==
    Forget \o OnKind(<<<<"append", <<"block", ip>>>>>>,
                     Permanently(<<"permanent", <<"block", ip>>>>),
                     <<<<"list", <<"blocked", ip>>>>>>)

BlockIp(ip) ==
    Forget \o OnKind(<<<<"append", <<"block", ip>>>>>>,
                     Permanently(<<"permanent", <<"block", ip>>>>),
                     <<<<"list", <<"blocked", ip>>>>,
                       <<"look", <<"drop", "blocked">>>>,
                       <<"append_unless_found", <<"drop", "blocked">>>>>>)

UnblockIp(ip) ==
    Forget \o OnKind(<<<<"delete", <<"block", ip>>>>>>,
                     Permanently(<<"not_permanent", <<"block", ip>>>>),
                     <<<<"unlist", <<"blocked", ip>>>>>>)

AddPortForward(p) ==
    Forget \o OnKind(<<>>,
        <<<<"permanent", <<"forward", p>>>>, <<"permanent", <<"masquerade">>>>, <<"reload">>>>,
        <<<<"nat", <<"forward", p>>>>, <<"look_nat", <<"masquerade">>>>,
          <<"nat_unless_found", <<"masquerade">>>>>>)

RemovePortForward(p) ==
    Forget \o OnKind(<<>>, Permanently(<<"not_permanent", <<"forward", p>>>>),
                     <<<<"look_nat", <<"forward", p>>>>, <<"nat_at_found">>>>)

AddRichRule(ip) ==
    OnKind(<<>>, Permanently(<<"permanent", <<"block", ip>>>>),
           <<<<"list", <<"zone_rule", ip>>>>>>)

RemoveRichRule(ip) ==
    OnKind(<<>>, Permanently(<<"not_permanent", <<"block", ip>>>>),
           <<<<"unlist", <<"zone_rule", ip>>>>>>)

BanIp(ip) == <<<<"list", <<"ban", ip>>>>>>
UnbanIp(ip) == <<<<"unlist", <<"ban", ip>>>>>>

\* With firewalld every command is made and none is looked at.
GeoBlock ==
    OnKind(<<>>,
           <<<<"list", <<"set", "geo">>>>, <<"permanent", <<"block", "geo">>>>, <<"reload">>>>,
           <<<<"list", <<"geo", "geo">>>>, <<"look", <<"drop", "geo">>>>,
             <<"append_unless_found", <<"drop", "geo">>>>>>)

GeoUnblock ==
    OnKind(<<>>,
           <<<<"not_permanent", <<"block", "geo">>>>, <<"reload">>, <<"unlist", <<"set", "geo">>>>>>,
           <<<<"delete_all", <<"drop", "geo">>>>, <<"unlist", <<"geo", "geo">>>>>>)

-----------------------------------------------------------------------------
\* The calls the routes make.

RuleCalls ==
    {<<"add_rule", AddRule("allow", p)>> : p \in Port}
      \cup {<<"add_rule", AddRule("deny", p)>> : p \in Port}
      \cup {<<"add_rule", AddRedirect(p)>> : p \in Port}
      \cup {<<"delete_rule", DeleteRule(i)>> : i \in 1 .. 2}
      \cup {<<"toggle_rule", ToggleRule(i, TRUE)>> : i \in 1 .. 2}
      \cup {<<"toggle_rule", ToggleRule(i, FALSE)>> : i \in 1 .. 2}
      \cup {<<"enable", Enable>>, <<"disable", Disable>>, <<"status", GetStatus>>}

ServiceCalls ==
    {<<"add_service", AddService(p)>> : p \in Port}
      \cup {<<"remove_service", RemoveService(p)>> : p \in Port}

TableCalls ==
    {<<"add_row", AddRow(x)>> : x \in Row} \cup {<<"remove_row", RemoveRow(i)>> : i \in 1 .. 2}

AddressCalls ==
    {<<"block", BlockIp(ip), ip>> : ip \in Ip} \cup {<<"unblock", UnblockIp(ip), ip>> : ip \in Ip}

ForwardCalls ==
    {<<"forward", AddPortForward(p)>> : p \in Port}
      \cup {<<"remove_forward", RemovePortForward(p)>> : p \in Port}

OtherCalls ==
    {<<"rich", AddRichRule(ip)>> : ip \in Ip} \cup {<<"remove_rich", RemoveRichRule(ip)>> : ip \in Ip}
      \cup {<<"ban", BanIp(ip)>> : ip \in Ip} \cup {<<"unban", UnbanIp(ip)>> : ip \in Ip}
      \cup {<<"geo", GeoBlock>>, <<"remove_geo", GeoUnblock>>}

Call == RuleCalls \cup ServiceCalls \cup TableCalls \cup AddressCalls \cup ForwardCalls \cup OtherCalls

\* The calls after which the cached status is not forgotten, or is not forgotten in time.
Unforgotten == {"delete_rule", "toggle_rule", "add_service", "remove_service", "rich", "remove_rich",
                "ban", "unban", "geo", "remove_geo"}

\* The calls that take a rule away, or switch it off, by its place or by its text.
Removing == {"delete_rule", "toggle_rule", "disable", "remove_rich", "remove_geo"}

Busy(o) == op[o].name # None
Concerns(o, name, ip) == op[o].name = name /\ op[o].ip = ip

\* The calls that make every command and look at none.
Careless(c) == c[1] = "remove_geo" \/ (c[1] = "geo" /\ kind = "firewalld")

Begin(o, c) ==
    /\ ~Busy(o) /\ calls < MaxCalls
    /\ calls' = calls + 1
    /\ LET ip == IF c[1] \in {"block", "unblock"} THEN c[3] ELSE None
           meets == c[1] = "block" /\ \E q \in Operator : Concerns(q, "unblock", ip)
           new == [name |-> c[1], ip |-> ip, todo |-> c[2], ok |-> IF Careless(c) THEN "yes" ELSE "open",
                   read |-> None, found |-> 0, crossed |-> meets]
           crossed == [q \in Operator |-> IF c[1] = "unblock" /\ Concerns(q, "block", ip)
                                            THEN [op[q] EXCEPT !.crossed = TRUE] ELSE op[q]]
       IN  /\ op' = [crossed EXCEPT ![o] = IF c[2] = <<>> THEN Idle ELSE new]
           /\ promised' = IF c[1] = "unblock" THEN promised \ {ip} ELSE promised
    /\ history' = history \cup (IF c[1] \in Unforgotten THEN {"unforgotten"} ELSE {})
                          \cup (IF c[1] \in Removing THEN {"removing"} ELSE {})
                          \cup (IF \E q \in Operator : Busy(q) THEN {"overlap"} ELSE {})
    /\ UNCHANGED <<kind, fw, cache, failures>>

Command(o) == Head(op[o].todo)
Runs(o, name) == Busy(o) /\ op[o].todo # <<>> /\ Command(o)[1] = name

-----------------------------------------------------------------------------
\* What a command does.

\* ufw keeps a rule once.
Append1(s, r) == IF kind = "ufw" /\ Places(s, Entry(r)) # {} THEN s ELSE Append(s, Entry(r))

At(s, i) == IF i \in DOMAIN s THEN RemoveAt(s, i) ELSE s

Changed(c, found) ==
    CASE c[1] = "activate" -> [fw EXCEPT !.active = TRUE, !.runtime = IF fw.active THEN @ ELSE fw.permanent]
      [] c[1] = "stop" -> [fw EXCEPT !.active = FALSE, !.runtime = {}]
      [] c[1] = "switch_all" -> [fw EXCEPT !.chain = [i \in DOMAIN @ |-> [@[i] EXCEPT !.on = c[2]]]]
      [] c[1] = "switch" ->
            [fw EXCEPT !.chain = [i \in DOMAIN @ |-> IF i = c[2] THEN [@[i] EXCEPT !.on = c[3]] ELSE @[i]]]
      [] c[1] = "append" -> [fw EXCEPT !.chain = Append1(@, c[2])]
      [] c[1] = "append_unless_found" /\ found = 0 -> [fw EXCEPT !.chain = Append1(@, c[2])]
      [] c[1] = "delete" -> [fw EXCEPT !.chain = At(@, First(Texts(@), c[2]))]
      [] c[1] = "delete_all" -> [fw EXCEPT !.chain = SelectSeq(@, LAMBDA e : e.rule # c[2])]
      [] c[1] = "chain_at" -> [fw EXCEPT !.chain = At(@, c[2])]
      [] c[1] = "permanent" -> [fw EXCEPT !.permanent = @ \cup {c[2]}]
      [] c[1] = "not_permanent" -> [fw EXCEPT !.permanent = @ \ {c[2]}]
      [] c[1] = "reload" -> [fw EXCEPT !.runtime = fw.permanent]
      [] c[1] = "list" -> [fw EXCEPT !.lists = @ \cup {c[2]}]
      [] c[1] = "enable_service" -> [fw EXCEPT !.lists = @ \cup {<<"service", c[2]>>}]
      [] c[1] = "unlist" -> [fw EXCEPT !.lists = @ \ {c[2]}]
      [] c[1] = "nat" -> [fw EXCEPT !.nat = Append(@, c[2])]
      [] c[1] = "nat_unless_found" /\ found = 0 -> [fw EXCEPT !.nat = Append(@, c[2])]
      [] c[1] = "nat_at_found" -> [fw EXCEPT !.nat = At(@, found)]
      [] c[1] = "row" -> [fw EXCEPT !.rows = Append(@, c[2])]
      [] c[1] = "row_at" -> [fw EXCEPT !.rows = At(@, c[2])]
      [] OTHER -> fw

Found(c, old) ==
    CASE c[1] = "look" -> First(Texts(fw.chain), c[2])
      [] c[1] = "look_nat" -> First(fw.nat, c[2])
      [] OTHER -> old

\* firewall-cmd works only while firewalld runs.
Possible(c) == kind = "firewalld" /\ c[1] \in {"permanent", "not_permanent", "reload"} => fw.active

Local == {"forget", "store", "delete_listed"}

Remote(o) ==
    /\ Busy(o) /\ op[o].todo # <<>> /\ Command(o)[1] \notin Local
    /\ Command(o)[1] = "read" => cache = None

Succeed(o) ==
    /\ Remote(o) /\ Possible(Command(o))
    /\ fw' = Changed(Command(o), op[o].found)
    /\ op' = [op EXCEPT ![o].todo = Tail(@), ![o].ok = IF @ = "open" THEN "yes" ELSE @,
                        ![o].found = Found(Command(o), @),
                        ![o].read = IF Command(o)[1] = "read" THEN Status ELSE @]
    /\ UNCHANGED <<kind, cache, promised, history, calls, failures>>

\* The first command decides; a service Emare OS does not have is opened by its port.
\* (A look that fails finds nothing, and a status that cannot be read is kept as well.)
Fail(o) ==
    /\ Remote(o)
    /\ Possible(Command(o)) => failures < MaxFailures
    /\ failures' = failures + (IF Possible(Command(o)) THEN 1 ELSE 0)
    /\ op' = IF Command(o)[1] = "enable_service"
               THEN [op EXCEPT ![o].todo = AddRule("allow", Command(o)[2])]
             ELSE IF Command(o)[1] = "read" THEN [op EXCEPT ![o].todo = Tail(@), ![o].read = Unknown]
             ELSE IF op[o].ok = "open" THEN [op EXCEPT ![o] = Idle]
             ELSE [op EXCEPT ![o].todo = Tail(@),
                             ![o].found = IF Command(o)[1] \in {"look", "look_nat"} THEN 0 ELSE @]
    /\ UNCHANGED <<kind, fw, cache, promised, history, calls>>

\* _invalidate_cache
Invalidate(o) ==
    /\ Runs(o, "forget")
    /\ cache' = None
    /\ op' = [op EXCEPT ![o].todo = Tail(@)]
    /\ UNCHANGED <<kind, fw, promised, history, calls, failures>>

\* get_status, when there is a cached one
ReadCached(o) ==
    /\ Runs(o, "read") /\ cache # None
    /\ op' = [op EXCEPT ![o].todo = Tail(Tail(@)), ![o].read = cache]
    /\ UNCHANGED <<kind, fw, cache, promised, history, calls, failures>>

Store(o) ==
    /\ Runs(o, "store")
    /\ cache' = op[o].read
    /\ op' = [op EXCEPT ![o].todo = Tail(@)]
    /\ UNCHANGED <<kind, fw, promised, history, calls, failures>>

Expire ==
    /\ cache # None /\ cache' = None
    /\ UNCHANGED <<kind, fw, op, promised, history, calls, failures>>

\* delete_rule, once it has a status: by place, and with firewalld by what stands there.
Delete(o) ==
    /\ Runs(o, "delete_listed")
    /\ LET i == Command(o)[2]
           rules == op[o].read.rules
           todo == OnKind(<<<<"chain_at", i>>>>,
                          IF i \in DOMAIN rules THEN Permanently(<<"not_permanent", rules[i]>>) ELSE <<>>,
                          <<<<"chain_at", i>>>>)
       IN  op' = [op EXCEPT ![o] = IF todo = <<>> \/ op[o].read = Unknown THEN Idle
                                      ELSE [@ EXCEPT !.todo = todo, !.ok = "open"]]
    /\ UNCHANGED <<kind, fw, cache, promised, history, calls, failures>>

Answer(o) ==
    /\ Busy(o) /\ op[o].todo = <<>>
    /\ promised' = IF op[o].name = "block" /\ ~op[o].crossed THEN promised \cup {op[o].ip} ELSE promised
    /\ op' = [op EXCEPT ![o] = Idle]
    /\ UNCHANGED <<kind, fw, cache, history, calls, failures>>

Next ==
    \/ \E o \in Operator :
         \/ \E c \in Call : Begin(o, c)
         \/ Succeed(o) \/ Fail(o) \/ Invalidate(o) \/ ReadCached(o) \/ Store(o) \/ Delete(o) \/ Answer(o)
    \/ Expire

Spec == Init /\ [][Next]_vars

-----------------------------------------------------------------------------
Reloading(o) == Busy(o) /\ \E i \in DOMAIN op[o].todo : op[o].todo[i][1] = "reload"

\* With firewalld the running configuration is the permanent one, unless an operator is
\* between a permanent change and its reload, or a command failed: nothing is gone after
\* the next start of the server, and nothing comes back.
RuntimeFollowsPermanent ==
    kind = "firewalld" /\ fw.active /\ failures = 0 /\ (\A o \in Operator : ~Reloading(o))
      => fw.runtime = fw.permanent

Blocks(ip) ==
    OnKind(Places(fw.chain, Entry(<<"block", ip>>)) # {},
           <<"block", ip>> \in fw.runtime,
           <<"blocked", ip>> \in fw.lists /\ Places(fw.chain, Entry(<<"drop", "blocked">>)) # {})

\* An address whose blocking was answered has a rule in force that drops it until it is
\* unblocked, however calls for it and for others overlap: as long as no command fails and
\* no call takes rules away by their place.
BlockedHasItsRule ==
    fw.active /\ failures = 0 /\ "removing" \notin history => \A ip \in promised : Blocks(ip)

\* As long as calls do not overlap and only those are made that forget the status before
\* they write and do not read it themselves, the cached status is the server's.
CacheIsCurrent ==
    failures = 0 /\ history \cap {"overlap", "unforgotten"} = {} /\ cache # None /\ (\A o \in Operator : ~Busy(o))
      => cache = Status

\* What was answered is in force, survives a restart of the firewall, and is shown.
AnsweredIsInForce == RuntimeFollowsPermanent /\ BlockedHasItsRule /\ CacheIsCurrent

\* "yazma islemlerinden sonra cagrilir" (manager.py:275): a status from before a call is
\* not shown after it, with one operator.
AnsweredIsShown ==
    failures = 0 /\ "overlap" \notin history /\ cache # None /\ (\A o \in Operator : ~Busy(o)) => cache = Status

\* The rule that decides what happens to a packet, on ufw and Emare OS.
Matches(e, ip, p) ==
    e.on /\ (\/ e.rule = <<"drop", "blocked">> /\ <<"blocked", ip>> \in fw.lists
             \/ e.rule = <<"block", ip>> \/ e.rule[2] = p)
Decides(ip, p) == SelectInSeq(fw.chain, LAMBDA e : Matches(e, ip, p))

\* "IP adresini engeller (drop)" (manager.py:1078): a blocked address reaches no port.
BlockedReachesNothing ==
    kind # "firewalld" /\ fw.active /\ failures = 0 /\ "removing" \notin history =>
        \A ip \in promised, p \in Port :
            Decides(ip, p) # 0 => fw.chain[Decides(ip, p)].rule[1] \notin {"allow", "service"}

\* "devre disi birakildi" (manager.py:681): a firewall that was switched off is shown so.
DisabledIsShown ==
    kind = "emareos" /\ Status.active => \E i \in DOMAIN fw.chain : fw.chain[i].on
=============================================================================
