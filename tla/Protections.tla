----------------------------- MODULE Protections -----------------------------
(***************************************************************************)
(* The protections of the firewall library (emarefirewall/manager.py,      *)
(* apply_l7_protection, remove_l7_protection, get_l7_status) on a server.  *)
(*                                                                         *)
(* A protection is a list of marks it leaves on the server: a chain with a *)
(* jump to it, rules of INPUT, kernel settings, a file of nginx; on        *)
(* Emare OS rules found again by a word of their comment.  The commands    *)
(* that set and take away the marks are made one after the other over SSH  *)
(* and interleave with those of other operators.  What is on is told from  *)
(* a listing, which is kept for some seconds.  Rates, address ranges and   *)
(* the text of the snippets are left out; whether nginx accepts a snippet  *)
(* is up to the server.                                                    *)
(***************************************************************************)
EXTENDS Integers, Sequences, FiniteSets, SequencesExt, TLC

CONSTANTS
    Operator,
    Prot,           \* the protections that are asked for, of those below
    MaxCalls, MaxFailures,  \* bounds: calls in all, commands lost with the connection
    None

-----------------------------------------------------------------------------
\* What a protection leaves on a Linux server.

Chain(c) == <<"chain", c>>
Rule(r) == <<"rule", r>>
Setting(s) == <<"setting", s>>
Snippet(f) == <<"snippet", f>>

AttackMarks ==
    [syn_flood        |-> <<Chain("SYN_FLOOD")>>,
     http_flood       |-> <<Chain("HTTP_FLOOD")>>,
     slowloris        |-> <<Setting("tcp_fin_timeout"), Rule("connlimit 80"), Rule("connlimit 443")>>,
     icmp_flood       |-> <<Rule("icmp accept limit"), Rule("icmp drop")>>,
     port_scan        |-> <<Chain("PORT_SCAN")>>,
     bogus_tcp        |-> <<Rule("invalid"), Rule("new without syn")>>,
     connection_limit |-> <<Rule("connlimit all")>>,
     kernel_hardening |-> <<Setting("tcp_syncookies"), Setting("rp_filter")>>]

NginxMarks ==
    [nginx_rate_limit     |-> <<Snippet("ratelimit")>>,
     nginx_bad_bots       |-> <<Snippet("bad_bots")>>,
     nginx_sql_injection  |-> <<Snippet("sqli")>>,
     nginx_xss            |-> <<Snippet("xss")>>,
     nginx_path_traversal |-> <<Snippet("traversal")>>,
     nginx_method_filter  |-> <<Snippet("methods")>>,
     nginx_request_size   |-> <<Snippet("reqsize")>>]

NetworkMarks ==
    [l3_bogon_filter        |-> <<Chain("BOGON_FILTER")>>,
     l3_fragment_protection |-> <<Rule("fragments")>>,
     l3_spoof_protection    |-> <<Setting("rp_filter")>>]

TransportMarks ==
    [l4_udp_flood       |-> <<Chain("UDP_FLOOD")>>,
     l4_protocol_filter |-> <<Rule("sctp"), Rule("dccp"), Rule("gre")>>,
     l4_mss_clamp       |-> <<Rule("tcpmss")>>,
     l4_tcp_timestamps  |-> <<Setting("tcp_timestamps")>>]

ApplicationMarks ==
    [l7_dns_amplification |-> <<Rule("dns_amp udp"), Rule("dns_amp tcp")>>,
     l7_hsts              |-> <<Snippet("hsts")>>,
     l7_smuggling         |-> <<Snippet("smuggling")>>,
     l7_gzip_bomb         |-> <<Snippet("gzip")>>]

\* (Left out: the rules for IP options, whose failure is never seen, and the installation of
\* ModSecurity.)
Marks == AttackMarks @@ NginxMarks @@ NetworkMarks @@ TransportMarks @@ ApplicationMarks

\* What is undone when a protection is removed; a reboot is to undo the other settings.
Unset == [slowloris |-> <<"tcp_fin_timeout">>, l4_tcp_timestamps |-> <<"tcp_timestamps">>]

\* The jumps of the other chains have a match, which the removal does not name.
PlainJump == {"PORT_SCAN", "BOGON_FILTER"}

\* The rules of Emare OS: a rule is the set of words its comment is searched for.
EmareAttackRules ==
    [syn_flood |-> <<{"SYN"}>>, http_flood |-> <<{"HTTP"}>>, slowloris |-> <<{"slowloris"}>>,
     icmp_flood |-> <<{"ICMP"}>>, port_scan |-> <<{"port scan"}, {"port scan", "SYN"}>>,
     bogus_tcp |-> <<{"invalid state"}>>, connection_limit |-> <<{"connection limit"}>>]

EmareNetworkRules ==
    [l3_bogon_filter |-> <<{"bogon"}>>, l3_fragment_protection |-> <<{"fragment"}>>,
     l3_spoof_protection |-> <<{"spoof"}>>, l4_udp_flood |-> <<{"UDP"}>>,
     l4_protocol_filter |-> <<{"SCTP"}>>, l4_mss_clamp |-> <<{"MSS"}>>,
     l7_dns_amplification |-> <<{"DNS"}>>]

EmareRules == EmareAttackRules @@ EmareNetworkRules

\* Emare OS has its own time stamps, and its settings are not taken back: answered as done.
Unchanged == {"kernel_hardening", "l4_tcp_timestamps"}

EmareWord ==
    [syn_flood |-> "SYN", http_flood |-> "HTTP", slowloris |-> "slowloris", icmp_flood |-> "ICMP",
     port_scan |-> "port scan", bogus_tcp |-> "invalid state",
     connection_limit |-> "connection limit", l3_bogon_filter |-> "bogon",
     l3_fragment_protection |-> "fragment", l3_spoof_protection |-> "spoof",
     l4_udp_flood |-> "UDP", l4_protocol_filter |-> "SCTP", l4_mss_clamp |-> "MSS",
     l7_dns_amplification |-> "DNS"]

-----------------------------------------------------------------------------
VARIABLES
    kind,       \* "linux" or "emareos"
    refused,    \* the snippets this server's nginx does not accept
    srv,        \* the server
    op,         \* the call of each operator
    last,       \* what was answered last for a protection: "applied", "removed" or None
    doubled,    \* protections two calls were under way for at a time
    cache,      \* the status that is kept: the protections it shows, and (history) whether no
                \* application was under way, or asked for, while it was read
    calls, failures

vars == <<kind, refused, srv, op, last, doubled, cache, calls, failures>>

Snippets == UNION {{Marks[p][i][2] : i \in {j \in DOMAIN Marks[p] : Marks[p][j][1] = "snippet"}} : p \in Prot}

Init ==
    /\ kind \in {"linux", "emareos"}
    /\ refused \in SUBSET Snippets
    /\ srv = [rules |-> <<>>, chains |-> {}, full |-> {}, set |-> {}, files |-> {}, loaded |-> {}]
    /\ op = [o \in Operator |-> None]
    /\ last = [p \in Prot |-> None]
    /\ doubled = {} /\ cache = None /\ calls = 0 /\ failures = 0

-----------------------------------------------------------------------------
\* The programs: commands, each with the protection it is made for.

\* A rule is looked for before it is added, in one command line but in two steps.
AddOnce(r) == <<<<"look for", r>>, <<"add", r>>>>

Apply1(m) ==
    CASE m[1] = "chain" -> <<<<"new", m[2]>>, <<"flush", m[2]>>, <<"fill", m[2]>>>> \o AddOnce(m)
      [] m[1] = "rule" -> AddOnce(m)
      [] m[1] = "setting" -> <<<<"set", m[2]>>>>
      [] m[1] = "snippet" -> <<<<"look at", m[2]>>, <<"write", m[2]>>, <<"test", m[2]>>, <<"load", m[2]>>>>

\* Mutant of Remove1: the chain is left as it is.
BugRemove1(m) ==
    CASE m[1] = "chain" -> IF m[2] \in PlainJump THEN <<<<"take", m>>>> ELSE <<>>
      [] m[1] = "rule" -> <<<<"take", m>>>>
      [] m[1] = "setting" -> <<>>
      [] m[1] = "snippet" -> <<<<"erase", m[2]>>, <<"test and load", m[2]>>>>

Remove1(m) ==
    CASE m[1] = "chain" -> (IF m[2] \in PlainJump THEN <<<<"take", m>>>> ELSE <<>>)
                              \o <<<<"flush", m[2]>>, <<"drop", m[2]>>>>
      [] m[1] = "rule" -> <<<<"take", m>>>>
      [] m[1] = "setting" -> <<>>
      [] m[1] = "snippet" -> <<<<"erase", m[2]>>, <<"test and load", m[2]>>>>

For(p, cs) == [i \in DOMAIN cs |-> <<p, cs[i]>>]

Linux(p, F(_)) == For(p, FlattenSeq([i \in DOMAIN Marks[p] |-> F(Marks[p][i])]))

Reset(p) == IF p \in DOMAIN Unset THEN For(p, <<<<"unset", Unset[p][1]>>>>) ELSE <<>>

Apply(p) ==
    CASE kind = "linux" -> Linux(p, Apply1)
      [] kind = "emareos" /\ p \in DOMAIN EmareRules ->
            For(p, [i \in DOMAIN EmareRules[p] |-> <<"add", EmareRules[p][i]>>])
      [] kind = "emareos" /\ p = "kernel_hardening" -> For(p, <<<<"set", "tcp_syncookies">>>>)
      [] kind = "emareos" /\ p = "l4_tcp_timestamps" -> <<>>
      [] OTHER -> For(p, <<<<"unsupported">>>>)

Removal(p) ==
    CASE kind = "linux" -> Reset(p) \o Linux(p, Remove1)
      [] kind = "emareos" /\ p \in DOMAIN EmareWord -> For(p, <<<<"remove where", EmareWord[p]>>>>)
      [] kind = "emareos" /\ p \in Unchanged -> <<>>
      [] OTHER -> For(p, <<<<"unsupported">>>>)

-----------------------------------------------------------------------------
Busy(o) == op[o] # None
Looks(o) == Busy(o) /\ op[o].what = "shown"
Changes(o) == Busy(o) /\ ~Looks(o)

\* An application forgets the status that is kept; a removal does not.
Outdated == [q \in Operator |-> IF Looks(q) THEN [op[q] EXCEPT !.sound = FALSE] ELSE op[q]]

\* One protection is removed at a time; a list of them is applied, or all.
Begin(o, what, ps) ==
    /\ ~Busy(o) /\ calls < MaxCalls
    /\ calls' = calls + 1
    /\ LET todo == IF what = "applied" THEN FlattenSeq([i \in DOMAIN ps |-> Apply(ps[i])]) ELSE Removal(ps[1])
       IN  op' = [IF what = "applied" THEN Outdated ELSE op
                    EXCEPT ![o] = [what |-> what, ps |-> ToSet(ps), todo |-> todo, failed |-> {}]]
    /\ cache' = IF what = "applied" THEN None ELSE cache
    /\ last' = [p \in Prot |-> IF p \in ToSet(ps) THEN None ELSE last[p]]
    /\ doubled' = doubled \cup {p \in ToSet(ps) : \E q \in Operator : Changes(q) /\ p \in op[q].ps}
    /\ UNCHANGED <<kind, refused, srv, failures>>

Command(o) == Head(op[o].todo)[2]
For1(o) == Head(op[o].todo)[1]

\* nginx -t
Valid == srv.files \cap refused = {}

Without(r) == LET i == SelectInSeq(srv.rules, LAMBDA x : x = r)
              IN  IF i = 0 THEN srv.rules ELSE RemoveAt(srv.rules, i)

Jumps(c) == \E i \in DOMAIN srv.rules : srv.rules[i] = Chain(c)

Changed(c) ==
    CASE c[1] = "add" -> [srv EXCEPT !.rules = Append(@, c[2])]
      [] c[1] = "take" -> [srv EXCEPT !.rules = Without(c[2])]
      [] c[1] = "remove where" -> [srv EXCEPT !.rules = SelectSeq(@, LAMBDA r : c[2] \notin r)]
      [] c[1] = "new" -> [srv EXCEPT !.chains = @ \cup {c[2]}]
      [] c[1] = "flush" -> [srv EXCEPT !.full = @ \ {c[2]}]
      [] c[1] = "fill" -> [srv EXCEPT !.full = @ \cup {c[2]}]
      [] c[1] = "drop" /\ ~Jumps(c[2]) -> [srv EXCEPT !.chains = @ \ {c[2]}]
      [] c[1] = "set" -> [srv EXCEPT !.set = @ \cup {c[2]}]
      [] c[1] = "unset" -> [srv EXCEPT !.set = @ \ {c[2]}]
      [] c[1] = "write" -> [srv EXCEPT !.files = @ \cup {c[2]}]
      [] c[1] = "erase" -> [srv EXCEPT !.files = @ \ {c[2]}]
      [] c[1] \in {"load", "test and load"} /\ Valid -> [srv EXCEPT !.loaded = srv.files]
      [] OTHER -> srv

\* The rest of the commands for the protection under way.
Rest(o) == Tail(op[o].todo)
Others(o) == SelectSeq(op[o].todo, LAMBDA x : x[1] # For1(o))

\* A rule or a file that is there is not added; a file nginx does not accept is taken away.
NextTodo(o) ==
    LET c == Command(o)
    IN  CASE c[1] = "look for" /\ \E i \in DOMAIN srv.rules : srv.rules[i] = c[2] -> Tail(Rest(o))
          [] c[1] = "look at" /\ c[2] \in srv.files -> Others(o)
          [] c[1] = "test" /\ ~Valid -> <<<<For1(o), <<"erase", c[2]>>>>>> \o Others(o)
          [] OTHER -> Rest(o)

Refuses(c) == c[1] = "unsupported" \/ (c[1] = "test" /\ ~Valid)

Succeed(o) ==
    /\ Changes(o) /\ op[o].todo # <<>>
    /\ srv' = Changed(Command(o))
    /\ op' = [op EXCEPT ![o].todo = NextTodo(o),
                        ![o].failed = @ \cup (IF Refuses(Command(o)) THEN {For1(o)} ELSE {})]
    /\ UNCHANGED <<kind, refused, last, doubled, cache, calls, failures>>

\* The commands whose failure is not looked at: the reload, the rollback, and all of a removal on Emare OS.
Unseen(o) == Command(o)[1] \in {"load", "remove where"} \/ (Command(o)[1] = "erase" /\ op[o].what = "applied")

\* A command that does not reach the server: a look finds nothing, a test is not passed.
Fail(o) ==
    /\ Changes(o) /\ op[o].todo # <<>> /\ Command(o)[1] \notin {"unsupported", "look for"}
    /\ failures < MaxFailures /\ failures' = failures + 1
    /\ LET c == Command(o)
           sees == ~Unseen(o) /\ c[1] # "look at"
       IN  op' = [op EXCEPT ![o].failed = @ \cup (IF sees THEN {For1(o)} ELSE {}),
                            ![o].todo = CASE c[1] = "write" -> Others(o)
                                          [] c[1] = "test" -> <<<<For1(o), <<"erase", c[2]>>>>>> \o Others(o)
                                          [] OTHER -> Rest(o)]
    /\ UNCHANGED <<kind, refused, srv, last, doubled, cache, calls>>

Answer(o) ==
    /\ Changes(o) /\ op[o].todo = <<>>
    /\ last' = [p \in Prot |-> IF p \in op[o].ps \ op[o].failed THEN op[o].what ELSE last[p]]
    /\ op' = [op EXCEPT ![o] = None]
    /\ UNCHANGED <<kind, refused, srv, doubled, cache, calls, failures>>

-----------------------------------------------------------------------------
\* The status: one listing of the tables, the settings and the files of nginx.

Has(r) == \E i \in DOMAIN srv.rules : srv.rules[i] = r

\* What a protection is told by on Linux: the name of a chain, a word iptables prints for a
\* rule, a setting, a file.  (Port scans, limits of connections, fragments and DNS are
\* looked for by words that are not printed for their marks.)
Visible ==
    [syn_flood |-> Chain("SYN_FLOOD"), http_flood |-> Chain("HTTP_FLOOD"),
     slowloris |-> Setting("tcp_fin_timeout"), icmp_flood |-> Rule("icmp drop"),
     bogus_tcp |-> Rule("invalid"), kernel_hardening |-> Setting("tcp_syncookies"),
     l3_bogon_filter |-> Chain("BOGON_FILTER"), l3_spoof_protection |-> Setting("rp_filter"),
     l4_udp_flood |-> Chain("UDP_FLOOD"), l4_protocol_filter |-> Rule("sctp"),
     l4_mss_clamp |-> Rule("tcpmss"), l4_tcp_timestamps |-> Setting("tcp_timestamps"),
     l7_gzip_bomb |-> Snippet("gzip")]

\* What is found in the files of nginx is piped into head, which succeeds on nothing too:
\* these are shown wherever there is an nginx, as there is on a server with snippets.
Piped == (DOMAIN NginxMarks) \cup {"l7_hsts", "l7_smuggling"}

Seen(m) ==
    CASE m[1] = "chain" -> m[2] \in srv.chains
      [] m[1] = "rule" -> Has(m)
      [] m[1] = "setting" -> m[2] \in srv.set
      [] m[1] = "snippet" -> m[2] \in srv.files

\* On Emare OS: words of the rules themselves.  The rules that are listed by comment are those
\* with "emare-security-os", but none is added with that.
Flagged == \E r \in {{"SYN"}, {"port scan"}, {"port scan", "SYN"}} : Has(r)
EmareSeen(p) ==
    \/ p = "syn_flood" /\ Flagged
    \/ p = "connection_limit" /\ \E r \in {{"HTTP"}, {"connection limit"}, {"slowloris"}} : Has(r)
    \/ p = "icmp_flood" /\ Has({"ICMP"})
    \/ p = "bogus_tcp" /\ Has({"invalid state"}) /\ Flagged

Shown ==
    IF kind = "linux" THEN {p \in Prot : p \in Piped \/ (p \in DOMAIN Visible /\ Seen(Visible[p]))}
    ELSE {p \in Prot : EmareSeen(p)}

\* A status that is kept is given as it is; without one the server is asked.
Look(o) ==
    /\ ~Busy(o) /\ calls < MaxCalls /\ cache = None
    /\ calls' = calls + 1
    /\ op' = [op EXCEPT ![o] = [what |-> "shown", read |-> FALSE, seen |-> {},
                                sound |-> \A q \in Operator : Changes(q) => op[q].what = "removed"]]
    /\ UNCHANGED <<kind, refused, srv, last, doubled, cache, failures>>

List(o) ==
    /\ Looks(o) /\ ~op[o].read
    /\ op' = [op EXCEPT ![o].read = TRUE, ![o].seen = Shown]
    /\ UNCHANGED <<kind, refused, srv, last, doubled, cache, calls, failures>>

\* A listing that does not come is an empty one.
ListFails(o) ==
    /\ Looks(o) /\ ~op[o].read
    /\ failures < MaxFailures /\ failures' = failures + 1
    /\ op' = [op EXCEPT ![o].read = TRUE, ![o].sound = FALSE]
    /\ UNCHANGED <<kind, refused, srv, last, doubled, cache, calls>>

Keep(o) ==
    /\ Looks(o) /\ op[o].read
    /\ cache' = [seen |-> op[o].seen, sound |-> op[o].sound]
    /\ op' = [op EXCEPT ![o] = None]
    /\ UNCHANGED <<kind, refused, srv, last, doubled, calls, failures>>

\* The seconds are over.
Expire ==
    /\ cache # None /\ cache' = None
    /\ UNCHANGED <<kind, refused, srv, op, last, doubled, calls, failures>>

Lists == {<<p>> : p \in Prot} \cup {SetToSeq(Prot)}

Next ==
    \/ Expire
    \/ \E o \in Operator :
        \/ \E ps \in Lists : Begin(o, "applied", ps)
        \/ \E p \in Prot : Begin(o, "removed", <<p>>)
        \/ Succeed(o) \/ Fail(o) \/ Answer(o)
        \/ Look(o) \/ List(o) \/ ListFails(o) \/ Keep(o)

Spec == Init /\ [][Next]_vars

-----------------------------------------------------------------------------
Holds(m) ==
    CASE m[1] = "chain" -> Has(m) /\ m[2] \in srv.full
      [] m[1] = "rule" -> Has(m)
      [] m[1] = "setting" -> m[2] \in srv.set
      [] m[1] = "snippet" -> m[2] \in srv.files

\* On Linux a protection whose application was answered is in force until somebody asks for
\* its removal: nothing that is applied, refused, removed or lost for another one takes a
\* chain, a rule, a setting or a file of it away.
ProtectedIsInForce ==
    kind = "linux" => \A p \in Prot \ doubled : last[p] = "applied" => \A i \in DOMAIN Marks[p] : Holds(Marks[p][i])

Drops(m) ==
    CASE m[1] = "chain" -> m[2] \in srv.full
      [] m[1] = "rule" -> Has(m)
      [] m[1] = "setting" -> FALSE
      [] m[1] = "snippet" -> m[2] \in srv.files

\* A protection whose removal was answered drops nothing any more, however often and with
\* what others it was applied before (its jump may be left, to an empty chain).
RemovedDropsNothing ==
    \A p \in Prot \ doubled : last[p] = "removed" =>
        IF kind = "linux" THEN \A i \in DOMAIN Marks[p] : ~Drops(Marks[p][i])
        ELSE failures = 0 /\ p \in DOMAIN EmareRules
               => \A i \in DOMAIN EmareRules[p] : ~Has(EmareRules[p][i])

\* The status that is kept shows every protection whose application was answered and that a
\* listing can tell, unless it was read while one was under way, or could not be read.
AppliedIsShown ==
    kind = "linux" /\ cache # None /\ cache.sound =>
        \A p \in Prot \ doubled : last[p] = "applied" /\ p \in Piped \cup DOMAIN Visible
            => p \in cache.seen

\* What an application and a removal were answered to have done is so, whatever the others did
\* since, and a status shows what was applied.
AnswersHold == ProtectedIsInForce /\ RemovedDropsNothing /\ AppliedIsShown

\* "Belirli bir koruma kuralini kaldirir" (manager.py:2847): one protection's removal takes
\* no rule of another one, on Emare OS too.
RemovalIsLocal ==
    kind = "emareos" => \A p \in Prot \ doubled : last[p] = "applied" /\ p \in DOMAIN EmareRules
                          => \A i \in DOMAIN EmareRules[p] : Has(EmareRules[p][i])

\* "etkinlestirildi ve nginx yeniden yuklendi" (manager.py:3179): a snippet whose application was
\* answered is loaded.
AppliedIsLoaded ==
    \A p \in Prot \ doubled : last[p] = "applied" /\ kind = "linux"
        => \A i \in DOMAIN Marks[p] : Marks[p][i][1] = "snippet" => Marks[p][i][2] \in srv.loaded

\* "yazma islemlerinden sonra cagrilir" (manager.py:275, of forgetting the status): no status that
\* is kept shows what was answered as removed.
RemovedIsNotShown ==
    cache # None => \A p \in Prot \ doubled : last[p] = "removed" => p \notin cache.seen

\* "tum katman koruma durumunu kontrol eder" (manager.py:1955): on Emare OS too, a status shows
\* what was applied before it was read.
AppliedIsShownOnEmare ==
    kind = "emareos" /\ cache # None /\ cache.sound =>
        \A p \in Prot \ doubled : last[p] = "applied" => p \in cache.seen
=============================================================================
