------------------------------ MODULE Networks ------------------------------
(***************************************************************************)
(* The networks of the firewall library: lists of servers that each        *)
(* process keeps in its memory (emarefirewall/routes.py), the rule that is *)
(* applied to all of them and the check whether they agree                 *)
(* (network_apply_rule and network_sync_check in manager.py).              *)
(*                                                                         *)
(* Both go from server to server, and other requests change members and    *)
(* rules meanwhile.  A rule is applied to a copy of the list, but a check  *)
(* goes through the list itself, which others may change in place.  A      *)
(* server that cannot be reached counts as one without rules.  One that    *)
(* was sent twice is in the list twice, and a removal takes out the first. *)
(* A request reaches any of the processes, and each of them numbers its    *)
(* networks on its own.                                                    *)
(***************************************************************************)
EXTENDS Naturals, FiniteSets, Sequences, SequencesExt

CONSTANTS
    Process, Server, Rule, None,
    Applier, Checker,   \* bound: the requests that apply rules, and those that check, at a time
    MaxNetworks,    \* bound: the networks a process creates
    MaxMembers      \* bound: how many members are sent: 100

ConstantsAssumption == MaxNetworks \in Nat

Request == Applier \cup Checker
Lists == UNION {[1 .. n -> Server] : n \in 0 .. MaxMembers}

VARIABLES
    members,    \* _networks of each process: the members of a network, None where there is none
    seq,        \* _network_seq
    name,       \* history: which network an id has named first, by what was created when
    rules,      \* the rules of each server, as its firewall has them
    request     \* each request under way: what it does, in which process, where it stands, what it has
                \* found, and for the properties whether all of that is still so

vars == <<members, seq, name, rules, request>>

Id == 1 .. MaxNetworks
\* A request goes on at the index next of the list of network on, or has a list of its own left.
Free == [kind |-> "none", rule |-> None, proc |-> None, on |-> 0, next |-> 1, left |-> <<>>,
         all |-> {}, seen |-> <<>>, quiet |-> TRUE]

Init ==
    /\ members = [p \in Process |-> [i \in Id |-> None]]
    /\ seq = [p \in Process |-> 0]
    /\ name = [p \in Process |-> [i \in Id |-> 0]]
    /\ rules \in [Server -> SUBSET Rule]
    /\ request = [r \in Request |-> Free]

Known(p, i) == members[p][i] # None

Rest(r) ==
    LET q == request[r] IN
    IF q.on = 0 THEN q.left ELSE SubSeq(members[q.proc][q.on], q.next, Len(members[q.proc][q.on]))

Advanced(r) ==
    IF request[r].on = 0 THEN [request[r] EXCEPT !.left = Tail(@)] ELSE [request[r] EXCEPT !.next = @ + 1]

\* Whoever goes through the list of a network keeps that list when the network gets another one.
KeepList(p, i) ==
    request' = [r \in Request |->
        IF request[r].proc = p /\ request[r].on = i
        THEN [request[r] EXCEPT !.on = 0, !.next = 1, !.left = Rest(r)] ELSE request[r]]

-----------------------------------------------------------------------------
(***************************************************************************)
(* The lists                                                               *)
(***************************************************************************)
\* Mutant of NewId: one more than there are networks.
BugNewId(p) == Cardinality({i \in Id : Known(p, i)}) + 1

NewId(p) == seq[p] + 1

\* name numbers the creations; a later one under the same id would change it.
CreateNetwork(p, list) ==
    /\ seq[p] < MaxNetworks
    /\ seq' = [seq EXCEPT ![p] = @ + 1]
    /\ members' = [members EXCEPT ![p][NewId(p)] = list]
    /\ name' = [name EXCEPT ![p][NewId(p)] = @ + seq'[p]]
    /\ UNCHANGED <<rules, request>>

UpdateNetwork(p, i, list) ==
    /\ Known(p, i)
    /\ members' = [members EXCEPT ![p][i] = list]
    /\ KeepList(p, i)
    /\ UNCHANGED <<seq, name, rules>>

DeleteNetwork(p, i) ==
    /\ Known(p, i)
    /\ members' = [members EXCEPT ![p][i] = None]
    /\ KeepList(p, i)
    /\ UNCHANGED <<seq, name, rules>>

AddMember(p, i, s) ==
    /\ Known(p, i) /\ ~Contains(members[p][i], s) /\ Len(members[p][i]) < MaxMembers
    /\ members' = [members EXCEPT ![p][i] = Append(@, s)]
    /\ UNCHANGED <<seq, name, rules, request>>

RemoveMember(p, i, s) ==
    /\ Known(p, i) /\ Contains(members[p][i], s)
    /\ members' = [members EXCEPT ![p][i] = RemoveFirst(@, s)]
    /\ request' = [r \in Request |->
            IF request[r].proc = p /\ request[r].on = i /\ ~Contains(members'[p][i], s)
            THEN [request[r] EXCEPT !.all = @ \ {s}] ELSE request[r]]
    /\ UNCHANGED <<seq, name, rules>>

-----------------------------------------------------------------------------
(***************************************************************************)
(* Going from server to server                                             *)
(***************************************************************************)
\* Of the servers that were asked for only members are taken.
StartApply(r, p, i, kind, x) ==
    /\ request[r] = Free /\ Known(p, i)
    /\ \E asked \in SUBSET ToSet(members[p][i]) \ {{}} :
        request' = [request EXCEPT ![r] = [Free EXCEPT
            !.kind = kind, !.proc = p, !.rule = x,
            !.left = SelectSeq(members[p][i], LAMBDA s : s \in asked)]]
    /\ UNCHANGED <<members, seq, name, rules>>

StartCheck(r, p, i) ==
    /\ request[r] = Free /\ Known(p, i)
    /\ request' = [request EXCEPT ![r] = [Free EXCEPT
            !.kind = "check", !.proc = p, !.on = i, !.all = ToSet(members[p][i])]]
    /\ UNCHANGED <<members, seq, name, rules>>

Applies(r) == request[r].kind \in {"add_rule", "delete_rule"}

\* The rule is added or deleted on one server; or not, because it cannot be reached or refuses.
Apply(r) ==
    /\ Applies(r) /\ Rest(r) # <<>>
    /\ LET s == Head(Rest(r))  x == request[r].rule IN
        \/ /\ rules' = [rules EXCEPT ![s] = IF request[r].kind = "add_rule" THEN @ \cup {x} ELSE @ \ {x}]
           /\ request' = [q \in Request |->
                CASE q = r -> Advanced(r)
                  [] request[q].kind = "check" -> [request[q] EXCEPT !.quiet = @ /\ rules' = rules]
                  [] OTHER -> request[q]]
        \/ /\ request' = [request EXCEPT ![r] = Advanced(r)]
           /\ rules' = rules
    /\ UNCHANGED <<members, seq, name>>

EndApply(r) ==
    /\ Applies(r) /\ Rest(r) = <<>>
    /\ request' = [request EXCEPT ![r] = Free]
    /\ UNCHANGED <<members, seq, name, rules>>

\* The rules of one server; a server that is there twice is kept once.
Look(r) ==
    /\ request[r].kind = "check" /\ Rest(r) # <<>>
    /\ LET s == Head(Rest(r)) IN
        \E online \in BOOLEAN :
            request' = [request EXCEPT ![r] = [Advanced(r) EXCEPT
                !.quiet = @ /\ online,
                !.seen = [t \in DOMAIN @ \cup {s} |->
                            IF t = s THEN (IF online THEN rules[s] ELSE {}) ELSE @[t]]]]
    /\ UNCHANGED <<members, seq, name, rules>>

\* What some servers have and others have not.
Diverged(seen) == {x \in UNION {seen[s] : s \in DOMAIN seen} : \E s \in DOMAIN seen : x \notin seen[s]}

Asked(r) == request[r].kind = "check" /\ Rest(r) = <<>>

Answer(r) ==
    LET seen == request[r].seen IN
    IF DOMAIN seen = {} THEN "unknown" ELSE IF Diverged(seen) = {} THEN "synced" ELSE "diverged"

EndCheck(r) ==
    /\ Asked(r)
    /\ request' = [request EXCEPT ![r] = Free]
    /\ UNCHANGED <<members, seq, name, rules>>

\* The process ends; its networks were nowhere else.
Restart(p) ==
    /\ seq[p] > 0
    /\ members' = [members EXCEPT ![p] = [i \in Id |-> None]]
    /\ seq' = [seq EXCEPT ![p] = 0]
    /\ name' = [name EXCEPT ![p] = [i \in Id |-> 0]]
    /\ request' = [r \in Request |-> IF request[r].proc = p THEN Free ELSE request[r]]
    /\ UNCHANGED <<rules>>

Next ==
    \/ \E p \in Process :
        \/ \E list \in Lists : CreateNetwork(p, list) \/ \E i \in Id : UpdateNetwork(p, i, list)
        \/ \E i \in Id : DeleteNetwork(p, i) \/ \E s \in Server : AddMember(p, i, s) \/ RemoveMember(p, i, s)
        \/ \E i \in Id, r \in Applier, x \in Rule, kind \in {"add_rule", "delete_rule"} : StartApply(r, p, i, kind, x)
        \/ \E i \in Id, r \in Checker : StartCheck(r, p, i)
        \/ Restart(p)
    \/ \E r \in Request : Apply(r) \/ EndApply(r) \/ Look(r) \/ EndCheck(r)

Spec == Init /\ [][Next]_vars

-----------------------------------------------------------------------------
TypeOK ==
    /\ \A p \in Process, i \in Id : Known(p, i) => members[p][i] \in Lists
    /\ seq \in [Process -> 0 .. MaxNetworks]
    /\ rules \in [Server -> SUBSET Rule]
    /\ \A r \in Request : request[r].kind \in {"none", "add_rule", "delete_rule", "check"} /\ ToSet(Rest(r)) \subseteq Server

(***************************************************************************)
(* While a process runs an id names one network, also after networks have  *)
(* been deleted.  And what a check answers is so of the servers it has     *)
(* looked at, if all of them could be reached and no rule of theirs        *)
(* changed while it went from one to the next: "synced" if they have the   *)
(* same rules, "diverged" if not.                                          *)
(***************************************************************************)
NetworksAreTold ==
    /\ \A p \in Process, i \in Id : Known(p, i) => name[p][i] = i
    /\ \A r \in Checker : Asked(r) /\ request[r].quiet =>
        LET of == DOMAIN request[r].seen IN
        Answer(r) = IF of = {} THEN "unknown"
                    ELSE IF \A s, t \in of : rules[s] = rules[t] THEN "synced" ELSE "diverged"

(***************************************************************************)
(* "Takes the rules of all servers" (manager.py, line 4243).  The code     *)
(* does not keep it: after a removal before the place it has come to, a    *)
(* check leaves out the next member.                                       *)
(***************************************************************************)
EveryMemberIsAsked ==
    \A r \in Checker : Asked(r) => request[r].all \subseteq DOMAIN request[r].seen

=============================================================================
