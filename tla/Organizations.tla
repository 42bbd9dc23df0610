---------------------------- MODULE Organizations ----------------------------
(***************************************************************************)
(* The organizations of the panel (routes/organizations.py, servers.py,    *)
(* models.py): their plans, quotas, members and servers.                   *)
(*                                                                         *)
(* Several processes serve requests on one SQLite file.  A request reads   *)
(* row by row; its first write takes the file, and what it writes becomes  *)
(* visible at once in its commit.  A request that reads before it writes   *)
(* is two steps here, one that only looks whether its row is there is one. *)
(* Foreign keys are not enforced, and a row gets the number after the      *)
(* highest there is, so that numbers of deleted rows come back.            *)
(*                                                                         *)
(* Who may ask for what (rbac.py) is left out, and so is what a request    *)
(* only shows: any request may come.                                       *)
(***************************************************************************)
EXTENDS FiniteSetsExt, Integers

CONSTANTS
    Worker,     \* requests served at a time
    User, Server,
    Plan,
    Payment,    \* transactions of the token
    Chain,      \* the chain is configured and reached
    PaysFor,    \* the plans whose price each of them has paid, within a hundredth
    Limit,      \* max_servers of the licence, a number of servers
    Members,    \* max_users of every plan
    MaxOrg,     \* bound: highest number of an organization
    MaxRow,     \* bound: highest number of a subscription
    MaxBegun,   \* bound: requests, of those that are counted
    None

VARIABLES
    orgs,       \* numbers of the organizations; 1 is the default one
    rows,       \* subscriptions
    quota,      \* resource_quotas: the plan a quota was taken from, or "custom"
    member,     \* User.org_id: 0 for none, None where there is no such user
    server,     \* ServerCredential.org_id, likewise
    token,      \* ApiToken.org_id of a user's token, likewise
    req,        \* the request of each worker, with what it has read
    begun,
    late        \* an organization was deleted under a request about it

ConstantsAssumption ==
    /\ IsFiniteSet(Worker) /\ Worker # {}
    /\ Limit \in Nat /\ MaxOrg \in Nat \ {0} /\ MaxRow \in Nat \ {0}
    /\ "custom" \notin Plan
    /\ None \notin Plan \cup Payment \cup Nat \cup {"custom"}

vars == <<orgs, rows, quota, member, server, token, req, begun, late>>
tables == <<orgs, rows, quota, member, server, token>>

Id == 1 .. MaxOrg

Row(id, o, p, t) == [id |-> id, org |-> o, plan |-> p, active |-> TRUE, payment |-> t]

Init ==
    \E p \in Plan :
        /\ orgs = {1}
        /\ rows = {Row(1, 1, p, None)}
        /\ quota = [o \in Id |-> IF o = 1 THEN p ELSE None]
        /\ member = [u \in User |-> IF u = CHOOSE v \in User : TRUE THEN 1 ELSE None]
        /\ server = [s \in Server |-> None]
        /\ token = [u \in User |-> None]
        /\ req = [w \in Worker |-> None]
        /\ begun = 0 /\ late = FALSE

-----------------------------------------------------------------------------
Active(o) == {r \in rows : r.org = o /\ r.active}
Next1(ids) == Max(ids \cup {0}) + 1
NextRow == Next1({r.id : r \in rows})
MembersOf(o) == {u \in User : member[u] = o}
ServersOf(o) == {s \in Server : server[s] = o}

Count == begun < MaxBegun /\ begun' = begun + 1

Begin(w, r) ==
    /\ req[w] = None /\ Count
    /\ req' = [req EXCEPT ![w] = r]
    /\ UNCHANGED <<tables, late>>

Asks(w, kind) == req[w] # None /\ req[w].kind = kind
End(w) == req' = [req EXCEPT ![w] = None] /\ UNCHANGED <<begun, late>>

\* One section, from the first write to the commit: the organization, and unless the name
\* of the plan is unknown its subscription and its quota, of which there can be but one.
CreateOrg(p) ==
    LET o == Next1(orgs)
    IN  /\ o \in Id /\ NextRow <= MaxRow
        /\ p # None => quota[o] = None
        /\ orgs' = orgs \cup {o}
        /\ rows' = IF p = None THEN rows ELSE rows \cup {Row(NextRow, o, p, None)}
        /\ quota' = IF p = None THEN quota ELSE [quota EXCEPT ![o] = p]
        /\ UNCHANGED <<member, server, token, req, begun, late>>

\* What is left without its organization when o is deleted.
Orphaned(column, o) == [x \in DOMAIN column |-> IF column[x] = o THEN 0 ELSE column[x]]

\* Mutant of Kept: the subscriptions stay.
BugKept(o) == rows

Kept(o) == {r \in rows : r.org # o}

\* Subscriptions and quota go with the organization, members and servers are left without one.
DeleteOrg(o) ==
    /\ o \in orgs \ {1}
    /\ orgs' = orgs \ {o}
    /\ rows' = Kept(o)
    /\ quota' = [quota EXCEPT ![o] = None]
    /\ member' = Orphaned(member, o) /\ server' = Orphaned(server, o)
    /\ late' = (late \/ \E w \in Worker : req[w] # None /\ req[w].org = o)
    /\ UNCHANGED <<token, req, begun>>

UpdateQuota(o) ==
    /\ o \in orgs /\ Count
    /\ quota' = [quota EXCEPT ![o] = "custom"]
    /\ UNCHANGED <<orgs, rows, member, server, token, req, late>>

-----------------------------------------------------------------------------

\* A transfer that has been confirmed, from the wallet that is named, of what the plan costs.
\* Without the chain any transaction is believed.
Verified(t, p) == Chain => p \in PaysFor[t]

Unspent(t) == ~\E r \in rows : r.payment = t

\* Another plan, as the administrator decides (t = None) or as a payment buys it, which is
\* looked up in the chain before the subscription that counts is read.
BeginPlan(w, o, p, t) ==
    /\ o \in orgs
    /\ t # None => Verified(t, p) /\ Unspent(t)
    /\ Begin(w, [kind |-> "plan", org |-> o, plan |-> p, payment |-> t, old |-> None])

ReadOld(w) ==
    /\ Asks(w, "plan")
    /\ \/ Active(req[w].org) = {} /\ req' = [req EXCEPT ![w].kind = "commit"]
       \/ \E r \in Active(req[w].org) : req' = [req EXCEPT ![w].kind = "commit", ![w].old = r.id]
    /\ UNCHANGED <<tables, begun, late>>

\* The subscription that was read is cancelled, and there is one to the plan.
Resubscribed(r) ==
    {IF x.id = r.old THEN [x EXCEPT !.active = FALSE] ELSE x : x \in rows}
        \cup {Row(NextRow, r.org, r.plan, r.payment)}

\* The row that was read may be gone, which fails the request, or another's by now.
ChangePlan(w) ==
    LET r == req[w]
    IN  /\ Asks(w, "commit")
        /\ \/ /\ r.old = None \/ \E x \in rows : x.id = r.old
              /\ NextRow <= MaxRow
              /\ rows' = Resubscribed(r)
              /\ quota' = [quota EXCEPT ![r.org] = r.plan]
           \/ /\ r.old # None /\ \A x \in rows : x.id # r.old
              /\ UNCHANGED <<rows, quota>>
        /\ End(w)
        /\ UNCHANGED <<orgs, member, server, token>>

\* A custom quota stands for any.
BeginMember(w, o, u) ==
    /\ o \in orgs /\ member[u] # None
    /\ quota[o] \in Plan => Cardinality(MembersOf(o)) < Members
    /\ Begin(w, [kind |-> "member", org |-> o, user |-> u, to |-> o])

BeginRemoval(w, o, u) ==
    /\ member[u] = o
    /\ Begin(w, [kind |-> "member", org |-> o, user |-> u, to |-> 0])

\* The user may have been moved, or deleted, meanwhile.
SetMember(w) ==
    /\ Asks(w, "member")
    /\ member' = IF member[req[w].user] = None THEN member
                 ELSE [member EXCEPT ![req[w].user] = req[w].to]
    /\ End(w)
    /\ UNCHANGED <<orgs, rows, quota, server, token>>

\* Without a look at the quota.
CreateUser(u, o) ==
    /\ member[u] = None /\ o \in orgs \cup {0}
    /\ member' = [member EXCEPT ![u] = o]
    /\ UNCHANGED <<orgs, rows, quota, server, token, req, begun, late>>

\* The token carries the organization that its user has now.
CreateToken(u) ==
    /\ member[u] # None /\ Count
    /\ token' = [token EXCEPT ![u] = member[u]]
    /\ UNCHANGED <<orgs, rows, quota, member, server, req, late>>

\* The limit is that of the licence, whatever the quota says.
BeginServer(w, o) ==
    /\ o \in orgs \cup {0}
    /\ Cardinality(ServersOf(o)) < Limit
    /\ Begin(w, [kind |-> "server", org |-> o])

AddServer(w) ==
    /\ Asks(w, "server")
    /\ \E s \in Server :
        /\ server[s] = None
        /\ server' = [server EXCEPT ![s] = req[w].org]
    /\ End(w)
    /\ UNCHANGED <<orgs, rows, quota, member, token>>

DeleteServer(s) ==
    /\ server[s] # None
    /\ server' = [server EXCEPT ![s] = None]
    /\ UNCHANGED <<orgs, rows, quota, member, token, req, begun, late>>

Next ==
    \/ \E p \in Plan \cup {None} : CreateOrg(p)
    \/ \E o \in Id : DeleteOrg(o) \/ UpdateQuota(o)
    \/ \E w \in Worker :
        \/ \E o \in Id, p \in Plan, t \in Payment \cup {None} : BeginPlan(w, o, p, t)
        \/ \E o \in Id, u \in User : BeginMember(w, o, u) \/ BeginRemoval(w, o, u)
        \/ \E o \in Id \cup {0} : BeginServer(w, o)
        \/ ReadOld(w) \/ ChangePlan(w) \/ SetMember(w) \/ AddServer(w)
    \/ \E u \in User : CreateToken(u) \/ \E o \in Id \cup {0} : CreateUser(u, o)
    \/ \E s \in Server : DeleteServer(s)

Spec == Init /\ [][Next]_vars

-----------------------------------------------------------------------------
\* Whatever changes of plan overlap, the quota an organization works under is that of a plan it is
\* subscribed to, or one that an administrator has set; and nothing of an organization outlives
\* it, unless it was deleted under a request about it.
QuotaIsSubscribed ==
    late \/ \A o \in Id :
        /\ quota[o] \in Plan => \E r \in Active(o) : r.plan = quota[o]
        /\ o \notin orgs =>
             quota[o] = None /\ MembersOf(o) \cup ServersOf(o) = {} /\ \A r \in rows : r.org # o

\* A payment buys one subscription and at most one more for each request that it is sent with at
\* a time, each to a plan whose price it is where the chain tells; and an organization has no more servers than the licence and one for each such request.
SpentOnce ==
    /\ \A r \in rows : Chain /\ r.payment # None => r.plan \in PaysFor[r.payment]
    /\ \A t \in Payment : Cardinality({r \in rows : r.payment = t}) <= Cardinality(Worker)
    /\ \A o \in Id : Cardinality(ServersOf(o)) <= Limit + Cardinality(Worker) - 1

\* What an organization may use is what it has subscribed to and paid, but for overlapping requests.
UseIsPaid == QuotaIsSubscribed /\ SpentOnce

\* "Bu islem hash daha once kullanildi" (organizations.py:464): a payment buys one subscription.
PaymentBuysOnce == \A r, s \in rows : r.payment = s.payment /\ r.payment # None => r = s

\* "Aktif aboneligi dondurur" (models.py:73): there is one that counts.
OneSubscriptionCounts == \A o \in orgs : Cardinality(Active(o)) <= 1

\* "Organizasyonun kaynak kotasini kontrol eder" (tenant.py:124): of its members.
QuotaOfMembersIsKept ==
    \A o \in orgs : quota[o] \in Plan => Cardinality(MembersOf(o)) <= Members

\* "API token'dan tenant bilgisini cozumler" (tenant.py:62): the organization a token stands for
\* is one that its user has belonged to.
TokenStaysWithItsOrganization ==
    [][\A u \in User : token[u] \in Id \ orgs => token[u] \notin orgs' \/ token'[u] # token[u]]_vars
=============================================================================
