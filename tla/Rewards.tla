------------------------------ MODULE Rewards ------------------------------
(***************************************************************************)
(* Reward points (blockchain/reward_engine.py, EmarePoint in models.py),   *)
(* the wallets they are paid to (routes/token.py) and the claims that are  *)
(* sent to the reward contract (blockchain/service.py).                    *)
(*                                                                         *)
(* A worker awards points in two transactions: it reads what the limits    *)
(* need, and inserts a row.  A pass over the pending claims reads the sums,*)
(* sends one transaction for each user and then marks the rows.  Of the    *)
(* rows of a user only the sums are kept.                                  *)
(***************************************************************************)
EXTENDS Integers, FiniteSets

CONSTANTS
    User,
    Worker,         \* threads that serve requests
    Address,        \* wallet addresses
    Action,         \* the keys of EP_REWARDS
    Points,         \* EP_REWARDS
    Cooled,         \* the keys of ACTION_COOLDOWNS
    MaxPoints,      \* no reward is larger
    DailyLimit,     \* DAILY_EP_LIMIT
    MaxEarned,      \* bound: what a user earns in all
    MaxPaid,        \* bound: what the contract pays to a user in all
    None            \* no job, no user

ConstantsAssumption ==
    /\ MaxPoints \in Nat /\ DailyLimit \in Nat
    /\ Points \in [Action -> 1 .. MaxPoints]
    /\ IsFiniteSet(Worker) /\ Worker # {}
    /\ None \notin User \cup (User \X Action) \cup (User \X Address)

VARIABLES
    unclaimed,  \* the sum of the rows of each user with is_claimed = False
    claimed,    \* and of those with is_claimed = True
    today,      \* get_daily_total
    recent,     \* the actions of each user within their cooldown
    awarding,   \* the award each worker has found to be within the limits
    connecting, \* the address each worker has found to be free
    owned,      \* the rows of UserWallet of each user
    primary,    \* the one with is_primary, as a set
    todo,       \* the pass: users and sums still to be claimed
    marking,    \* the pass: the user whose claim was sent
    paid,       \* what the contract has paid to each user
    uncertain   \* a payment was made that the pass does not know of

rows    == <<unclaimed, claimed, today, recent>>
wallets == <<owned, primary>>
pass    == <<todo, marking, paid, uncertain>>
vars    == <<rows, awarding, connecting, wallets, pass>>

Init ==
    /\ unclaimed = [u \in User |-> 0] /\ claimed = [u \in User |-> 0]
    /\ today = [u \in User |-> 0] /\ recent = [u \in User |-> {}]
    /\ awarding = [w \in Worker |-> None] /\ connecting = [w \in Worker |-> None]
    /\ owned = [u \in User |-> {}] /\ primary = [u \in User |-> {}]
    /\ todo = {} /\ marking = None
    /\ paid = [u \in User |-> 0] /\ uncertain = FALSE

-----------------------------------------------------------------------------
\* Mutant of WithinLimits: what is about to be awarded is not counted.
BugWithinLimits(u, a) == today[u] <= DailyLimit /\ a \notin recent[u]

WithinLimits(u, a) == today[u] + Points[a] <= DailyLimit /\ a \notin recent[u]

IsFree(w) == awarding[w] = None /\ connecting[w] = None

\* award_ep up to the insert.  (An award beyond a limit is refused and leaves nothing.)
CheckAward(w, u, a) ==
    /\ IsFree(w)
    /\ WithinLimits(u, a)
    /\ unclaimed[u] + claimed[u] + Points[a] <= MaxEarned
    /\ awarding' = [awarding EXCEPT ![w] = <<u, a>>]
    /\ UNCHANGED <<rows, connecting, wallets, pass>>

Earn(u, a) ==
    /\ unclaimed' = [unclaimed EXCEPT ![u] = @ + Points[a]]
    /\ today' = [today EXCEPT ![u] = @ + Points[a]]
    /\ recent' = [recent EXCEPT ![u] = @ \cup ({a} \cap Cooled)]

Award(w) ==
    /\ awarding[w] # None
    /\ Earn(awarding[w][1], awarding[w][2])
    /\ awarding' = [awarding EXCEPT ![w] = None]
    /\ UNCHANGED <<claimed, connecting, wallets, pass>>

\* The insert fails; _award_ep drops the error.
DropAward(w) ==
    /\ awarding[w] # None
    /\ awarding' = [awarding EXCEPT ![w] = None]
    /\ UNCHANGED <<rows, connecting, wallets, pass>>

NextDay ==
    /\ today' = [u \in User |-> 0]
    /\ UNCHANGED <<unclaimed, claimed, recent, awarding, connecting, wallets, pass>>

CooldownEnds(u, a) ==
    /\ a \in recent[u]
    /\ recent' = [recent EXCEPT ![u] = @ \ {a}]
    /\ UNCHANGED <<unclaimed, claimed, today, awarding, connecting, wallets, pass>>

-----------------------------------------------------------------------------
\* connect_wallet: nobody else has the address ...
CheckWallet(w, u, adr) ==
    /\ IsFree(w)
    /\ \A v \in User \ {u} : adr \notin owned[v]
    /\ connecting' = [connecting EXCEPT ![w] = <<u, adr>>]
    /\ UNCHANGED <<rows, awarding, wallets, pass>>

\* ... and in one transaction it becomes the user's primary one.
Connect(w) ==
    /\ connecting[w] # None
    /\ LET u == connecting[w][1]  adr == connecting[w][2]
       IN  /\ owned' = [owned EXCEPT ![u] = @ \cup {adr}]
           /\ primary' = [primary EXCEPT ![u] = {adr}]
    /\ connecting' = [connecting EXCEPT ![w] = None]
    /\ UNCHANGED <<rows, awarding, pass>>

Disconnect(u) ==
    /\ primary[u] # {}
    /\ primary' = [primary EXCEPT ![u] = {}]
    /\ UNCHANGED <<rows, awarding, connecting, owned, pass>>

-----------------------------------------------------------------------------

\* get_unclaimed_users
Pending(u) == unclaimed[u]

StartPass ==
    /\ todo = {} /\ marking = None
    /\ todo' = {<<u, Pending(u)>> : u \in {v \in User : Pending(v) > 0}}
    /\ UNCHANGED <<rows, awarding, connecting, wallets, marking, paid, uncertain>>

SkipUser(c) ==
    /\ marking = None /\ primary[c[1]] = {}
    /\ todo' = todo \ {c}
    /\ UNCHANGED <<rows, awarding, connecting, wallets, marking, paid, uncertain>>

\* oracle_claim_reward.  A transaction that was answered with a hash may still be
\* reverted; one without an answer may have been accepted.
Claim(c, accepted, answered) ==
    /\ marking = None /\ primary[c[1]] # {}
    /\ todo' = todo \ {c}
    /\ accepted => paid[c[1]] + c[2] <= MaxPaid
    /\ paid' = IF accepted THEN [paid EXCEPT ![c[1]] = @ + c[2]] ELSE paid
    /\ marking' = IF answered THEN c[1] ELSE None
    /\ uncertain' = (uncertain \/ (accepted /\ ~answered))
    /\ UNCHANGED <<rows, awarding, connecting, wallets>>

\* mark_claimed marks all rows of the user that are unclaimed by now.
MarkClaimed ==
    /\ marking # None
    /\ claimed' = [claimed EXCEPT ![marking] = @ + unclaimed[marking]]
    /\ unclaimed' = [unclaimed EXCEPT ![marking] = 0]
    /\ marking' = None
    /\ UNCHANGED <<today, recent, awarding, connecting, wallets, todo, paid, uncertain>>

\* The process is killed during a pass.
KillPass ==
    /\ todo # {} \/ marking # None
    /\ todo' = {} /\ marking' = None
    /\ uncertain' = (uncertain \/ marking # None)
    /\ UNCHANGED <<rows, awarding, connecting, wallets, paid>>

Next ==
    \/ \E w \in Worker :
         \/ \E u \in User, a \in Action : CheckAward(w, u, a)
         \/ \E u \in User, adr \in Address : CheckWallet(w, u, adr)
         \/ Award(w) \/ DropAward(w) \/ Connect(w)
    \/ \E u \in User : Disconnect(u) \/ \E a \in Action : CooldownEnds(u, a)
    \/ NextDay
    \/ StartPass \/ MarkClaimed \/ KillPass
    \/ \E c \in todo : SkipUser(c) \/ \E acc, ans \in BOOLEAN : Claim(c, acc, ans)

Spec == Init /\ [][Next]_vars

-----------------------------------------------------------------------------
\* The workers that are about to add points to a user.
Awarding(u) == {w \in Worker : awarding[w] # None /\ awarding[w][1] = u}

\* The limits are read before the insert, so requests that overlap can exceed the daily
\* limit; but by no more than one reward for each of the other workers, whatever they do.
LimitIsNearlyKept ==
    \A u \in User : today[u] <= DailyLimit + MaxPoints * (Cardinality(Worker) - 1)

\* As long as every payment is answered and no pass is killed between a payment and its
\* mark, the contract never pays a user more than the points the user has earned: points
\* that are awarded during a pass, and claims that are refused or reverted, included.
PaidIsEarned ==
    ~uncertain => \A u \in User : paid[u] <= claimed[u] + unclaimed[u]

\* What is awarded is within the limits, and what is paid has been awarded.
PointsAreEarned == LimitIsNearlyKept /\ PaidIsEarned

\* "EP'ler ... EMR token'a donusturulur" (models.py:953): points that are marked as
\* claimed have been paid.
ClaimedIsPaid == \A u \in User : claimed[u] <= paid[u]

\* "Bu cuzdan baska bir hesaba bagli" (routes/token.py:98): an address belongs to one user.
AddressHasOneOwner ==
    \A u, v \in User : u # v => owned[u] \cap owned[v] = {}
=============================================================================
