----------------------------- MODULE MCAccounts -----------------------------
(***************************************************************************)
(* What is handed out under a limit, in five parts: the port blocks of a   *)
(* CGNAT pool, the organizations of the panel, the reward points, and the  *)
(* cache, in the service of the rate limiter and in that of the status.  A *)
(* behaviour is one of a single part, the others stay as they begin.       *)
(***************************************************************************)
EXTENDS Cgnat, TLC

CONSTANTS
    Worker, User,
    Server, Plan, Payment, Chain, Limit, Members, MaxOrg, MaxRow, MaxBegun,
    Address, Action, MaxPoints, DailyLimit, MaxEarned, MaxPaid,
    Ttl, Threshold, Reset, Longest, MaxNow, MaxWorld, MaxRestarts

VARIABLES
    part,
    orgs, rows, quota, member, server, token, req, begun, late,
    unclaimed, claimed, today, recent, awarding, connecting, owned, primary,
    todo, marking, paid, uncertain,
    clock, redis, local, fails, openUntil, world, changed, reading, deleting, passed, restarts

PointsOf == [a \in Action |-> IF a = "buy" THEN 2 ELSE 1]

\* Each transaction pays for one plan.
PaysForOne == [t \in Payment |-> {CHOOSE p \in Plan : TRUE}]

Organization == INSTANCE Organizations WITH PaysFor <- PaysForOne
Reward == INSTANCE Rewards WITH Points <- PointsOf, Cooled <- {"use"}
Cache == INSTANCE SharedCache WITH Process <- Worker

ASSUME PartsAssumption ==
    Organization!ConstantsAssumption /\ Reward!ConstantsAssumption /\ Cache!ConstantsAssumption

organizationVars == <<orgs, rows, quota, member, server, token, req, begun, late>>
rewardVars == <<unclaimed, claimed, today, recent, awarding, connecting, owned, primary,
                todo, marking, paid, uncertain>>
cacheVars == <<clock, redis, local, fails, openUntil, world, changed, reading, deleting, passed,
               restarts>>

AccountsInit ==
    /\ part \in {"blocks", "organizations", "rewards", "limiter", "status"}
    /\ Init /\ Organization!Init /\ Reward!Init /\ Cache!Init
    /\ part # "organizations" => quota[1] = CHOOSE p \in Plan : TRUE
    /\ part \notin {"limiter", "status"} => \A w \in Worker : fails[w] = 0

AccountsNext ==
    /\ part' = part
    /\ \/ part = "blocks" /\ Next /\ UNCHANGED <<organizationVars, rewardVars, cacheVars>>
       \/ part = "organizations" /\ Organization!Next /\ UNCHANGED <<vars, rewardVars, cacheVars>>
       \/ part = "rewards" /\ Reward!Next /\ UNCHANGED <<vars, organizationVars, cacheVars>>
       \/ /\ \/ part = "limiter" /\ Cache!LimiterNext
             \/ part = "status" /\ Cache!StatusNext
          /\ UNCHANGED <<vars, organizationVars, rewardVars>>

AccountsSpec == AccountsInit /\ [][AccountsNext]_<<part, vars, organizationVars, rewardVars, cacheVars>>

Symmetry == Permutations(Worker) \cup Permutations(Server)

UseIsPaid       == Organization!UseIsPaid
PointsAreEarned == Reward!PointsAreEarned
CacheIsBounded  == Cache!CacheIsBounded
=============================================================================
