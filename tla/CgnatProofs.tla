---------------------------- MODULE CgnatProofs ----------------------------
(***************************************************************************)
(* Proofs about Cgnat and three more parts of MCAccounts.  The count       *)
(* that a request has read may be out of date when it inserts; that it was *)
(* below the capacity is what counts.  The reward points, the              *)
(* organizations and the cached status follow, each with an invariant of   *)
(* its own.                                                                *)
(***************************************************************************)
EXTENDS MCAccounts, FiniteSetTheorems, WellFoundedInduction, TLAPS

USE PortAssumption

\* Multiplication by a positive number keeps the order.
LEMMA TimesKeepsOrder ==
  ASSUME NEW m \in Int, NEW n \in Int, NEW k \in Nat, m <= n
  PROVE  m * k <= n * k
  BY SMT

\* The quotient times the divisor does not exceed the dividend.
LEMMA QuotientFits ==
  ASSUME NEW a \in Int, NEW k \in Nat \ {0}
  PROVE  (a \div k) \in Int /\ (a \div k) * k <= a
  BY SMT

\* A block that begins after fewer blocks than the capacity ends in the range.
LEMMA BlockFits ==
  ASSUME NEW n \in Nat, n < TotalSlots
  PROVE  /\ BlockAt(n) \in Nat
         /\ PortStart <= BlockAt(n)
         /\ BlockAt(n) + PerSubscriber - 1 <= PortEnd
<1> DEFINE length == PortEnd - PortStart + 1
           used   == n * PerSubscriber
           all    == TotalSlots * PerSubscriber
<1>1. TotalSlots \in Int /\ all \in Int /\ all <= length
  BY QuotientFits DEF TotalSlots
<1>2. (n + 1) * PerSubscriber <= all
  BY <1>1, TimesKeepsOrder
<1>3. (n + 1) * PerSubscriber = used + PerSubscriber /\ used \in Nat
  BY SMT
<1> HIDE DEF used, all
<1>4. BlockAt(n) = PortStart + used
  BY DEF BlockAt, used
<1>5. used + PerSubscriber <= PortEnd - PortStart + 1
  BY <1>1, <1>2, <1>3
<1> QED
  BY <1>3, <1>4, <1>5

LEMMA MappedIsCounted == Cardinality(Mapped) \in Nat
<1>1. Mapped \subseteq Subscriber
  BY DEF Mapped
<1> QED
  BY <1>1, SubscriberAssumption, FS_Subset, FS_CardinalityType

LEMMA InitIInv == Init => IInv
  BY DEF Init, IInv, TypeOK, BlocksAreInThePool, CountIsBelowCapacity

\* A request keeps the invariant at each of its statements.
LEMMA RequestIInv ==
  ASSUME IInv, NEW r \in Request, RequestStep(r)
  PROVE  IInv'
<1> USE DEF IInv, TypeOK, BlocksAreInThePool, CountIsBelowCapacity
<1> HIDE DEF TotalSlots, BlockAt
<1>1. ASSUME NEW s \in Subscriber, Look(r, s)
      PROVE  IInv'
  BY <1>1 DEF Look
<1>2. CASE Count(r, Cardinality(Mapped))
  <2> DEFINE n == Cardinality(Mapped)
  <2>1. n \in Nat
    BY MappedIsCounted
  <2> HIDE DEF n
  <2>2. TotalSlots \in Int
    BY QuotientFits DEF TotalSlots
  <2>3. CASE IsFull(n)
    BY <1>2, <2>3 DEF Count, Answer, n
  <2>4. CASE ~IsFull(n)
    BY <1>2, <2>1, <2>2, <2>4 DEF Count, IsFull, n
  <2> QED
    BY <2>3, <2>4
<1>3. CASE Insert(r)
  <2> DEFINE b == BlockAt(count[r])
  <2>1. b \in Nat /\ PortStart <= b /\ b + PerSubscriber - 1 <= PortEnd
    BY <1>3, BlockFits DEF Insert
  <2> HIDE DEF b
  <2>2. subscriber[r] \in Subscriber
    BY <1>3 DEF Insert
  <2>3. \A s \in Subscriber : block'[s] \in {block[s], b}
    BY <1>3, <2>2 DEF Insert, b
  <2>4. block' \in [Subscriber -> Nat \cup {None}]
    BY <1>3, <2>1, <2>2 DEF Insert, b
  <2>5. BlocksAreInThePool'
    BY <2>1, <2>3
  <2> QED
    BY <1>3, <2>4, <2>5 DEF Insert, Answer
<1> QED
  BY <1>1, <1>2, <1>3 DEF RequestStep

LEMMA NextIInv == IInv /\ [Next]_vars => IInv'
<1> SUFFICES ASSUME IInv, [Next]_vars PROVE IInv'
  OBVIOUS
<1> USE DEF IInv, TypeOK, BlocksAreInThePool, CountIsBelowCapacity
<1>1. ASSUME NEW s \in Subscriber, Release(s)
      PROVE  IInv'
  BY <1>1 DEF Release, TotalSlots
<1>2. CASE UNCHANGED vars
  BY <1>2 DEF vars, TotalSlots
<1> QED
  BY <1>1, <1>2, RequestIInv DEF Next

\* The mappings are well formed, and a request that is under way has a subscriber, for
\* any number of workers and subscribers.
THEOREM TypeCorrect == Spec => []TypeOK
<1>1. IInv => TypeOK
  BY DEF IInv
<1> QED
  BY InitIInv, NextIInv, <1>1, PTL DEF Spec

\* For any pool, any number of ports per subscriber and any number of concurrent
\* requests: the blocks lie within the range of the pool.
THEOREM BlocksFit == Spec => []BlocksAreInThePool
<1>1. IInv => BlocksAreInThePool
  BY DEF IInv
<1> QED
  BY InitIInv, NextIInv, <1>1, PTL DEF Spec

\* A step that is not a Release leaves every block that is given in place.
THEOREM BlocksAreKept == Spec => BlockIsKept
<1>1. ASSUME TypeOK, [Next]_vars
      PROVE  [\A s \in Subscriber : block[s] # None => block'[s] \in {block[s], None}]_vars
  <2>1. ASSUME NEW r \in Request, RequestStep(r), NEW s \in Subscriber, block[s] # None
        PROVE  block'[s] = block[s]
    BY <1>1, <2>1 DEF RequestStep, Look, Count, Answer, Insert, TypeOK
  <2>2. ASSUME NEW t \in Subscriber, Release(t), NEW s \in Subscriber
        PROVE  block'[s] \in {block[s], None}
    BY <1>1, <2>2 DEF Release, TypeOK
  <2> QED
    BY <1>1, <2>1, <2>2 DEF Next
<1>2. IInv => TypeOK
  BY DEF IInv
<1> QED
  BY InitIInv, NextIInv, <1>1, <1>2, PTL DEF Spec, BlockIsKept
(***************************************************************************)
(* Rewards.  Of the requests that are about to award points to a user, the *)
(* one that looked last still found room for its own points; every other   *)
(* one adds no more than one reward.  What a pass is about to claim has    *)
(* been awarded, and what it has paid is marked before it pays again.      *)
(***************************************************************************)
RewardType ==
  /\ unclaimed \in [User -> Nat] /\ claimed \in [User -> Nat]
  /\ today \in [User -> Nat] /\ paid \in [User -> Nat]
  /\ awarding \in [Worker -> {None} \cup (User \X Action)]
  /\ todo \in SUBSET (User \X Nat)
  /\ marking \in User \cup {None}
  /\ uncertain \in BOOLEAN

\* What all workers but one may add to what the limit allows.
Ceiling == DailyLimit + MaxPoints * (Cardinality(Worker) - 1)

Pending == [u \in User |-> {w \in Worker : awarding[w] # None /\ awarding[w][1] = u}]

Awards(w) == PointsOf[awarding[w][2]]

\* Either all that are under way fit, or all but one and the points of that one do.
Most(u) == today[u] + MaxPoints * Cardinality(Pending[u])

Fits(u) == Most(u) <= Ceiling \/ \E w \in Pending[u] : Most(u) - MaxPoints + Awards(w) <= Ceiling

RoomIsLeft == \A u \in User : Fits(u)

ClaimsAreEarned ==
  /\ \A c \in todo : c[2] <= unclaimed[c[1]] /\ c[1] # marking
  /\ \A c, d \in todo : c[1] = d[1] => c = d

PaidIsMarked ==
  ~uncertain => \A u \in User : paid[u] <= claimed[u] + IF marking = u THEN unclaimed[u] ELSE 0

RewardInv == RewardType /\ RoomIsLeft /\ ClaimsAreEarned /\ PaidIsMarked

LEMMA RewardCardinality == ASSUME NEW S PROVE Reward!Cardinality(S) = Cardinality(S)
  BY Zenon DEF Reward!Cardinality, Cardinality

LEMMA RewardConstants ==
  /\ MaxPoints \in Nat /\ DailyLimit \in Nat
  /\ PointsOf \in [Action -> 1 .. MaxPoints]
  /\ IsFiniteSet(Worker) /\ Worker # {}
  /\ None \notin User /\ None \notin User \X Action
<1>1. ASSUME NEW S PROVE Reward!IsFiniteSet(S) <=> IsFiniteSet(S)
  BY Zenon DEF Reward!IsFiniteSet, IsFiniteSet
<1> QED
  BY <1>1, PartsAssumption DEF Reward!ConstantsAssumption

LEMMA WorkersCount ==
  /\ Cardinality(Worker) \in Nat \ {0}
  /\ Ceiling \in Nat
  /\ \A k \in Nat : k < Cardinality(Worker) => DailyLimit + MaxPoints * k <= Ceiling
<1>1. Cardinality(Worker) \in Nat \ {0}
  BY RewardConstants, FS_CardinalityType, FS_EmptySet
<1> DEFINE n == Cardinality(Worker)
<1> HIDE DEF n
<1>2. ASSUME NEW k \in Nat, k < n
      PROVE  MaxPoints * k <= MaxPoints * (n - 1) /\ MaxPoints * k \in Nat /\ MaxPoints * (n - 1) \in Nat
  BY <1>1, <1>2, RewardConstants, SMT DEF n
<1> QED
  BY <1>1, <1>2, RewardConstants DEF Ceiling, n

\* What is counted when one award more, or one less, is under way.
LEMMA OneAwardMore ==
  ASSUME NEW n \in Nat
  PROVE  /\ MaxPoints * n \in Nat
         /\ MaxPoints * (n + 1) = MaxPoints * n + MaxPoints
  BY RewardConstants, SMT

LEMMA PendingType ==
  ASSUME NEW u \in User
  PROVE  /\ IsFiniteSet(Pending[u]) /\ Pending[u] \subseteq Worker
         /\ Cardinality(Pending[u]) \in Nat /\ Cardinality(Pending[u]) <= Cardinality(Worker)
<1>1. Pending[u] \subseteq Worker
  BY DEF Pending
<1> QED
  BY <1>1, RewardConstants, FS_Subset, FS_CardinalityType

\* The workers that are about to award, after one has begun ...
LEMMA PendingGrows ==
  ASSUME RewardType, NEW w \in Worker, NEW u \in User, NEW a \in Action, awarding[w] = None,
         awarding' = [awarding EXCEPT ![w] = <<u, a>>]
  PROVE  /\ Pending'[u] = Pending[u] \cup {w} /\ w \notin Pending[u]
         /\ \A v \in User \ {u} : Pending'[v] = Pending[v]
         /\ awarding'[w] = <<u, a>>
         /\ \A x \in Worker \ {w} : awarding'[x] = awarding[x]
  BY RewardConstants DEF Pending, RewardType

\* ... and after one has ended.
LEMMA PendingShrinks ==
  ASSUME RewardType, NEW w \in Worker, awarding[w] # None,
         awarding' = [awarding EXCEPT ![w] = None]
  PROVE  /\ awarding[w][1] \in User /\ awarding[w][2] \in Action
         /\ w \in Pending[awarding[w][1]]
         /\ Pending'[awarding[w][1]] = Pending[awarding[w][1]] \ {w}
         /\ \A v \in User \ {awarding[w][1]} : Pending'[v] = Pending[v]
         /\ \A x \in Worker \ {w} : awarding'[x] = awarding[x]
<1>1. awarding[w] \in User \X Action
  BY DEF RewardType
<1> QED
  BY <1>1 DEF Pending, RewardType

LEMMA AwardsType ==
  ASSUME RewardType, NEW w \in Worker, awarding[w] # None
  PROVE  Awards(w) \in 1 .. MaxPoints
  BY RewardConstants DEF RewardType, Awards

LEMMA RewardInit == Reward!Init => RewardInv
<1> SUFFICES ASSUME Reward!Init PROVE RewardInv
  OBVIOUS
<1>1. RewardType /\ ClaimsAreEarned /\ PaidIsMarked
  <2>1. RewardType /\ ClaimsAreEarned
    BY DEF Reward!Init, RewardType, ClaimsAreEarned
  <2>2. PaidIsMarked
    BY RewardConstants DEF Reward!Init, PaidIsMarked
  <2> QED
    BY <2>1, <2>2
<1>2. \A u \in User : Pending[u] = {} /\ today[u] = 0
  BY DEF Reward!Init, Pending
<1>3. MaxPoints * 0 = 0 /\ Cardinality({}) = 0
  BY RewardConstants, FS_EmptySet
<1>4. ASSUME NEW u \in User PROVE Most(u) <= Ceiling
  <2>1. MaxPoints * Cardinality(Pending[u]) = 0 /\ today[u] = 0
    BY <1>2, <1>3
  <2>2. Most(u) = 0
    BY <2>1 DEF Most
  <2> QED
    BY <2>2, WorkersCount
<1> QED
  BY <1>1, <1>4 DEF RewardInv, RoomIsLeft, Fits

LEMMA RewardTypeStep == RewardType /\ [Reward!Next]_(Reward!vars) => RewardType'
<1> SUFFICES ASSUME RewardType, [Reward!Next]_(Reward!vars) PROVE RewardType'
  OBVIOUS
<1> USE DEF RewardType, Reward!rows, Reward!wallets, Reward!pass
<1>1. ASSUME NEW w \in Worker, NEW u \in User, NEW a \in Action, Reward!CheckAward(w, u, a)
      PROVE  RewardType'
  BY <1>1 DEF Reward!CheckAward
<1>2. ASSUME NEW w \in Worker, NEW u \in User, NEW adr \in Address, Reward!CheckWallet(w, u, adr)
      PROVE  RewardType'
  BY <1>2 DEF Reward!CheckWallet
<1>3. ASSUME NEW w \in Worker, Reward!Award(w) PROVE RewardType'
  <2>1. awarding[w] \in User \X Action
    BY <1>3 DEF Reward!Award
  <2>2. PointsOf[awarding[w][2]] \in Nat
    BY <2>1, RewardConstants
  <2> QED
    BY <1>3, <2>1, <2>2 DEF Reward!Award, Reward!Earn
<1>4. ASSUME NEW w \in Worker, Reward!DropAward(w) \/ Reward!Connect(w) PROVE RewardType'
  BY <1>4 DEF Reward!DropAward, Reward!Connect
<1>5. ASSUME NEW u \in User, Reward!Disconnect(u) \/ \E a \in Action : Reward!CooldownEnds(u, a)
      PROVE  RewardType'
  BY <1>5 DEF Reward!Disconnect, Reward!CooldownEnds
<1>6. CASE Reward!NextDay
  BY <1>6 DEF Reward!NextDay
<1>7. CASE Reward!StartPass
  BY <1>7 DEF Reward!StartPass, Reward!Pending
<1>8. CASE Reward!MarkClaimed \/ Reward!KillPass
  <2>1. CASE Reward!MarkClaimed
    <3>1. claimed[marking] + unclaimed[marking] \in Nat
      BY <2>1 DEF Reward!MarkClaimed
    <3> QED
      BY <2>1, <3>1 DEF Reward!MarkClaimed
  <2> QED
    BY <1>8, <2>1 DEF Reward!KillPass
<1>9. ASSUME NEW c \in todo, Reward!SkipUser(c) PROVE RewardType'
  BY <1>9 DEF Reward!SkipUser
<1>10. ASSUME NEW c \in todo, NEW acc \in BOOLEAN, NEW ans \in BOOLEAN, Reward!Claim(c, acc, ans)
       PROVE  RewardType'
  BY <1>10 DEF Reward!Claim
<1>11. CASE UNCHANGED Reward!vars
  BY <1>11 DEF Reward!vars
<1> QED
  BY <1>1, <1>2, <1>3, <1>4, <1>5, <1>6, <1>7, <1>8, <1>9, <1>10, <1>11 DEF Reward!Next

\* A step that neither awards nor ends an award, and adds nothing to the day.
LEMMA RoomStays ==
  ASSUME RewardInv, RewardType', awarding' = awarding, \A u \in User : today'[u] <= today[u]
  PROVE  RoomIsLeft'
<1>1. Pending' = Pending /\ Ceiling' = Ceiling /\ \A w \in Worker : Awards(w)' = Awards(w)
  BY DEF Pending, Awards, Ceiling
<1> SUFFICES ASSUME NEW u \in User PROVE Fits(u)'
  BY DEF RoomIsLeft
<1> DEFINE more == MaxPoints * Cardinality(Pending[u])
<1>2. more \in Nat
  BY PendingType, OneAwardMore
<1>3. Most(u) = today[u] + more /\ Most(u)' = today'[u] + more
  BY <1>1 DEF Most
<1> HIDE DEF more
<1>4. Most(u)' <= Most(u) /\ Most(u) \in Nat /\ Most(u)' \in Nat
  BY <1>2, <1>3 DEF RewardInv, RewardType
<1>5. \A w \in Pending[u] : w \in Worker /\ Awards(w) \in Nat
  BY AwardsType, RewardConstants DEF RewardInv, Pending
<1>6. Fits(u)
  BY DEF RewardInv, RoomIsLeft
<1>7. CASE Most(u) <= Ceiling
  BY <1>1, <1>4, <1>7, WorkersCount DEF Fits
<1>8. ASSUME NEW w \in Pending[u], Most(u) - MaxPoints + Awards(w) <= Ceiling
      PROVE  Fits(u)'
  <2>1. Most(u)' - MaxPoints + Awards(w) <= Ceiling
    BY <1>4, <1>5, <1>8, WorkersCount, RewardConstants
  <2> QED
    BY <1>1, <1>5, <2>1 DEF Fits
<1> QED
  BY <1>6, <1>7, <1>8 DEF Fits

LEMMA RoomAfterCheck ==
  ASSUME RewardInv, NEW w \in Worker, NEW u \in User, NEW a \in Action, Reward!CheckAward(w, u, a)
  PROVE  RoomIsLeft'
<1>1. awarding[w] = None /\ today' = today /\ today[u] + PointsOf[a] <= DailyLimit
      /\ awarding' = [awarding EXCEPT ![w] = <<u, a>>]
  BY DEF Reward!CheckAward, Reward!WithinLimits, Reward!IsFree, Reward!rows
<1> DEFINE n == Cardinality(Pending[u])
<1>2. /\ Pending'[u] = Pending[u] \cup {w} /\ w \notin Pending[u]
      /\ \A v \in User \ {u} : Pending'[v] = Pending[v]
      /\ awarding'[w] = <<u, a>>
      /\ \A x \in Worker \ {w} : awarding'[x] = awarding[x]
  BY <1>1, PendingGrows DEF RewardInv
<1>3. n \in Nat /\ Cardinality(Pending'[u]) = n + 1 /\ n < Cardinality(Worker)
  <2>1. Cardinality(Pending[u] \cup {w}) = n + 1
    BY <1>2, PendingType, FS_AddElement
  <2>2. Cardinality(Pending[u] \cup {w}) <= Cardinality(Worker)
    BY <1>2, PendingType, RewardConstants, FS_Subset
  <2> QED
    BY <1>2, <2>1, <2>2, PendingType, WorkersCount
<1>4. today[u] \in Nat /\ PointsOf[a] \in Nat
  BY RewardConstants DEF RewardInv, RewardType
<1>5. Most(u)' - MaxPoints + Awards(w)' <= Ceiling
  <2> DEFINE m == MaxPoints * n  k == MaxPoints * (n + 1)
  <2>1. m \in Nat /\ k = m + MaxPoints /\ DailyLimit + m <= Ceiling
    BY <1>3, OneAwardMore, WorkersCount
  <2>2. Awards(w)' = PointsOf[a]
    BY <1>2 DEF Awards
  <2> HIDE DEF m, k
  <2>3. today[u] + k - MaxPoints + PointsOf[a] <= Ceiling
    BY <1>1, <1>4, <2>1, RewardConstants, WorkersCount
  <2>4. Most(u)' = today[u] + k
    BY <1>1, <1>3 DEF Most, k
  <2> QED
    BY <1>4, <2>1, <2>2, <2>3, <2>4, RewardConstants
<1>6. w \in Pending'[u]
  BY <1>2
<1>7. ASSUME NEW v \in User \ {u} PROVE Fits(v)'
  <2>1. \A x \in Pending[v] : Awards(x)' = Awards(x)
    BY <1>1, <1>2 DEF Pending, Awards
  <2>2. Most(v)' = Most(v) /\ Ceiling' = Ceiling
    BY <1>1, <1>2 DEF Most, Ceiling
  <2> QED
    BY <1>1, <1>2, <2>1, <2>2 DEF RewardInv, RoomIsLeft, Fits
<1> QED
  BY <1>5, <1>6, <1>7 DEF RoomIsLeft, Ceiling, Fits

LEMMA RoomAfterAward ==
  ASSUME RewardInv, RewardType', NEW w \in Worker, awarding[w] # None,
         awarding' = [awarding EXCEPT ![w] = None],
         NEW u \in User, u = awarding[w][1],
         \A v \in User \ {u} : today'[v] = today[v],
         today'[u] \in {today[u], today[u] + Awards(w)}
  PROVE  RoomIsLeft'
<1>1. /\ u \in User /\ w \in Pending[u]
      /\ Pending'[u] = Pending[u] \ {w}
      /\ \A v \in User \ {u} : Pending'[v] = Pending[v]
      /\ \A x \in Worker \ {w} : awarding'[x] = awarding[x]
  BY PendingShrinks DEF RewardInv
<1> DEFINE n == Cardinality(Pending'[u])
<1>2. n \in Nat /\ Cardinality(Pending[u]) = n + 1
  <2>1. Cardinality(Pending[u]) \in Nat /\ Cardinality(Pending[u]) # 0
    BY <1>1, PendingType, FS_EmptySet
  <2> QED
    <3>1. Cardinality(Pending[u] \ {w}) = Cardinality(Pending[u]) - 1
      BY <1>1, PendingType, FS_RemoveElement
    <3> QED
      BY <1>1, <2>1, <3>1
<1> HIDE DEF n
<1> DEFINE m == MaxPoints * n  k == MaxPoints * (n + 1)
<1>3. m \in Nat /\ k = m + MaxPoints
  BY <1>2, OneAwardMore
<1> HIDE DEF m, k
<1>4. today[u] \in Nat /\ today'[u] \in Nat /\ MaxPoints \in Nat /\ Ceiling \in Nat
  BY <1>1, RewardConstants, WorkersCount DEF RewardInv, RewardType
<1>5. \A x \in Pending[u] : Awards(x) \in 1 .. MaxPoints /\ Awards(x) \in Nat
  BY <1>1, AwardsType, RewardConstants DEF RewardInv, Pending
<1>6. \A x \in Pending'[u] : x \in Pending[u] /\ Awards(x)' = Awards(x)
  BY <1>1 DEF Awards, Pending
<1>7. today[u] + k <= Ceiling \/ \E x \in Pending[u] : today[u] + k - MaxPoints + Awards(x) <= Ceiling
  <2>1. Fits(u) /\ Most(u) = today[u] + k
    BY <1>1, <1>2 DEF RewardInv, RoomIsLeft, Most, k
  <2>2. Most(u) \in Nat
    BY <1>3, <1>4, <2>1
  <2> QED
    BY <1>3, <1>4, <1>5, <2>1, <2>2 DEF Fits
<1>8. today'[u] <= today[u] + Awards(w) /\ Awards(w) \in 1 .. MaxPoints /\ Awards(w) \in Nat
  BY <1>1, <1>4, <1>5
<1>9. today'[u] + m <= Ceiling \/ \E x \in Pending'[u] : today'[u] + m - MaxPoints + Awards(x)' <= Ceiling
  <2>1. CASE today[u] + k <= Ceiling
    BY <1>3, <1>4, <1>8, <2>1
  <2>2. CASE today[u] + k - MaxPoints + Awards(w) <= Ceiling
    BY <1>3, <1>4, <1>8, <2>2
  <2>3. ASSUME NEW x \in Pending[u] \ {w}, today[u] + k - MaxPoints + Awards(x) <= Ceiling
        PROVE  today'[u] + m - MaxPoints + Awards(x)' <= Ceiling
    <3>1. Awards(x)' = Awards(x) /\ Awards(x) \in Nat
      BY <1>1, <1>5, <1>6
    <3> QED
      BY <1>3, <1>4, <1>8, <2>3, <3>1
  <2> QED
    BY <1>1, <1>7, <2>1, <2>2, <2>3
<1>10. ASSUME NEW v \in User \ {u} PROVE Fits(v)'
  <2>1. \A x \in Pending[v] : Awards(x)' = Awards(x)
    BY <1>1 DEF Pending, Awards
  <2>2. Most(v)' = Most(v) /\ Ceiling' = Ceiling
    BY <1>1 DEF Most, Ceiling
  <2> QED
    BY <1>1, <2>1, <2>2 DEF RewardInv, RoomIsLeft, Fits
<1>11. Most(u)' = today'[u] + m
  BY DEF Most, m, n
<1>12. Fits(u)'
  <2>1. Ceiling' = Ceiling /\ Most(u)' \in Nat
    BY <1>3, <1>4, <1>11 DEF Ceiling
  <2>2. \A x \in Pending'[u] : Awards(x)' \in Nat
    BY <1>5, <1>6
  <2>3. CASE today'[u] + m <= Ceiling
    BY <1>3, <1>4, <1>11, <2>1, <2>3 DEF Fits
  <2>4. ASSUME NEW x \in Pending'[u], today'[u] + m - MaxPoints + Awards(x)' <= Ceiling
        PROVE  Fits(u)'
    BY <1>3, <1>4, <1>11, <2>1, <2>2, <2>4 DEF Fits
  <2> QED
    BY <1>9, <2>3, <2>4
<1> QED
  BY <1>10, <1>12 DEF RoomIsLeft

LEMMA RewardRoomStep == RewardInv /\ RewardType' /\ [Reward!Next]_(Reward!vars) => RoomIsLeft'
<1> SUFFICES ASSUME RewardInv, RewardType', [Reward!Next]_(Reward!vars) PROVE RoomIsLeft'
  OBVIOUS
<1> USE DEF Reward!rows, Reward!wallets, Reward!pass
<1>0. \A u \in User : today[u] \in Nat
  BY DEF RewardInv, RewardType
<1>1. ASSUME NEW w \in Worker, NEW u \in User, NEW a \in Action, Reward!CheckAward(w, u, a)
      PROVE  RoomIsLeft'
  BY <1>1, RoomAfterCheck
<1>2. ASSUME NEW w \in Worker, Reward!Award(w) PROVE RoomIsLeft'
  <2>1. awarding[w] # None /\ awarding' = [awarding EXCEPT ![w] = None]
    BY <1>2 DEF Reward!Award
  <2>2. awarding[w][1] \in User
    BY <2>1, PendingShrinks DEF RewardInv
  <2>3. today' = [today EXCEPT ![awarding[w][1]] = @ + PointsOf[awarding[w][2]]]
    BY <1>2 DEF Reward!Award, Reward!Earn
  <2>4. \A v \in User \ {awarding[w][1]} : today'[v] = today[v]
    BY <2>3 DEF RewardInv, RewardType
  <2>5. today'[awarding[w][1]] = today[awarding[w][1]] + Awards(w)
    BY <2>2, <2>3 DEF RewardInv, RewardType, Awards
  <2> QED
    BY <2>1, <2>2, <2>4, <2>5, RoomAfterAward
<1>3. ASSUME NEW w \in Worker, Reward!DropAward(w) PROVE RoomIsLeft'
  <2>1. awarding[w] # None /\ awarding' = [awarding EXCEPT ![w] = None] /\ today' = today
    BY <1>3 DEF Reward!DropAward
  <2>2. awarding[w][1] \in User
    BY <2>1, PendingShrinks DEF RewardInv
  <2> QED
    BY <2>1, <2>2, RoomAfterAward
<1>4. CASE awarding' = awarding /\ today' = today
  BY <1>0, <1>4, RoomStays
<1>5. CASE Reward!NextDay
  BY <1>0, <1>5, RoomStays DEF Reward!NextDay
<1>6. ASSUME NEW w \in Worker,
             \/ Reward!Connect(w)
             \/ \E u \in User, adr \in Address : Reward!CheckWallet(w, u, adr)
      PROVE  awarding' = awarding /\ today' = today
  BY <1>6 DEF Reward!Connect, Reward!CheckWallet
<1>7. ASSUME NEW u \in User, Reward!Disconnect(u) \/ \E a \in Action : Reward!CooldownEnds(u, a)
      PROVE  awarding' = awarding /\ today' = today
  BY <1>7 DEF Reward!Disconnect, Reward!CooldownEnds
<1>8. CASE Reward!StartPass \/ Reward!MarkClaimed \/ Reward!KillPass
  BY <1>4, <1>8 DEF Reward!StartPass, Reward!MarkClaimed, Reward!KillPass
<1>9. ASSUME NEW c \in todo, Reward!SkipUser(c) \/ \E acc, ans \in BOOLEAN : Reward!Claim(c, acc, ans)
      PROVE  awarding' = awarding /\ today' = today
  BY <1>9 DEF Reward!SkipUser, Reward!Claim
<1>10. CASE UNCHANGED Reward!vars
  BY <1>4, <1>10 DEF Reward!vars
<1> QED
  BY <1>1, <1>2, <1>3, <1>4, <1>5, <1>6, <1>7, <1>8, <1>9, <1>10 DEF Reward!Next

LEMMA RewardPaidStep ==
  RewardInv /\ [Reward!Next]_(Reward!vars) => ClaimsAreEarned' /\ PaidIsMarked'
<1> SUFFICES ASSUME RewardInv, [Reward!Next]_(Reward!vars) PROVE ClaimsAreEarned' /\ PaidIsMarked'
  OBVIOUS
<1> USE DEF RewardInv, RewardType, ClaimsAreEarned, PaidIsMarked,
            Reward!rows, Reward!wallets, Reward!pass
<1>1. CASE UNCHANGED <<unclaimed, claimed, todo, marking, paid, uncertain>>
  BY <1>1
<1>2. ASSUME NEW w \in Worker, Reward!Award(w) PROVE ClaimsAreEarned' /\ PaidIsMarked'
  <2> DEFINE u == awarding[w][1]  n == PointsOf[awarding[w][2]]
  <2>1. u \in User /\ n \in Nat
    BY <1>2, RewardConstants DEF Reward!Award
  <2>2. /\ unclaimed' = [unclaimed EXCEPT ![u] = @ + n]
        /\ UNCHANGED <<claimed, todo, marking, paid, uncertain>>
    BY <1>2 DEF Reward!Award, Reward!Earn
  <2> HIDE DEF u, n
  <2>3. \A v \in User : unclaimed'[v] >= unclaimed[v] /\ unclaimed'[v] \in Nat
    BY <2>1, <2>2
  <2> QED
    BY <2>2, <2>3
<1>3. CASE Reward!StartPass
  <2>1. todo' = {<<u, unclaimed[u]>> : u \in {v \in User : unclaimed[v] > 0}} /\ marking' = None
        /\ UNCHANGED <<unclaimed, claimed, paid, uncertain>>
    BY <1>3 DEF Reward!StartPass, Reward!Pending
  <2> QED
    BY <1>3, <2>1, RewardConstants DEF Reward!StartPass
<1>4. CASE Reward!MarkClaimed
  <2>1. marking \in User /\ \A c \in todo : c[1] # marking
    BY <1>4 DEF Reward!MarkClaimed
  <2>2. \A v \in User \ {marking} : unclaimed'[v] = unclaimed[v] /\ claimed'[v] = claimed[v]
    BY <1>4 DEF Reward!MarkClaimed
  <2>3. claimed'[marking] = claimed[marking] + unclaimed[marking]
    BY <1>4, <2>1 DEF Reward!MarkClaimed
  <2> QED
    BY <1>4, <2>1, <2>2, <2>3, RewardConstants DEF Reward!MarkClaimed
<1>5. CASE Reward!KillPass
  BY <1>5, RewardConstants DEF Reward!KillPass
<1>6. ASSUME NEW c \in todo, Reward!SkipUser(c) PROVE ClaimsAreEarned' /\ PaidIsMarked'
  BY <1>6 DEF Reward!SkipUser
<1>7. ASSUME NEW c \in todo, NEW acc \in BOOLEAN, NEW ans \in BOOLEAN, Reward!Claim(c, acc, ans)
      PROVE  ClaimsAreEarned' /\ PaidIsMarked'
  <2>1. c[1] \in User /\ c[2] \in Nat /\ c[2] <= unclaimed[c[1]] /\ marking = None
    BY <1>7 DEF Reward!Claim
  <2>2. \A d \in todo' : d \in todo /\ d[1] # c[1] /\ d[1] \in User
    BY <1>7 DEF Reward!Claim
  <2>3. ClaimsAreEarned'
    BY <1>7, <2>1, <2>2, RewardConstants DEF Reward!Claim
  <2>4. \A v \in User \ {c[1]} : paid'[v] = paid[v]
    BY <1>7 DEF Reward!Claim
  <2>5. paid'[c[1]] <= paid[c[1]] + (IF acc THEN c[2] ELSE 0)
    BY <1>7, <2>1 DEF Reward!Claim
  <2>6. ASSUME ~uncertain', NEW v \in User
        PROVE  paid'[v] <= claimed[v] + IF marking' = v THEN unclaimed[v] ELSE 0
    <3>1. paid[v] <= claimed[v] /\ ~uncertain /\ (acc => ans)
      BY <1>7, <2>1, <2>6, RewardConstants DEF Reward!Claim
    <3>2. ans => marking' = c[1]
      BY <1>7 DEF Reward!Claim
    <3>3. CASE v # c[1]
      BY <2>4, <3>1, <3>3
    <3>4. CASE v = c[1]
      <4>1. paid[v] \in Nat /\ claimed[v] \in Nat /\ unclaimed[v] \in Nat /\ paid'[v] \in Nat
        BY <1>7, <2>1, <3>4 DEF Reward!Claim
      <4>2. CASE acc
        BY <2>1, <2>5, <3>1, <3>2, <3>4, <4>1, <4>2
      <4>3. CASE ~acc
        BY <2>1, <2>5, <3>1, <3>4, <4>1, <4>3
      <4> QED
        BY <4>2, <4>3
    <3> QED
      BY <3>3, <3>4
  <2> QED
    BY <1>7, <2>3, <2>6 DEF Reward!Claim
<1>8. ASSUME NEW w \in Worker,
             \/ Reward!Connect(w) \/ Reward!DropAward(w)
             \/ \E u \in User, adr \in Address : Reward!CheckWallet(w, u, adr)
             \/ \E u \in User, a \in Action : Reward!CheckAward(w, u, a)
      PROVE  UNCHANGED <<unclaimed, claimed, todo, marking, paid, uncertain>>
  BY <1>8 DEF Reward!Connect, Reward!DropAward, Reward!CheckWallet, Reward!CheckAward
<1>9. ASSUME NEW u \in User, Reward!Disconnect(u) \/ \E a \in Action : Reward!CooldownEnds(u, a)
      PROVE  UNCHANGED <<unclaimed, claimed, todo, marking, paid, uncertain>>
  BY <1>9 DEF Reward!Disconnect, Reward!CooldownEnds
<1>10. CASE Reward!NextDay
  BY <1>1, <1>10 DEF Reward!NextDay
<1>11. CASE UNCHANGED Reward!vars
  BY <1>1, <1>11 DEF Reward!vars
<1> QED
  BY <1>1, <1>2, <1>3, <1>4, <1>5, <1>6, <1>7, <1>8, <1>9, <1>10, <1>11 DEF Reward!Next

LEMMA RewardStep == RewardInv /\ [Reward!Next]_(Reward!vars) => RewardInv'
  BY RewardTypeStep, RewardRoomStep, RewardPaidStep DEF RewardInv

LEMMA RewardHolds == RewardInv => PointsAreEarned
<1> SUFFICES ASSUME RewardInv PROVE PointsAreEarned
  OBVIOUS
<1>1. ASSUME NEW u \in User
      PROVE  today[u] <= DailyLimit + MaxPoints * (Cardinality(Worker) - 1)
  <2> DEFINE m == MaxPoints * Cardinality(Pending[u])
  <2>1. m \in Nat
    BY PendingType, OneAwardMore
  <2>2. today[u] \in Nat /\ Ceiling \in Nat /\ MaxPoints \in Nat
    BY RewardConstants, WorkersCount DEF RewardInv, RewardType
  <2>0. Most(u) = today[u] + m /\ Fits(u)
    BY DEF Most, RewardInv, RoomIsLeft
  <2>3. CASE today[u] + m <= Ceiling
    <3> HIDE DEF m
    <3>1. today[u] <= Ceiling
      BY <2>1, <2>2, <2>3
    <3> QED
      BY <3>1 DEF Ceiling
  <2>4. ASSUME NEW w \in Pending[u], today[u] + m - MaxPoints + Awards(w) <= Ceiling
        PROVE  today[u] <= Ceiling
    <3>1. Awards(w) \in Nat
      BY AwardsType DEF RewardInv, Pending
    <3>2. Cardinality(Pending[u]) \in Nat \ {0}
      BY PendingType, FS_EmptySet
    <3>3. Cardinality(Pending[u]) - 1 \in Nat
      BY <3>2
    <3>4. MaxPoints * (Cardinality(Pending[u]) - 1) \in Nat
          /\ MaxPoints * (Cardinality(Pending[u]) - 1 + 1) = MaxPoints * (Cardinality(Pending[u]) - 1) + MaxPoints
      BY <3>3, OneAwardMore
    <3>5. m = MaxPoints * (Cardinality(Pending[u]) - 1) + MaxPoints
      BY <3>2, <3>4
    <3>6. m >= MaxPoints
      BY <2>2, <3>4, <3>5
    <3> HIDE DEF m
    <3> QED
      BY <2>1, <2>2, <2>4, <3>1, <3>6
  <2> QED
    <3>1. Fits(u) /\ Most(u) = today[u] + m /\ Most(u) \in Nat
      BY <2>0, <2>1, <2>2
    <3>2. CASE Most(u) <= Ceiling
      BY <2>3, <3>1, <3>2
    <3>3. ASSUME NEW w \in Pending[u], Most(u) - MaxPoints + Awards(w) <= Ceiling
          PROVE  today[u] <= Ceiling
      <4>1. Awards(w) \in Nat
        BY AwardsType, RewardConstants DEF RewardInv, Pending
      <4> HIDE DEF m
      <4>2. today[u] + m - MaxPoints + Awards(w) <= Ceiling
        BY <2>1, <2>2, <3>1, <3>3, <4>1
      <4> QED
        BY <2>4, <4>2
    <3>4. today[u] <= Ceiling
      BY <2>3, <3>1, <3>2, <3>3 DEF Fits, Ceiling
    <3> QED
      BY <3>4 DEF Ceiling
<1>2. ASSUME ~uncertain, NEW u \in User PROVE paid[u] <= claimed[u] + unclaimed[u]
  BY <1>2 DEF RewardInv, RewardType, PaidIsMarked
<1> QED
  BY <1>1, <1>2, RewardCardinality
     DEF PointsAreEarned, Reward!PointsAreEarned, Reward!LimitIsNearlyKept, Reward!PaidIsEarned

\* Whatever requests overlap: a user earns no more in a day than the limit and one reward for each
\* other worker; and unless a payment was lost, is paid no more than was earned.
THEOREM PointsEarned == AccountsSpec => []PointsAreEarned
<1>1. AccountsInit => RewardInv
  BY RewardInit DEF AccountsInit
<1>2. RewardInv /\ [AccountsNext]_<<part, vars, organizationVars, rewardVars, cacheVars>> => RewardInv'
  <2>1. AccountsNext => [Reward!Next]_(Reward!vars)
    BY DEF AccountsNext, rewardVars, Reward!vars, Reward!rows, Reward!wallets, Reward!pass
  <2>2. UNCHANGED <<part, vars, organizationVars, rewardVars, cacheVars>> => UNCHANGED Reward!vars
    BY DEF rewardVars, Reward!vars, Reward!rows, Reward!wallets, Reward!pass
  <2> QED
    BY <2>1, <2>2, RewardStep
<1> QED
  BY <1>1, <1>2, RewardHolds, PTL DEF AccountsSpec

-----------------------------------------------------------------------------
(***************************************************************************)
(* Organizations.  Row and organization numbers are new when they are      *)
(* given; as long as no organization is deleted under a request about it,  *)
(* what a request has read of it is still there.  Requests that have found *)
(* a payment unspent, or room for a server, count with the rows.           *)
(***************************************************************************)
\* Numbers: every set of them that is not empty has a least one, and a greatest one if it is bounded.
LEMMA LeastNumber ==
  ASSUME NEW T, T \subseteq Nat, T # {}
  PROVE  \E x \in T : \A y \in T : x <= y
<1> DEFINE Below == OpToRel(<, Nat)
<1>1. \A x, y \in Nat : x < y => <<x, y>> \in Below
  BY DEF OpToRel
<1>2. IsWellFoundedOn(Below, Nat)
  BY NatLessThanWellFounded
<1> HIDE DEF Below
<1>3. PICK x \in T : \A y \in T : ~ (<<y, x>> \in Below)
  BY <1>2, WFMin, Zenon
<1>4. \A y \in T : y \in Nat /\ x \in Nat /\ ~(y < x)
  BY <1>1, <1>3
<1>5. \A y \in T : x <= y
  BY <1>4
<1> QED
  BY <1>5

LEMMA GreatestNumber ==
  ASSUME NEW T, NEW n \in Nat, T \subseteq 0 .. n, T # {}
  PROVE  \E x \in T : \A y \in T : y <= x
<1> DEFINE U == {n - x : x \in T}
<1>1. U \subseteq Nat /\ U # {}
  <2>1. \A x \in T : x \in 0 .. n /\ n - x \in Nat
    OBVIOUS
  <2>2. PICK x \in T : TRUE
    OBVIOUS
  <2>3. n - x \in U
    OBVIOUS
  <2> QED
    BY <2>1, <2>3
<1> HIDE DEF U
<1>2. PICK z \in U : \A y \in U : z <= y
  BY <1>1, LeastNumber
<1>3. PICK x \in T : z = n - x
  BY <1>2 DEF U
<1>4. ASSUME NEW y \in T PROVE y <= x
  <2>1. n - y \in U
    BY DEF U
  <2>2. z <= n - y
    BY <1>2, <2>1
  <2>3. y \in 0 .. n /\ x \in 0 .. n
    OBVIOUS
  <2> QED
    BY <1>3, <2>2, <2>3
<1> QED
  BY <1>4

OrgId == 1 .. MaxOrg
SubRow == [id : 1 .. MaxRow, org : OrgId, plan : Plan, active : BOOLEAN, payment : Payment \cup {None}]

PlanRequest == [kind : {"plan", "commit"}, org : OrgId, plan : Plan, payment : Payment \cup {None},
                old : Nat \cup {None}]
MemberRequest == [kind : {"member"}, org : OrgId, user : User, to : OrgId \cup {0}]
ServerRequest == [kind : {"server"}, org : OrgId \cup {0}]

AboutPlan(q) == q.kind \in {"plan", "commit"}

\* What a request has is of its kind.
RequestIs(q) ==
  /\ AboutPlan(q) => q \in PlanRequest /\ (q.kind = "plan" => q.old = None)
  /\ q.kind = "member" => q \in MemberRequest /\ q.to \in {q.org, 0}
  /\ q.kind = "server" => q \in ServerRequest
  /\ q.org \in OrgId \cup {0}

OrgType ==
  /\ orgs \subseteq OrgId
  /\ rows \subseteq SubRow /\ IsFiniteSet(rows) /\ \A r, s \in rows : r.id = s.id => r = s
  /\ quota \in [OrgId -> Plan \cup {"custom", None}]
  /\ member \in [User -> OrgId \cup {0, None}]
  /\ server \in [Server -> OrgId \cup {0, None}]
  /\ DOMAIN req = Worker /\ \A w \in Worker : req[w] # None => RequestIs(req[w])
  /\ late \in BOOLEAN

LEMMA OrgConstants ==
  /\ IsFiniteSet(Worker) /\ Worker # {} /\ Limit \in Nat /\ MaxOrg \in Nat \ {0} /\ MaxRow \in Nat \ {0}
  /\ "custom" \notin Plan /\ None \notin Plan \cup Payment \cup Nat \cup {"custom"}
  /\ Cardinality(Worker) \in Nat /\ Organization!Id = OrgId
<1>1. Organization!ConstantsAssumption
  BY PartsAssumption
<1>2. /\ Worker # {} /\ Limit \in Nat /\ MaxOrg \in Nat \ {0} /\ MaxRow \in Nat \ {0}
      /\ "custom" \notin Plan /\ None \notin Plan \cup Payment \cup Nat \cup {"custom"}
  BY <1>1 DEF Organization!ConstantsAssumption
<1>3. IsFiniteSet(Worker)
  BY <1>1, Zenon DEF Organization!ConstantsAssumption, Organization!IsFiniteSet, IsFiniteSet
<1> QED
  BY <1>2, <1>3, FS_CardinalityType DEF Organization!Id, OrgId

LEMMA OrgCardinality == ASSUME NEW S PROVE Organization!Cardinality(S) = Cardinality(S)
  BY Zenon DEF Organization!Cardinality, Cardinality

\* The number after the highest is not taken.
LEMMA NextIsNew ==
  ASSUME NEW n \in Nat, NEW ids, ids \subseteq 1 .. n
  PROVE  Organization!Next1(ids) \in Nat \ {0} /\ Organization!Next1(ids) \notin ids
<1> DEFINE S == ids \cup {0}
<1>1. S \subseteq 0 .. n /\ S # {} /\ ids \subseteq S
  OBVIOUS
<1>2. Organization!Next1(ids) = Organization!Max(S) + 1
  BY DEF Organization!Next1
<1> HIDE DEF S
<1>3. \E x \in S : \A y \in S : x >= y
  <2>1. PICK x \in S : \A y \in S : y <= x
    BY <1>1, GreatestNumber
  <2>2. \A y \in S : x \in Nat /\ y \in Nat
    BY <1>1
  <2> QED
    BY <2>1, <2>2
<1> DEFINE m == Organization!Max(S)
<1>4. m \in S /\ \A y \in S : m >= y
  BY <1>3, Zenon DEF Organization!Max
<1> HIDE DEF m
<1>5. m \in Nat
  BY <1>1, <1>4
<1>6. m + 1 \notin ids
  <2> SUFFICES ASSUME m + 1 \in ids PROVE FALSE
    OBVIOUS
  <2>1. m >= m + 1
    BY <1>1, <1>4
  <2> QED
    BY <1>5, <2>1
<1> QED
  BY <1>2, <1>5, <1>6 DEF m

LEMMA RowIsNew ==
  ASSUME OrgType
  PROVE  Organization!NextRow \in Nat \ {0} /\ \A r \in rows : r.id # Organization!NextRow
<1>1. MaxRow \in Nat /\ {r.id : r \in rows} \subseteq 1 .. MaxRow
  BY OrgConstants DEF OrgType, SubRow
<1> QED
  BY <1>1, NextIsNew DEF Organization!NextRow

LEMMA OrgIsNew ==
  ASSUME OrgType
  PROVE  Organization!Next1(orgs) \notin orgs
  BY OrgConstants, NextIsNew DEF OrgType, OrgId

\* A subscription that is added.
LEMMA RowJoins ==
  ASSUME NEW R, R \subseteq SubRow, IsFiniteSet(R), \A r, s \in R : r.id = s.id => r = s,
         NEW n \in SubRow, \A r \in R : r.id # n.id
  PROVE  R \cup {n} \subseteq SubRow /\ IsFiniteSet(R \cup {n})
         /\ \A r, s \in R \cup {n} : r.id = s.id => r = s
  BY FS_AddElement

Paid(R, t) == {r \in R : r.payment = t}

LEMMA RowPaid ==
  ASSUME NEW R, IsFiniteSet(R), NEW n, NEW t
  PROVE  /\ Cardinality(Paid(R, t)) \in Nat
         /\ n.payment = t => Cardinality(Paid(R \cup {n}, t)) <= Cardinality(Paid(R, t)) + 1
         /\ n.payment # t => Paid(R \cup {n}, t) = Paid(R, t)
<1>1. IsFiniteSet(Paid(R, t))
  BY FS_Subset DEF Paid
<1>2. n.payment = t => Paid(R \cup {n}, t) = Paid(R, t) \cup {n}
  BY DEF Paid
<1>3. n.payment # t => Paid(R \cup {n}, t) = Paid(R, t)
  BY DEF Paid
<1>4. Cardinality(Paid(R, t)) \in Nat
  BY <1>1, FS_CardinalityType
<1>5. Cardinality(Paid(R, t) \cup {n}) \in {Cardinality(Paid(R, t)), Cardinality(Paid(R, t)) + 1}
  BY <1>1, FS_AddElement
<1> QED
  BY <1>2, <1>3, <1>4, <1>5

\* One that is cancelled.
Cancelled(old) == {IF x.id = old THEN [x EXCEPT !.active = FALSE] ELSE x : x \in rows}

LEMMA RowCancelled ==
  ASSUME OrgType, NEW old
  PROVE  /\ Cancelled(old) \subseteq SubRow /\ IsFiniteSet(Cancelled(old))
         /\ \A r, s \in Cancelled(old) : r.id = s.id => r = s
         /\ \A y \in Cancelled(old) : \E x \in rows :
              y.id = x.id /\ y.org = x.org /\ y.plan = x.plan /\ y.payment = x.payment
         /\ \A x \in rows : \E y \in Cancelled(old) : y.id = x.id /\ y.org = x.org /\ (x.id # old => y = x)
         /\ \A t : Cardinality(Paid(Cancelled(old), t)) <= Cardinality(Paid(rows, t))
<1>1. CASE \A x \in rows : x.id # old
  <2>1. Cancelled(old) = rows
    BY <1>1 DEF Cancelled
  <2>2. \A t : Cardinality(Paid(rows, t)) \in Nat
    <3> SUFFICES ASSUME NEW t PROVE Cardinality(Paid(rows, t)) \in Nat
      OBVIOUS
    <3> QED
      BY RowPaid DEF OrgType
  <2> QED
    BY <2>1, <2>2 DEF OrgType
<1>2. CASE \E x \in rows : x.id = old
  <2>1. PICK x \in rows : x.id = old
    BY <1>2
  <2> DEFINE y == [x EXCEPT !.active = FALSE]
  <2>2. y \in SubRow /\ y.id = x.id /\ y.org = x.org /\ y.plan = x.plan /\ y.payment = x.payment
    BY DEF OrgType, SubRow
  <2>3. Cancelled(old) = (rows \ {x}) \cup {y}
    BY <2>1 DEF Cancelled, OrgType
  <2> HIDE DEF y
  <2>4. rows \ {x} \subseteq SubRow /\ IsFiniteSet(rows \ {x}) /\ \A r, s \in rows \ {x} : r.id = s.id => r = s
    BY FS_RemoveElement DEF OrgType
  <2>5. \A r \in rows \ {x} : r.id # y.id
    BY <2>2 DEF OrgType
  <2>6. /\ Cancelled(old) \subseteq SubRow /\ IsFiniteSet(Cancelled(old))
        /\ \A r, s \in Cancelled(old) : r.id = s.id => r = s
    BY <2>2, <2>3, <2>4, <2>5, RowJoins
  <2>7. \A z \in Cancelled(old) : \E v \in rows :
          z.id = v.id /\ z.org = v.org /\ z.plan = v.plan /\ z.payment = v.payment
    BY <2>2, <2>3
  <2>8. \A v \in rows : \E z \in Cancelled(old) : z.id = v.id /\ z.org = v.org /\ (v.id # old => z = v)
    BY <2>1, <2>2, <2>3
  <2>9. ASSUME NEW t PROVE Cardinality(Paid(Cancelled(old), t)) <= Cardinality(Paid(rows, t))
    <3>1. IsFiniteSet(Paid(rows, t)) /\ Cardinality(Paid(rows, t)) \in Nat
      BY FS_Subset, FS_CardinalityType DEF Paid, OrgType
    <3>2. CASE x.payment # t
      <4>1. Paid(Cancelled(old), t) = Paid(rows, t)
        BY <2>2, <2>3, <3>2 DEF Paid
      <4> QED
        BY <3>1, <4>1
    <3>3. CASE x.payment = t
      <4>1. Paid(Cancelled(old), t) = (Paid(rows, t) \ {x}) \cup {y} /\ x \in Paid(rows, t)
        BY <2>2, <2>3, <3>3 DEF Paid
      <4>2. IsFiniteSet(Paid(rows, t) \ {x}) /\ Cardinality(Paid(rows, t) \ {x}) = Cardinality(Paid(rows, t)) - 1
        BY <3>1, <4>1, FS_RemoveElement
      <4>3. Cardinality((Paid(rows, t) \ {x}) \cup {y}) <= Cardinality(Paid(rows, t) \ {x}) + 1
        <5>1. Cardinality(Paid(rows, t) \ {x}) \in Nat
          BY <4>2, FS_CardinalityType
        <5> QED
          BY <4>2, <5>1, FS_AddElement
      <4> QED
        BY <3>1, <4>1, <4>2, <4>3
    <3> QED
      BY <3>2, <3>3
  <2> QED
    BY <2>6, <2>7, <2>8, <2>9
<1> QED
  BY <1>1, <1>2
\* Requests that have found the payment unspent, or room for a server.
Buying(t) == {w \in Worker : req[w] # None /\ AboutPlan(req[w]) /\ req[w].payment = t}
Adding(o) == {w \in Worker : req[w] # None /\ req[w].kind = "server" /\ req[w].org = o}
Lodged(o) == {s \in Server : server[s] = o}

RequestStands(q) ==
  /\ q.org \in orgs \cup {0}
  /\ q.kind = "commit" /\ q.old # None => \E r \in rows : r.id = q.old /\ r.org = q.org

RequestsStand == \A w \in Worker : req[w] # None => RequestStands(req[w])

Subscribed ==
  \A o \in OrgId : quota[o] \in Plan => \E r \in rows : r.org = o /\ r.active /\ r.plan = quota[o]

NothingLeft ==
  \A o \in OrgId \ orgs :
    /\ quota[o] = None
    /\ \A u \in User : member[u] # o
    /\ \A s \in Server : server[s] # o
    /\ \A r \in rows : r.org # o

OrgsStand == late \/ (RequestsStand /\ Subscribed /\ NothingLeft)

Bought(q) == q.payment # None => q.plan \in PaysForOne[q.payment]

PlansArePaid ==
  Chain => /\ \A r \in rows : Bought(r)
           /\ \A w \in Worker : req[w] # None /\ AboutPlan(req[w]) => Bought(req[w])

PaymentsLast ==
  \A t \in Payment : Cardinality(Paid(rows, t)) + Cardinality(Buying(t)) <= Cardinality(Worker)

RoomLasts ==
  \A o \in OrgId :
    /\ IsFiniteSet(Lodged(o))
    /\ Cardinality(Lodged(o)) + Cardinality(Adding(o)) <= Limit + Cardinality(Worker) - 1

OrgInv == OrgType /\ OrgsStand /\ PlansArePaid /\ PaymentsLast /\ RoomLasts

LEMMA OrgInit == Organization!Init => OrgInv
<1> SUFFICES ASSUME Organization!Init PROVE OrgInv
  OBVIOUS
<1>1. PICK p \in Plan :
        /\ orgs = {1}
        /\ rows = {Organization!Row(1, 1, p, None)}
        /\ quota = [o \in OrgId |-> IF o = 1 THEN p ELSE None]
  BY OrgConstants DEF Organization!Init
<1> DEFINE first == Organization!Row(1, 1, p, None)
<1>2. /\ first \in SubRow /\ first.id = 1 /\ first.org = 1 /\ first.plan = p
      /\ first.active = TRUE /\ first.payment = None
  BY OrgConstants DEF SubRow, OrgId, Organization!Row
<1> HIDE DEF first
<1>3. rows = {first}
  BY <1>1 DEF first
<1>4. /\ server = [s \in Server |-> None] /\ req = [w \in Worker |-> None] /\ late = FALSE
      /\ member \in [User -> {1, None}]
  BY DEF Organization!Init
<1>5. 1 \in OrgId
  BY OrgConstants DEF OrgId
<1>6. OrgType
  <2>1. rows \subseteq SubRow /\ IsFiniteSet(rows) /\ \A r, s \in rows : r.id = s.id => r = s
    BY <1>2, <1>3, FS_Singleton
  <2>2. orgs \subseteq OrgId /\ quota \in [OrgId -> Plan \cup {"custom", None}]
    BY <1>1, <1>5
  <2>3. member \in [User -> OrgId \cup {0, None}] /\ server \in [Server -> OrgId \cup {0, None}]
    BY <1>4, <1>5
  <2> QED
    BY <2>1, <2>2, <2>3, <1>4 DEF OrgType
<1>7. OrgsStand
  <2>1. RequestsStand
    BY <1>4 DEF RequestsStand
  <2>2. Subscribed
    BY <1>1, <1>2, <1>3, OrgConstants DEF Subscribed
  <2>3. NothingLeft
    <3> SUFFICES ASSUME NEW o \in OrgId \ orgs
                 PROVE  /\ quota[o] = None
                        /\ \A u \in User : member[u] # o
                        /\ \A s \in Server : server[s] # o
                        /\ \A r \in rows : r.org # o
      BY DEF NothingLeft
    <3>1. o # 1 /\ o # None
      BY <1>1, OrgConstants DEF OrgId
    <3> QED
      BY <1>1, <1>2, <1>3, <1>4, <3>1
  <2> QED
    BY <2>1, <2>2, <2>3 DEF OrgsStand
<1>8. PlansArePaid
  BY <1>2, <1>3, <1>4 DEF PlansArePaid, Bought
<1>9. Cardinality({}) = 0 /\ IsFiniteSet({})
  BY FS_EmptySet
<1>10. PaymentsLast
  <2> SUFFICES ASSUME NEW t \in Payment
               PROVE  Cardinality(Paid(rows, t)) + Cardinality(Buying(t)) <= Cardinality(Worker)
    BY DEF PaymentsLast
  <2>1. Paid(rows, t) = {}
    BY <1>2, <1>3, OrgConstants DEF Paid
  <2>2. Buying(t) = {}
    BY <1>4 DEF Buying
  <2> QED
    BY <2>1, <2>2, <1>9, OrgConstants
<1>11. RoomLasts
  <2> SUFFICES ASSUME NEW o \in OrgId
               PROVE  /\ IsFiniteSet(Lodged(o))
                      /\ Cardinality(Lodged(o)) + Cardinality(Adding(o)) <= Limit + Cardinality(Worker) - 1
    BY DEF RoomLasts
  <2>1. Lodged(o) = {}
    BY <1>4, OrgConstants DEF Lodged, OrgId
  <2>2. Adding(o) = {}
    BY <1>4 DEF Adding
  <2>3. Cardinality(Worker) # 0
    BY OrgConstants, FS_EmptySet
  <2> QED
    BY <2>1, <2>2, <2>3, <1>9, OrgConstants
<1> QED
  BY <1>6, <1>7, <1>8, <1>10, <1>11 DEF OrgInv

\* A request that has come, or has read what it needed.
LEMMA RequestComes ==
  ASSUME OrgType, NEW w \in Worker, NEW q, RequestIs(q), req' = [req EXCEPT ![w] = q]
  PROVE  /\ DOMAIN req' = Worker /\ \A x \in Worker : req'[x] # None => RequestIs(req'[x])
         /\ req'[w] = q /\ \A x \in Worker \ {w} : req'[x] = req[x]
  BY DEF OrgType

\* One that is answered.
LEMMA RequestEnds ==
  ASSUME OrgType, NEW w \in Worker, req' = [req EXCEPT ![w] = None]
  PROVE  /\ DOMAIN req' = Worker /\ \A x \in Worker : req'[x] # None => RequestIs(req'[x])
         /\ req'[w] = None /\ \A x \in Worker \ {w} : req'[x] = req[x]
  BY DEF OrgType

LEMMA PlanIsAsked ==
  ASSUME NEW o \in OrgId, NEW p \in Plan, NEW t \in Payment \cup {None}
  PROVE  LET q == [kind |-> "plan", org |-> o, plan |-> p, payment |-> t, old |-> None]
         IN  RequestIs(q) /\ AboutPlan(q)
  BY OrgConstants DEF RequestIs, AboutPlan, PlanRequest
LEMMA MemberIsAsked ==
  ASSUME NEW o \in OrgId, NEW u \in User, NEW v \in {o, 0}
  PROVE  LET q == [kind |-> "member", org |-> o, user |-> u, to |-> v]
         IN  RequestIs(q) /\ ~AboutPlan(q)
  BY DEF RequestIs, AboutPlan, MemberRequest

LEMMA ServerIsAsked ==
  ASSUME NEW o \in OrgId \cup {0}
  PROVE  LET q == [kind |-> "server", org |-> o] IN RequestIs(q) /\ ~AboutPlan(q)
<1> DEFINE q == [kind |-> "server", org |-> o]
<1>1. q.kind = "server" /\ q.org = o /\ q \in ServerRequest
  BY DEF ServerRequest
<1> HIDE DEF q
<1>2. q.kind \notin {"plan", "commit", "member"}
  BY <1>1
<1>3. RequestIs(q) /\ ~AboutPlan(q)
  BY <1>1, <1>2 DEF RequestIs, AboutPlan
<1> QED
  BY <1>3 DEF q

\* The subscription that counts has been read.
LEMMA OldIsRead ==
  ASSUME OrgType, NEW w \in Worker, Organization!ReadOld(w)
  PROVE  \E q \in PlanRequest :
           /\ req' = [req EXCEPT ![w] = q] /\ req[w] # None /\ AboutPlan(req[w])
           /\ q.kind = "commit" /\ q.org = req[w].org /\ q.plan = req[w].plan /\ q.payment = req[w].payment
           /\ q.old # None => \E r \in rows : r.id = q.old /\ r.org = q.org
<1>1. req[w] # None /\ req[w].kind = "plan"
  BY DEF Organization!ReadOld, Organization!Asks
<1>2. req[w] \in PlanRequest /\ AboutPlan(req[w])
  BY <1>1 DEF OrgType, RequestIs, AboutPlan
<1> DEFINE e == [req[w] EXCEPT !.kind = "commit"]
<1>3. /\ e \in PlanRequest /\ req[w].old = None
      /\ e.kind = "commit" /\ e.org = req[w].org /\ e.plan = req[w].plan /\ e.payment = req[w].payment
      /\ e.old = req[w].old
  BY <1>1, <1>2 DEF PlanRequest, OrgType, RequestIs
<1>4. CASE Organization!Active(req[w].org) = {} /\ req' = [req EXCEPT ![w].kind = "commit"]
  <2>1. req' = [req EXCEPT ![w] = e]
    BY <1>4
  <2> HIDE DEF e
  <2> QED
    BY <1>1, <1>2, <1>3, <2>1
<1>5. ASSUME NEW r \in Organization!Active(req[w].org),
             req' = [req EXCEPT ![w].kind = "commit", ![w].old = r.id]
      PROVE  \E q \in PlanRequest :
               /\ req' = [req EXCEPT ![w] = q]
               /\ q.kind = "commit" /\ q.org = req[w].org /\ q.plan = req[w].plan /\ q.payment = req[w].payment
               /\ q.old # None => \E x \in rows : x.id = q.old /\ x.org = q.org
  <2>1. r \in rows /\ r.org = req[w].org /\ r.id \in Nat
    BY DEF Organization!Active, OrgType, SubRow
  <2>2. req' = [req EXCEPT ![w] = [e EXCEPT !.old = r.id]]
    BY <1>5 DEF OrgType
  <2> HIDE DEF e
  <2> DEFINE q == [e EXCEPT !.old = r.id]
  <2>3. /\ q \in PlanRequest /\ q.kind = e.kind /\ q.org = e.org /\ q.plan = e.plan
        /\ q.payment = e.payment /\ q.old = r.id
    BY <1>3, <2>1 DEF PlanRequest
  <2> HIDE DEF q
  <2>4. req' = [req EXCEPT ![w] = q]
    BY <2>2 DEF q
  <2> QED
    BY <1>3, <2>1, <2>3, <2>4
<1> QED
  BY <1>1, <1>2, <1>4, <1>5 DEF Organization!ReadOld

\* A request to change the plan that commits.
LEMMA PlanIsChanged ==
  ASSUME OrgType, NEW w \in Worker, Organization!ChangePlan(w)
  PROVE  /\ req[w] # None /\ req[w].kind = "commit" /\ AboutPlan(req[w]) /\ req[w] \in PlanRequest
         /\ req' = [req EXCEPT ![w] = None]
         /\ UNCHANGED <<orgs, member, server, late>>
         /\ \/ UNCHANGED <<rows, quota>>
            \/ /\ req[w].old = None \/ \E x \in rows : x.id = req[w].old
               /\ \E n \in SubRow :
                    /\ n.org = req[w].org /\ n.plan = req[w].plan /\ n.active = TRUE
                    /\ n.payment = req[w].payment
                    /\ \A r \in rows : r.id # n.id
                    /\ rows' = Cancelled(req[w].old) \cup {n}
               /\ quota' = [quota EXCEPT ![req[w].org] = req[w].plan]
<1>1. req[w] # None /\ req[w].kind = "commit"
  BY DEF Organization!ChangePlan, Organization!Asks
<1>2. req[w] \in PlanRequest /\ AboutPlan(req[w])
  BY <1>1 DEF OrgType, RequestIs, AboutPlan
<1>3. req' = [req EXCEPT ![w] = None] /\ UNCHANGED <<orgs, member, server, late>>
  BY DEF Organization!ChangePlan, Organization!End
<1>4. CASE /\ req[w].old = None \/ \E x \in rows : x.id = req[w].old
           /\ Organization!NextRow <= MaxRow
           /\ rows' = Organization!Resubscribed(req[w])
           /\ quota' = [quota EXCEPT ![req[w].org] = req[w].plan]
  <2> DEFINE n == Organization!Row(Organization!NextRow, req[w].org, req[w].plan, req[w].payment)
  <2>1. /\ n.id = Organization!NextRow /\ n.org = req[w].org /\ n.plan = req[w].plan
        /\ n.active = TRUE /\ n.payment = req[w].payment
    BY DEF Organization!Row
  <2>2. n \in SubRow
    <3>1. Organization!NextRow \in 1 .. MaxRow
      BY <1>4, RowIsNew, OrgConstants
    <3> QED
      BY <1>2, <3>1 DEF Organization!Row, SubRow, PlanRequest
  <2>3. rows' = Cancelled(req[w].old) \cup {n}
    BY <1>4 DEF Organization!Resubscribed, Cancelled
  <2> HIDE DEF n
  <2>4. \A r \in rows : r.id # n.id
    BY <2>1, RowIsNew
  <2> QED
    BY <1>1, <1>2, <1>3, <1>4, <2>1, <2>2, <2>3, <2>4
<1> QED
  BY <1>1, <1>2, <1>3, <1>4 DEF Organization!ChangePlan
LEMMA OrgTypeStep == OrgType /\ [Organization!Next]_(Organization!vars) => OrgType'
<1> SUFFICES ASSUME OrgType, [Organization!Next]_(Organization!vars) PROVE OrgType'
  OBVIOUS
<1> DEFINE ReqType == DOMAIN req = Worker /\ \A w \in Worker : req[w] # None => RequestIs(req[w])
           RowType == rows \subseteq SubRow /\ IsFiniteSet(rows) /\ \A r, s \in rows : r.id = s.id => r = s
           OthersType == /\ orgs \subseteq OrgId
                         /\ quota \in [OrgId -> Plan \cup {"custom", None}]
                         /\ member \in [User -> OrgId \cup {0, None}]
                         /\ server \in [Server -> OrgId \cup {0, None}]
                         /\ late \in BOOLEAN
<1>0. ReqType /\ RowType /\ OthersType /\ (ReqType' /\ RowType' /\ OthersType' => OrgType')
  BY DEF OrgType
<1>1. ASSUME NEW p \in Plan \cup {None}, Organization!CreateOrg(p) PROVE OrgType'
  <2> DEFINE o == Organization!Next1(orgs)
             n == Organization!Row(Organization!NextRow, o, p, None)
  <2>1. /\ o \in OrgId /\ Organization!NextRow <= MaxRow /\ orgs' = orgs \cup {o}
        /\ UNCHANGED <<member, server, req, late>>
    BY <1>1, OrgConstants DEF Organization!CreateOrg
  <2>2. p = None => UNCHANGED <<rows, quota>>
    BY <1>1 DEF Organization!CreateOrg
  <2>3. p # None => rows' = rows \cup {n} /\ quota' = [quota EXCEPT ![o] = p]
    BY <1>1 DEF Organization!CreateOrg
  <2>4. p # None => n \in SubRow /\ n.id = Organization!NextRow
    BY <2>1, RowIsNew, OrgConstants DEF Organization!Row, SubRow
  <2> HIDE DEF n, o
  <2>5. RowType'
    <3>1. CASE p = None
      BY <1>0, <2>2, <3>1
    <3>2. CASE p # None
      BY <1>0, <2>3, <2>4, <3>2, RowIsNew, RowJoins
    <3> QED
      BY <3>1, <3>2
  <2>6. OthersType'
    BY <1>0, <2>1, <2>2, <2>3
  <2> QED
    BY <1>0, <2>1, <2>5, <2>6
<1>2. ASSUME NEW o \in OrgId, Organization!DeleteOrg(o) PROVE OrgType'
  <2>1. /\ rows' = {r \in rows : r.org # o}
        /\ orgs' = orgs \ {o}
        /\ quota' = [quota EXCEPT ![o] = None] /\ late' \in BOOLEAN /\ UNCHANGED req
    BY <1>2, <1>0 DEF Organization!DeleteOrg, Organization!Kept
  <2>2. /\ member' = [x \in User |-> IF member[x] = o THEN 0 ELSE member[x]]
        /\ server' = [x \in Server |-> IF server[x] = o THEN 0 ELSE server[x]]
    BY <1>2, <1>0 DEF Organization!DeleteOrg, Organization!Orphaned
  <2>3. RowType'
    BY <1>0, <2>1, FS_Subset
  <2>4. OthersType'
    BY <1>0, <2>1, <2>2
  <2> QED
    BY <1>0, <2>1, <2>3, <2>4
<1>3. ASSUME NEW o \in OrgId, Organization!UpdateQuota(o) PROVE OrgType'
  BY <1>3 DEF Organization!UpdateQuota, OrgType
<1>4. ASSUME NEW w \in Worker, NEW q, RequestIs(q), Organization!Begin(w, q) PROVE OrgType'
  <2>1. req' = [req EXCEPT ![w] = q] /\ UNCHANGED <<orgs, rows, quota, member, server, late>>
    BY <1>4 DEF Organization!Begin, Organization!tables
  <2>2. ReqType'
    BY <1>4, <2>1, RequestComes
  <2> QED
    BY <1>0, <2>1, <2>2
<1>5. ASSUME NEW w \in Worker, NEW o \in OrgId, NEW p \in Plan, NEW t \in Payment \cup {None},
             Organization!BeginPlan(w, o, p, t)
      PROVE  OrgType'
  BY <1>4, <1>5, PlanIsAsked DEF Organization!BeginPlan
<1>6. ASSUME NEW w \in Worker, NEW o \in OrgId, NEW u \in User,
             Organization!BeginMember(w, o, u) \/ Organization!BeginRemoval(w, o, u)
      PROVE  OrgType'
  BY <1>4, <1>6, MemberIsAsked DEF Organization!BeginMember, Organization!BeginRemoval
<1>7. ASSUME NEW w \in Worker, NEW o \in OrgId \cup {0}, Organization!BeginServer(w, o) PROVE OrgType'
  BY <1>4, <1>7, ServerIsAsked DEF Organization!BeginServer
<1>8. ASSUME NEW w \in Worker, Organization!ReadOld(w) PROVE OrgType'
  <2>1. UNCHANGED <<orgs, rows, quota, member, server, late>>
    BY <1>8 DEF Organization!ReadOld, Organization!tables
  <2>2. PICK q \in PlanRequest : req' = [req EXCEPT ![w] = q] /\ q.kind = "commit"
    BY <1>8, OldIsRead
  <2>3. RequestIs(q)
    BY <2>2 DEF RequestIs, AboutPlan, PlanRequest
  <2>4. ReqType'
    BY <2>2, <2>3, RequestComes
  <2> QED
    BY <1>0, <2>1, <2>4
<1>9. ASSUME NEW w \in Worker, Organization!ChangePlan(w) PROVE OrgType'
  <2>1. ReqType'
    BY <1>9, PlanIsChanged, RequestEnds
  <2>2. UNCHANGED <<orgs, member, server, late>> /\ req[w] \in PlanRequest
    BY <1>9, PlanIsChanged
  <2>3. CASE UNCHANGED <<rows, quota>>
    BY <1>0, <2>1, <2>2, <2>3
  <2>4. ASSUME NEW n \in SubRow, \A r \in rows : r.id # n.id, rows' = Cancelled(req[w].old) \cup {n},
               quota' = [quota EXCEPT ![req[w].org] = req[w].plan]
        PROVE  OrgType'
    <3>1. \A y \in Cancelled(req[w].old) : y.id # n.id
      BY <2>4, RowCancelled
    <3>2. RowType'
      BY <2>4, <3>1, RowCancelled, RowJoins
    <3>3. OthersType'
      BY <1>0, <2>2, <2>4 DEF PlanRequest
    <3> QED
      BY <1>0, <2>1, <3>2, <3>3
  <2>5. \/ UNCHANGED <<rows, quota>>
        \/ \E n \in SubRow : /\ \A r \in rows : r.id # n.id
                             /\ rows' = Cancelled(req[w].old) \cup {n}
                             /\ quota' = [quota EXCEPT ![req[w].org] = req[w].plan]
    <3>1. \/ UNCHANGED <<rows, quota>>
          \/ /\ req[w].old = None \/ \E x \in rows : x.id = req[w].old
             /\ \E n \in SubRow :
                  /\ n.org = req[w].org /\ n.plan = req[w].plan /\ n.active = TRUE
                  /\ n.payment = req[w].payment
                  /\ \A r \in rows : r.id # n.id
                  /\ rows' = Cancelled(req[w].old) \cup {n}
             /\ quota' = [quota EXCEPT ![req[w].org] = req[w].plan]
      BY <1>9, PlanIsChanged
    <3> QED
      BY <3>1
  <2> QED
    BY <2>3, <2>4, <2>5
<1>10. ASSUME NEW w \in Worker, Organization!SetMember(w) PROVE OrgType'
  <2>1. req[w] # None /\ req[w].kind = "member" /\ req' = [req EXCEPT ![w] = None]
        /\ UNCHANGED <<orgs, rows, quota, server, late>>
    BY <1>10 DEF Organization!SetMember, Organization!Asks, Organization!End
  <2>2. req[w].to \in OrgId \cup {0}
    BY <2>1 DEF OrgType, RequestIs, MemberRequest
  <2>3. member' \in [User -> OrgId \cup {0, None}]
    BY <1>0, <1>10, <2>2 DEF Organization!SetMember
  <2>4. ReqType'
    BY <2>1, RequestEnds
  <2> QED
    BY <1>0, <2>1, <2>3, <2>4
<1>11. ASSUME NEW u \in User, Organization!CreateToken(u) PROVE OrgType'
  BY <1>11 DEF Organization!CreateToken, OrgType
<1>12. ASSUME NEW u \in User, NEW o \in OrgId \cup {0}, Organization!CreateUser(u, o) PROVE OrgType'
  BY <1>12 DEF Organization!CreateUser, OrgType
<1>13. ASSUME NEW w \in Worker, Organization!AddServer(w) PROVE OrgType'
  <2>1. req[w] # None /\ req[w].kind = "server" /\ req' = [req EXCEPT ![w] = None]
        /\ UNCHANGED <<orgs, rows, quota, member, late>>
    BY <1>13 DEF Organization!AddServer, Organization!Asks, Organization!End
  <2>2. req[w].org \in OrgId \cup {0}
    BY <2>1 DEF OrgType, RequestIs
  <2>3. server' \in [Server -> OrgId \cup {0, None}]
    BY <1>0, <1>13, <2>2 DEF Organization!AddServer
  <2>4. ReqType'
    BY <2>1, RequestEnds
  <2> QED
    BY <1>0, <2>1, <2>3, <2>4
<1>14. ASSUME NEW s \in Server, Organization!DeleteServer(s) PROVE OrgType'
  BY <1>14 DEF Organization!DeleteServer, OrgType
<1>15. CASE UNCHANGED Organization!vars
  BY <1>15 DEF Organization!vars, OrgType
<1> QED
  BY <1>1, <1>2, <1>3, <1>5, <1>6, <1>7, <1>8, <1>9, <1>10, <1>11, <1>12, <1>13, <1>14, <1>15, OrgConstants
     DEF Organization!Next
\* The tables are as they were, and what has come to the request stands.
LEMMA TablesStand ==
  ASSUME OrgType, OrgsStand, UNCHANGED <<orgs, rows, quota, member, server, late>>,
         NEW w \in Worker, ~late /\ req'[w] # None => RequestStands(req'[w]),
         \A x \in Worker \ {w} : req'[x] = req[x]
  PROVE  OrgsStand'
<1>1. CASE late
  BY <1>1 DEF OrgsStand
<1>2. CASE ~late
  <2>1. RequestsStand /\ Subscribed /\ NothingLeft
    BY <1>2 DEF OrgsStand
  <2>2. \A x \in Worker : req'[x] # None => RequestStands(req'[x])
    BY <1>2, <2>1 DEF RequestsStand
  <2>3. RequestsStand'
    BY <2>2 DEF RequestsStand, RequestStands
  <2>4. Subscribed' /\ NothingLeft'
    BY <2>1 DEF Subscribed, NothingLeft
  <2> QED
    BY <2>3, <2>4 DEF OrgsStand
<1> QED
  BY <1>1, <1>2 DEF OrgType

\* A request that ends leaves the others standing as long as the subscriptions they have read stay.
LEMMA RequestsStay ==
  ASSUME OrgType, RequestsStand, NEW w \in Worker, orgs' = orgs, rows' = rows,
         req' = [req EXCEPT ![w] = None]
  PROVE  RequestsStand'
  BY RequestEnds DEF RequestsStand, RequestStands

\* Another plan: the subscription that is cancelled is one of the same organization.
LEMMA PlanChangeStands ==
  ASSUME OrgType, OrgsStand, NEW w \in Worker, Organization!ChangePlan(w), ~late
  PROVE  RequestsStand' /\ Subscribed' /\ NothingLeft'
<1>1. RequestsStand /\ Subscribed /\ NothingLeft
  BY DEF OrgsStand
<1>2. /\ req[w] # None /\ req[w].kind = "commit" /\ req[w] \in PlanRequest
      /\ req' = [req EXCEPT ![w] = None]
      /\ UNCHANGED <<orgs, member, server>>
  BY PlanIsChanged
<1>3. req'[w] = None /\ \A x \in Worker \ {w} : req'[x] = req[x]
  BY <1>2, RequestEnds
<1>4. CASE UNCHANGED <<rows, quota>>
  <2>1. RequestsStand'
    BY <1>1, <1>2, <1>4, RequestsStay
  <2> QED
    BY <1>1, <1>2, <1>4, <2>1 DEF Subscribed, NothingLeft
<1>5. ASSUME req[w].old = None \/ \E x \in rows : x.id = req[w].old,
             NEW n \in SubRow, n.org = req[w].org, n.plan = req[w].plan, n.active = TRUE,
             rows' = Cancelled(req[w].old) \cup {n},
             quota' = [quota EXCEPT ![req[w].org] = req[w].plan]
      PROVE  RequestsStand' /\ Subscribed' /\ NothingLeft'
  <2> DEFINE c == req[w].org
             old == req[w].old
  <2>1. c \in OrgId /\ c \in orgs
    BY <1>1, <1>2, OrgConstants DEF PlanRequest, RequestsStand, RequestStands, OrgId
  <2>2. ASSUME NEW x \in rows, x.id = old PROVE x.org = c
    <3>1. old # None
      BY <2>2, OrgConstants DEF OrgType, SubRow
    <3>2. PICK r \in rows : r.id = old /\ r.org = c
      BY <1>1, <1>2, <3>1 DEF RequestsStand, RequestStands
    <3> QED
      BY <2>2, <3>2 DEF OrgType
  <2>3. n.org = c /\ n.plan = req[w].plan /\ rows' = Cancelled(old) \cup {n}
        /\ quota' = [quota EXCEPT ![c] = req[w].plan]
    BY <1>5
  <2>4. \A x \in rows : \E y \in rows' : y.id = x.id /\ y.org = x.org /\ (x.id # old => y = x)
    BY <2>3, RowCancelled
  <2>5. \A y \in rows' : y = n \/ \E x \in rows : y.id = x.id /\ y.org = x.org
    BY <2>3, RowCancelled
  <2>6. req[w].plan = n.plan /\ n \in rows' /\ n.active = TRUE
    BY <1>5, <2>3
  <2>7. RequestsStand'
    <3> SUFFICES ASSUME NEW v \in Worker, req'[v] # None PROVE RequestStands(req[v])'
      BY DEF RequestsStand
    <3>1. v # w /\ req'[v] = req[v] /\ RequestStands(req[v])
      BY <1>1, <1>3 DEF RequestsStand
    <3>2. ASSUME NEW r \in rows PROVE \E y \in rows' : y.id = r.id /\ y.org = r.org
      BY <2>4
    <3> QED
      BY <1>2, <3>1, <3>2 DEF RequestStands
  <2> HIDE DEF c, old
  <2>8. Subscribed'
    <3> SUFFICES ASSUME NEW o \in OrgId, quota'[o] \in Plan
                 PROVE  \E r \in rows' : r.org = o /\ r.active /\ r.plan = quota'[o]
      BY DEF Subscribed
    <3>1. CASE o = c
      BY <2>1, <2>3, <2>6, <3>1 DEF OrgType
    <3>2. CASE o # c
      <4>1. quota'[o] = quota[o]
        BY <2>1, <2>3, <3>2 DEF OrgType
      <4>2. PICK x \in rows : x.org = o /\ x.active /\ x.plan = quota[o]
        BY <1>1, <4>1 DEF Subscribed
      <4>3. x.id # old
        BY <2>2, <3>2, <4>2 DEF c, old
      <4>4. x \in rows'
        BY <2>4, <4>3
      <4> QED
        BY <4>1, <4>2, <4>4
    <3> QED
      BY <3>1, <3>2
  <2>9. NothingLeft'
    <3> SUFFICES ASSUME NEW o \in OrgId \ orgs
                 PROVE  /\ quota'[o] = None
                        /\ \A u \in User : member[u] # o
                        /\ \A s \in Server : server[s] # o
                        /\ \A r \in rows' : r.org # o
      BY <1>2 DEF NothingLeft
    <3>1. o # c
      BY <2>1
    <3>2. quota'[o] = quota[o]
      BY <2>1, <2>3, <3>1 DEF OrgType
    <3>3. quota[o] = None /\ (\A u \in User : member[u] # o) /\ (\A s \in Server : server[s] # o)
          /\ \A r \in rows : r.org # o
      BY <1>1 DEF NothingLeft
    <3>4. \A r \in rows' : r.org # o
      BY <2>3, <2>5, <3>1, <3>3
    <3> QED
      BY <3>2, <3>3, <3>4
  <2> QED
    BY <2>7, <2>8, <2>9
<1> QED
  BY <1>4, <1>5, PlanIsChanged
LEMMA OrgsStandStep == OrgInv /\ OrgType' /\ [Organization!Next]_(Organization!vars) => OrgsStand'
<1> SUFFICES ASSUME OrgInv, OrgType', [Organization!Next]_(Organization!vars) PROVE OrgsStand'
  OBVIOUS
<1>0. OrgType /\ OrgsStand
  BY DEF OrgInv
<1>1. ASSUME NEW p \in Plan \cup {None}, Organization!CreateOrg(p) PROVE OrgsStand'
  <2> DEFINE o == Organization!Next1(orgs)
             n == Organization!Row(Organization!NextRow, o, p, None)
  <2>1. /\ o \in OrgId /\ orgs' = orgs \cup {o} /\ o \notin orgs
        /\ UNCHANGED <<member, server, req, late>>
    BY <1>0, <1>1, OrgConstants, OrgIsNew DEF Organization!CreateOrg
  <2>2. p = None => UNCHANGED <<rows, quota>>
    BY <1>1 DEF Organization!CreateOrg
  <2>3. p # None => rows' = rows \cup {n} /\ quota' = [quota EXCEPT ![o] = p]
    BY <1>1 DEF Organization!CreateOrg
  <2>4. n.org = o /\ n.plan = p /\ n.active = TRUE
    BY DEF Organization!Row
  <2> HIDE DEF n, o
  <2>5. rows \subseteq rows' /\ \A i \in OrgId \ {o} : quota'[i] = quota[i] /\ \A r \in rows' : r.org = i => r \in rows
    BY <1>0, <2>1, <2>2, <2>3, <2>4 DEF OrgType
  <2>6. CASE late
    BY <2>1, <2>6 DEF OrgsStand
  <2>7. CASE ~late
    <3>1. RequestsStand /\ Subscribed /\ NothingLeft
      BY <1>0, <2>7 DEF OrgsStand
    <3>2. RequestsStand'
      BY <2>1, <2>5, <3>1 DEF RequestsStand, RequestStands
    <3>3. Subscribed'
      <4> SUFFICES ASSUME NEW i \in OrgId, quota'[i] \in Plan
                   PROVE  \E r \in rows' : r.org = i /\ r.active /\ r.plan = quota'[i]
        BY DEF Subscribed
      <4>1. CASE i # o
        BY <2>5, <3>1, <4>1 DEF Subscribed
      <4>2. CASE i = o /\ p = None
        BY <2>1, <2>2, <3>1, <4>2 DEF Subscribed
      <4>3. CASE i = o /\ p # None
        <5>1. quota'[i] = p /\ n \in rows'
          BY <1>0, <2>1, <2>3, <4>3 DEF OrgType
        <5> QED
          BY <2>4, <4>3, <5>1
      <4> QED
        BY <4>1, <4>2, <4>3
    <3>4. NothingLeft'
      BY <2>1, <2>5, <3>1 DEF NothingLeft
    <3> QED
      BY <3>2, <3>3, <3>4 DEF OrgsStand
  <2> QED
    BY <2>6, <2>7
<1>2. ASSUME NEW o \in OrgId, Organization!DeleteOrg(o) PROVE OrgsStand'
  <2>1. /\ rows' = {r \in rows : r.org # o} /\ orgs' = orgs \ {o} /\ quota' = [quota EXCEPT ![o] = None]
        /\ late' = (late \/ \E w \in Worker : req[w] # None /\ req[w].org = o) /\ UNCHANGED req
    BY <1>2 DEF Organization!DeleteOrg, Organization!Kept
  <2>2. /\ member' = [x \in User |-> IF member[x] = o THEN 0 ELSE member[x]]
        /\ server' = [x \in Server |-> IF server[x] = o THEN 0 ELSE server[x]]
    BY <1>0, <1>2 DEF Organization!DeleteOrg, Organization!Orphaned, OrgType
  <2>3. CASE late'
    BY <2>3 DEF OrgsStand
  <2>4. CASE ~late'
    <3>0. ~late /\ \A w \in Worker : req[w] # None => req[w].org # o
      BY <2>1, <2>4
    <3>1. RequestsStand /\ Subscribed /\ NothingLeft
      BY <1>0, <3>0 DEF OrgsStand
    <3>2. RequestsStand'
      <4> SUFFICES ASSUME NEW w \in Worker, req[w] # None PROVE RequestStands(req[w])'
        BY <2>1 DEF RequestsStand
      <4>1. RequestStands(req[w]) /\ req[w].org # o /\ req'[w] = req[w]
        BY <2>1, <3>0, <3>1 DEF RequestsStand
      <4> QED
        BY <2>1, <4>1 DEF RequestStands
    <3>3. Subscribed'
      <4> SUFFICES ASSUME NEW i \in OrgId, quota'[i] \in Plan
                   PROVE  \E r \in rows' : r.org = i /\ r.active /\ r.plan = quota'[i]
        BY DEF Subscribed
      <4>1. i # o
        BY <1>0, <2>1, OrgConstants DEF OrgType
      <4>2. quota'[i] = quota[i]
        BY <1>0, <2>1, <4>1 DEF OrgType
      <4> QED
        BY <2>1, <3>1, <4>1, <4>2 DEF Subscribed
    <3>4. NothingLeft'
      <4> SUFFICES ASSUME NEW i \in OrgId \ orgs'
                   PROVE  /\ quota'[i] = None
                          /\ \A u \in User : member'[u] # i
                          /\ \A s \in Server : server'[s] # i
                          /\ \A r \in rows' : r.org # i
        BY DEF NothingLeft
      <4>1. i # 0 /\ (i = o \/ i \in OrgId \ orgs)
        BY <2>1, OrgConstants DEF OrgId
      <4>2. CASE i = o
        BY <1>0, <2>1, <2>2, <4>1, <4>2 DEF OrgType
      <4>3. CASE i # o
        BY <1>0, <2>1, <2>2, <3>1, <4>1, <4>3 DEF OrgType, NothingLeft
      <4> QED
        BY <4>2, <4>3
    <3> QED
      BY <3>2, <3>3, <3>4 DEF OrgsStand
  <2> QED
    BY <2>3, <2>4
<1>3. ASSUME NEW o \in OrgId, Organization!UpdateQuota(o) PROVE OrgsStand'
  <2>1. o \in orgs /\ quota' = [quota EXCEPT ![o] = "custom"] /\ UNCHANGED <<orgs, rows, member, server, req, late>>
    BY <1>3 DEF Organization!UpdateQuota
  <2>2. CASE late
    BY <2>1, <2>2 DEF OrgsStand
  <2>3. CASE ~late
    <3>1. RequestsStand /\ Subscribed /\ NothingLeft
      BY <1>0, <2>3 DEF OrgsStand
    <3>2. \A i \in OrgId : i # o => quota'[i] = quota[i]
      BY <1>0, <2>1 DEF OrgType
    <3>3. quota'[o] \notin Plan
      BY <1>0, <2>1, OrgConstants DEF OrgType
    <3>4. RequestsStand' /\ Subscribed'
      BY <2>1, <3>1, <3>2, <3>3 DEF RequestsStand, RequestStands, Subscribed
    <3>5. NothingLeft'
      BY <2>1, <3>1, <3>2 DEF NothingLeft
    <3> QED
      BY <3>4, <3>5 DEF OrgsStand
  <2> QED
    BY <2>2, <2>3
<1>4. ASSUME NEW w \in Worker, NEW q, RequestIs(q), ~late => RequestStands(q), Organization!Begin(w, q)
      PROVE  OrgsStand'
  <2>1. req' = [req EXCEPT ![w] = q] /\ UNCHANGED <<orgs, rows, quota, member, server, late>>
    BY <1>4 DEF Organization!Begin, Organization!tables
  <2>2. req'[w] = q /\ \A x \in Worker \ {w} : req'[x] = req[x]
    BY <1>0, <1>4, <2>1, RequestComes
  <2> QED
    BY <1>0, <1>4, <2>1, <2>2, TablesStand
<1>5. ASSUME NEW w \in Worker, NEW o \in OrgId, NEW p \in Plan, NEW t \in Payment \cup {None},
             Organization!BeginPlan(w, o, p, t)
      PROVE  OrgsStand'
  <2> DEFINE q == [kind |-> "plan", org |-> o, plan |-> p, payment |-> t, old |-> None]
  <2>1. RequestIs(q) /\ q.org = o /\ q.kind = "plan"
    BY PlanIsAsked
  <2>2. o \in orgs /\ Organization!Begin(w, q)
    BY <1>5 DEF Organization!BeginPlan
  <2> HIDE DEF q
  <2>3. RequestStands(q)
    BY <2>1, <2>2 DEF RequestStands
  <2> QED
    BY <1>4, <2>1, <2>2, <2>3
<1>6. ASSUME NEW w \in Worker, NEW o \in OrgId, NEW u \in User, NEW v \in {o, 0}, o \in orgs \/ late,
             Organization!Begin(w, [kind |-> "member", org |-> o, user |-> u, to |-> v])
      PROVE  OrgsStand'
  <2> DEFINE q == [kind |-> "member", org |-> o, user |-> u, to |-> v]
  <2>1. RequestIs(q) /\ q.org = o /\ q.kind = "member"
    BY MemberIsAsked
  <2>2. Organization!Begin(w, q)
    BY <1>6
  <2> HIDE DEF q
  <2>3. ~late => RequestStands(q)
    BY <1>6, <2>1 DEF RequestStands
  <2> QED
    BY <1>4, <2>1, <2>2, <2>3
<1>7. ASSUME NEW w \in Worker, NEW o \in OrgId, NEW u \in User, Organization!BeginRemoval(w, o, u)
      PROVE  OrgsStand'
  <2>1. member[u] = o
    BY <1>7 DEF Organization!BeginRemoval
  <2>2. o \in orgs \/ late
    BY <1>0, <2>1 DEF OrgsStand, NothingLeft
  <2> QED
    BY <1>6, <1>7, <2>2 DEF Organization!BeginRemoval
<1>8. ASSUME NEW w \in Worker, NEW o \in OrgId \cup {0}, Organization!BeginServer(w, o) PROVE OrgsStand'
  <2> DEFINE q == [kind |-> "server", org |-> o]
  <2>1. RequestIs(q) /\ q.org = o /\ q.kind = "server"
    BY ServerIsAsked
  <2>2. o \in orgs \cup {0} /\ Organization!Begin(w, q)
    BY <1>8 DEF Organization!BeginServer
  <2> HIDE DEF q
  <2>3. RequestStands(q)
    BY <2>1, <2>2 DEF RequestStands
  <2> QED
    BY <1>4, <2>1, <2>2, <2>3
<1>9. ASSUME NEW w \in Worker, Organization!ReadOld(w) PROVE OrgsStand'
  <2>1. UNCHANGED <<orgs, rows, quota, member, server, late>>
    BY <1>9 DEF Organization!ReadOld, Organization!tables
  <2>2. PICK q \in PlanRequest :
          /\ req' = [req EXCEPT ![w] = q] /\ q.kind = "commit" /\ q.org = req[w].org /\ req[w] # None
          /\ q.old # None => \E r \in rows : r.id = q.old /\ r.org = q.org
    BY <1>0, <1>9, OldIsRead
  <2>3. RequestIs(q)
    BY <2>2 DEF RequestIs, AboutPlan, PlanRequest
  <2>4. req'[w] = q /\ \A x \in Worker \ {w} : req'[x] = req[x]
    BY <1>0, <2>2, <2>3, RequestComes
  <2>5. ~late => RequestStands(q)
    BY <1>0, <2>2 DEF OrgsStand, RequestsStand, RequestStands
  <2> QED
    BY <1>0, <2>1, <2>4, <2>5, TablesStand
<1>10. ASSUME NEW w \in Worker, Organization!ChangePlan(w) PROVE OrgsStand'
  <2>1. late' = late
    BY <1>0, <1>10, PlanIsChanged
  <2>2. CASE late
    BY <2>1, <2>2 DEF OrgsStand
  <2>3. CASE ~late
    BY <1>0, <1>10, <2>3, PlanChangeStands DEF OrgsStand
  <2> QED
    BY <2>2, <2>3
\* Who moves to an organization, moves to one that is there.
<1>11. ASSUME NEW w \in Worker, orgs' = orgs, rows' = rows, quota' = quota, late' = late,
              req' = [req EXCEPT ![w] = None] \/ req' = req,
              ~late => /\ \A u \in User : member'[u] \in {member[u], 0, None} \cup orgs
                       /\ \A s \in Server : server'[s] \in {server[s], 0, None} \cup orgs
       PROVE  OrgsStand'
  <2>1. CASE late
    BY <1>11, <2>1 DEF OrgsStand
  <2>2. CASE ~late
    <3>1. RequestsStand /\ Subscribed /\ NothingLeft
      BY <1>0, <2>2 DEF OrgsStand
    <3>2. RequestsStand'
      <4>1. CASE req' = req
        BY <1>11, <3>1, <4>1 DEF RequestsStand, RequestStands
      <4> QED
        BY <1>0, <1>11, <3>1, <4>1, RequestsStay
    <3>3. Subscribed'
      BY <1>11, <3>1 DEF Subscribed
    <3>4. NothingLeft'
      <4> SUFFICES ASSUME NEW o \in OrgId \ orgs
                   PROVE  /\ quota'[o] = None
                          /\ \A u \in User : member'[u] # o
                          /\ \A s \in Server : server'[s] # o
                          /\ \A r \in rows' : r.org # o
        BY <1>11 DEF NothingLeft
      <4>1. o # 0 /\ o # None
        BY OrgConstants DEF OrgId
      <4>2. /\ quota[o] = None /\ \A r \in rows : r.org # o
            /\ \A u \in User : member[u] # o
            /\ \A s \in Server : server[s] # o
        BY <3>1 DEF NothingLeft
      <4>3. ASSUME NEW u \in User PROVE member'[u] # o
        BY <1>11, <2>2, <4>1, <4>2
      <4>4. ASSUME NEW s \in Server PROVE server'[s] # o
        BY <1>11, <2>2, <4>1, <4>2
      <4> QED
        BY <1>11, <4>2, <4>3, <4>4
    <3> QED
      BY <3>2, <3>3, <3>4 DEF OrgsStand
  <2> QED
    BY <2>1, <2>2
<1>12. ASSUME NEW w \in Worker, Organization!SetMember(w) PROVE OrgsStand'
  <2>1. /\ req[w] # None /\ req[w].kind = "member" /\ req' = [req EXCEPT ![w] = None]
        /\ UNCHANGED <<orgs, rows, quota, server, late>>
        /\ member' = member \/ member' = [member EXCEPT ![req[w].user] = req[w].to]
    BY <1>12 DEF Organization!SetMember, Organization!Asks, Organization!End
  <2>2. req[w].to \in {req[w].org, 0}
    BY <1>0, <2>1 DEF OrgType, RequestIs
  <2>3. ~late => req[w].to \in orgs \cup {0}
    BY <1>0, <2>1, <2>2 DEF OrgsStand, RequestsStand, RequestStands
  <2>4. \A u \in User : member'[u] \in {member[u], req[w].to}
    BY <1>0, <2>1 DEF OrgType
  <2> QED
    BY <1>11, <2>1, <2>3, <2>4
<1>13. ASSUME NEW u \in User, Organization!CreateToken(u) PROVE OrgsStand'
  BY <1>11, <1>13, OrgConstants DEF Organization!CreateToken
<1>14. ASSUME NEW u \in User, NEW o \in OrgId \cup {0}, Organization!CreateUser(u, o) PROVE OrgsStand'
  <2>1. /\ member' = [member EXCEPT ![u] = o] /\ o \in orgs \cup {0}
        /\ UNCHANGED <<orgs, rows, quota, server, req, late>>
    BY <1>14 DEF Organization!CreateUser
  <2>2. \A v \in User : member'[v] \in {member[v], 0} \cup orgs
    BY <1>0, <2>1 DEF OrgType
  <2> QED
    BY <1>11, <2>1, <2>2, OrgConstants
<1>15. ASSUME NEW w \in Worker, Organization!AddServer(w) PROVE OrgsStand'
  <2>1. /\ req[w] # None /\ req' = [req EXCEPT ![w] = None]
        /\ UNCHANGED <<orgs, rows, quota, member, late>>
    BY <1>15 DEF Organization!AddServer, Organization!Asks, Organization!End
  <2>2. PICK s \in Server : server' = [server EXCEPT ![s] = req[w].org]
    BY <1>15 DEF Organization!AddServer
  <2>3. ~late => req[w].org \in orgs \cup {0}
    BY <1>0, <2>1 DEF OrgsStand, RequestsStand, RequestStands
  <2>4. \A x \in Server : server'[x] \in {server[x], req[w].org}
    BY <1>0, <2>2 DEF OrgType
  <2> QED
    BY <1>11, <2>1, <2>3, <2>4
<1>16. ASSUME NEW s \in Server, Organization!DeleteServer(s) PROVE OrgsStand'
  <2>1. /\ server' = [server EXCEPT ![s] = None]
        /\ UNCHANGED <<orgs, rows, quota, member, req, late>>
    BY <1>16 DEF Organization!DeleteServer
  <2>2. \A x \in Server : server'[x] \in {server[x], None}
    BY <1>0, <2>1 DEF OrgType
  <2> QED
    BY <1>11, <2>1, <2>2, OrgConstants
<1>17. CASE UNCHANGED Organization!vars
  BY <1>11, <1>17, OrgConstants DEF Organization!vars
<1>18. ASSUME NEW w \in Worker, NEW o \in OrgId, NEW u \in User, Organization!BeginMember(w, o, u)
       PROVE  OrgsStand'
  BY <1>6, <1>18 DEF Organization!BeginMember
<1> QED
  BY <1>1, <1>2, <1>3, <1>5, <1>7, <1>8, <1>9, <1>10, <1>12, <1>13, <1>14, <1>15, <1>16, <1>17, <1>18,
     OrgConstants
     DEF Organization!Next
-----------------------------------------------------------------------------
\* What the workers do to the counts: the request of one worker is another now, or none.
LEMMA WorkersCounted ==
  ASSUME NEW S, S \subseteq Worker
  PROVE  /\ IsFiniteSet(S) /\ Cardinality(S) \in Nat /\ Cardinality(S) <= Cardinality(Worker)
         /\ \A T \in SUBSET S : Cardinality(T) \in Nat /\ Cardinality(T) <= Cardinality(S)
         /\ \A w \in S : \A T \in SUBSET (S \ {w}) : Cardinality(T) + 1 <= Cardinality(S)
<1>1. IsFiniteSet(S) /\ Cardinality(S) \in Nat /\ Cardinality(S) <= Cardinality(Worker)
  BY OrgConstants, FS_Subset, FS_CardinalityType
<1>2. ASSUME NEW T \in SUBSET S PROVE Cardinality(T) \in Nat /\ Cardinality(T) <= Cardinality(S)
  BY <1>1, FS_Subset, FS_CardinalityType
<1>3. ASSUME NEW w \in S, NEW T \in SUBSET (S \ {w}) PROVE Cardinality(T) + 1 <= Cardinality(S)
  <2>1. IsFiniteSet(S \ {w}) /\ Cardinality(S \ {w}) = Cardinality(S) - 1
    BY <1>1, FS_RemoveElement
  <2>2. Cardinality(T) \in Nat /\ Cardinality(T) <= Cardinality(S \ {w})
    BY <2>1, FS_Subset, FS_CardinalityType
  <2> QED
    BY <1>1, <2>1, <2>2
<1> QED
  BY <1>1, <1>2, <1>3

\* No subscription and no request comes to a payment that has not been counted.
PaymentsCounted ==
  \A t \in Payment :
    \/ Buying(t)' \subseteq Buying(t) /\ Cardinality(Paid(rows, t))' <= Cardinality(Paid(rows, t))
    \/ \E w \in Buying(t) : /\ Buying(t)' \subseteq Buying(t) \ {w}
                            /\ Cardinality(Paid(rows, t))' <= Cardinality(Paid(rows, t)) + 1
    \/ Buying(t)' \subseteq Worker /\ Cardinality(Paid(rows, t))' = 0

LEMMA PaymentsKept == OrgType /\ OrgType' /\ PaymentsLast /\ PaymentsCounted => PaymentsLast'
<1> SUFFICES ASSUME OrgType, OrgType', PaymentsLast, PaymentsCounted, NEW t \in Payment
             PROVE  Cardinality(Paid(rows, t))' + Cardinality(Buying(t))' <= Cardinality(Worker)
  BY DEF PaymentsLast
<1> DEFINE p == Cardinality(Paid(rows, t))
           pp == Cardinality(Paid(rows, t))'
           b == Cardinality(Buying(t))
           bb == Cardinality(Buying(t)')
<1>1. p \in Nat /\ p + b <= Cardinality(Worker)
  BY RowPaid DEF OrgType, PaymentsLast
<1>2. pp \in Nat
  <2>1. IsFiniteSet(rows')
    BY DEF OrgType
  <2>2. IsFiniteSet({r \in rows' : r.payment = t})
    BY <2>1, FS_Subset
  <2> QED
    BY <2>2, FS_CardinalityType DEF Paid
<1>3. Buying(t) \subseteq Worker /\ Buying(t)' \subseteq Worker
  BY DEF Buying
<1>4. b \in Nat /\ bb \in Nat /\ bb <= Cardinality(Worker) /\ Cardinality(Worker) \in Nat
  BY <1>3, WorkersCounted, OrgConstants
<1>5. CASE Buying(t)' \subseteq Buying(t) /\ pp <= p
  <2>1. bb <= b
    BY <1>3, <1>5, WorkersCounted
  <2> QED
    BY <1>1, <1>2, <1>4, <1>5, <2>1
<1>6. ASSUME NEW w \in Buying(t), Buying(t)' \subseteq Buying(t) \ {w}, pp <= p + 1
      PROVE  pp + bb <= Cardinality(Worker)
  <2>1. bb + 1 <= b
    BY <1>3, <1>6, WorkersCounted
  <2> QED
    BY <1>1, <1>2, <1>4, <1>6, <2>1
<1>7. CASE pp = 0
  BY <1>4, <1>7
<1> QED
  BY <1>5, <1>6, <1>7 DEF PaymentsCounted

\* Nor does a server come that has not been counted.
ServersCounted ==
  \A o \in OrgId :
    \/ Adding(o)' \subseteq Adding(o) /\ Lodged(o)' \subseteq Lodged(o)
    \/ \E w \in Adding(o), s \in Server : Adding(o)' \subseteq Adding(o) \ {w}
                                          /\ Lodged(o)' \subseteq Lodged(o) \cup {s}
    \/ Lodged(o)' = Lodged(o) /\ Cardinality(Lodged(o)) < Limit

LEMMA RoomKept == RoomLasts /\ ServersCounted => RoomLasts'
<1> SUFFICES ASSUME RoomLasts, ServersCounted, NEW o \in OrgId
             PROVE  /\ IsFiniteSet(Lodged(o)')
                    /\ Cardinality(Lodged(o)') + Cardinality(Adding(o)') <= Limit + Cardinality(Worker) - 1
  BY DEF RoomLasts
<1> DEFINE l == Cardinality(Lodged(o))
           ll == Cardinality(Lodged(o)')
           a == Cardinality(Adding(o))
           aa == Cardinality(Adding(o)')
<1>1. IsFiniteSet(Lodged(o)) /\ l + a <= Limit + Cardinality(Worker) - 1
  BY DEF RoomLasts
<1>2. l \in Nat
  BY <1>1, FS_CardinalityType
<1>3. Adding(o) \subseteq Worker /\ Adding(o)' \subseteq Worker
  BY DEF Adding
<1>4. a \in Nat /\ aa \in Nat /\ aa <= Cardinality(Worker) /\ Cardinality(Worker) \in Nat /\ Limit \in Nat
  BY <1>3, WorkersCounted, OrgConstants
<1>5. CASE Adding(o)' \subseteq Adding(o) /\ Lodged(o)' \subseteq Lodged(o)
  <2>1. aa <= a
    BY <1>3, <1>5, WorkersCounted
  <2>2. IsFiniteSet(Lodged(o)') /\ ll <= l /\ ll \in Nat
    BY <1>1, <1>5, FS_Subset, FS_CardinalityType
  <2> QED
    BY <1>1, <1>2, <1>4, <2>1, <2>2
<1>6. ASSUME NEW w \in Adding(o), NEW s \in Server, Adding(o)' \subseteq Adding(o) \ {w},
             Lodged(o)' \subseteq Lodged(o) \cup {s}
      PROVE  IsFiniteSet(Lodged(o)') /\ ll + aa <= Limit + Cardinality(Worker) - 1
  <2>1. aa + 1 <= a
    BY <1>3, <1>6, WorkersCounted
  <2>2. IsFiniteSet(Lodged(o) \cup {s}) /\ Cardinality(Lodged(o) \cup {s}) \in {l, l + 1}
    BY <1>1, FS_AddElement
  <2>3. IsFiniteSet(Lodged(o)') /\ ll <= Cardinality(Lodged(o) \cup {s}) /\ ll \in Nat
    BY <1>6, <2>2, FS_Subset, FS_CardinalityType
  <2>4. ll <= l + 1
    BY <1>2, <2>2, <2>3
  <2> QED
    BY <1>1, <1>2, <1>4, <2>1, <2>3, <2>4
<1>7. CASE Lodged(o)' = Lodged(o) /\ l < Limit
  BY <1>1, <1>2, <1>4, <1>7
<1> QED
  BY <1>5, <1>6, <1>7 DEF ServersCounted
UseCounted == PlansArePaid' /\ PaymentsCounted /\ ServersCounted

\* Requests that end, and rows and servers that go.
LEMMA NothingIsUsed ==
  ASSUME OrgType, OrgType', PlansArePaid, rows' \subseteq rows,
         \A x \in Worker : req'[x] \in {req[x], None},
         \A o \in OrgId : Lodged(o)' \subseteq Lodged(o)
  PROVE  UseCounted
<1>1. PlansArePaid'
  BY DEF PlansArePaid, Bought
<1>2. PaymentsCounted
  <2> SUFFICES ASSUME NEW t \in Payment
               PROVE  Buying(t)' \subseteq Buying(t) /\ Cardinality(Paid(rows, t))' <= Cardinality(Paid(rows, t))
    BY DEF PaymentsCounted
  <2>1. Buying(t)' \subseteq Buying(t)
    BY DEF Buying
  <2>2. Paid(rows', t) \subseteq Paid(rows, t)
    BY DEF Paid
  <2>3. IsFiniteSet(Paid(rows, t))
    BY FS_Subset DEF OrgType, Paid
  <2>4. Cardinality(Paid(rows', t)) <= Cardinality(Paid(rows, t))
    BY <2>2, <2>3, FS_Subset
  <2> QED
    BY <2>1, <2>4 DEF Paid
<1>3. ServersCounted
  <2> SUFFICES ASSUME NEW o \in OrgId PROVE Adding(o)' \subseteq Adding(o) /\ Lodged(o)' \subseteq Lodged(o)
    BY DEF ServersCounted
  <2> QED
    BY DEF Adding
<1> QED
  BY <1>1, <1>2, <1>3 DEF UseCounted

\* A request that comes or reads.
LEMMA RequestIsCounted ==
  ASSUME OrgType, OrgType', PlansArePaid, UNCHANGED <<rows, server>>,
         NEW w \in Worker, \A x \in Worker \ {w} : req'[x] = req[x],
         Chain /\ AboutPlan(req'[w]) => Bought(req'[w]),
         \A t \in Payment : w \in Buying(t)' => w \in Buying(t) \/ Paid(rows, t) = {},
         \A o \in OrgId : w \in Adding(o)' => w \in Adding(o) \/ Cardinality(Lodged(o)) < Limit
  PROVE  UseCounted
<1>1. PlansArePaid'
  <2> SUFFICES ASSUME Chain PROVE /\ \A r \in rows : Bought(r)
                                  /\ \A x \in Worker : req'[x] # None /\ AboutPlan(req'[x]) => Bought(req'[x])
    BY DEF PlansArePaid, Bought, AboutPlan
  <2> QED
    BY DEF PlansArePaid
<1>2. PaymentsCounted
  <2> SUFFICES ASSUME NEW t \in Payment
               PROVE  \/ /\ Buying(t)' \subseteq Buying(t)
                         /\ Cardinality(Paid(rows, t))' <= Cardinality(Paid(rows, t))
                      \/ Buying(t)' \subseteq Worker /\ Cardinality(Paid(rows, t))' = 0
    BY DEF PaymentsCounted
  <2>1. Buying(t)' \subseteq Buying(t) \cup {w} /\ Buying(t)' \subseteq Worker
    BY DEF Buying
  <2>2. Paid(rows, t)' = Paid(rows, t)
    BY DEF Paid
  <2>3. Cardinality(Paid(rows, t)) \in Nat
    BY RowPaid DEF OrgType
  <2>4. Cardinality({}) = 0
    BY FS_EmptySet
  <2>5. CASE Buying(t)' \subseteq Buying(t)
    BY <2>2, <2>3, <2>5
  <2>6. CASE w \in Buying(t)' /\ w \notin Buying(t)
    BY <2>1, <2>2, <2>4, <2>6
  <2> QED
    BY <2>1, <2>5, <2>6
<1>3. ServersCounted
  <2> SUFFICES ASSUME NEW o \in OrgId
               PROVE  \/ Adding(o)' \subseteq Adding(o) /\ Lodged(o)' \subseteq Lodged(o)
                      \/ Lodged(o)' = Lodged(o) /\ Cardinality(Lodged(o)) < Limit
    BY DEF ServersCounted
  <2>1. Adding(o)' \subseteq Adding(o) \cup {w}
    BY DEF Adding
  <2>2. Lodged(o)' = Lodged(o)
    BY DEF Lodged
  <2> QED
    BY <2>1, <2>2
<1> QED
  BY <1>1, <1>2, <1>3 DEF UseCounted

LEMMA ChangeIsCounted ==
  ASSUME OrgType, OrgType', PlansArePaid, NEW w \in Worker, Organization!ChangePlan(w)
  PROVE  UseCounted
<1>1. /\ req[w] # None /\ AboutPlan(req[w]) /\ req[w] \in PlanRequest
      /\ req' = [req EXCEPT ![w] = None] /\ server' = server
  BY PlanIsChanged
<1>2. req'[w] = None /\ \A x \in Worker \ {w} : req'[x] = req[x]
  BY <1>1, RequestEnds
<1>3. CASE UNCHANGED <<rows, quota>>
  <2>1. \A o \in OrgId : Lodged(o)' = Lodged(o)
    BY <1>1 DEF Lodged
  <2> QED
    BY <1>2, <1>3, <2>1, NothingIsUsed
<1>4. ASSUME NEW n \in SubRow, n.plan = req[w].plan, n.payment = req[w].payment,
             rows' = Cancelled(req[w].old) \cup {n}
      PROVE  UseCounted
  <2> DEFINE R == Cancelled(req[w].old)
  <2>1. IsFiniteSet(R) /\ \A t : Cardinality(Paid(R, t)) <= Cardinality(Paid(rows, t))
    BY RowCancelled
  <2>2. \A y \in R : \E x \in rows : y.plan = x.plan /\ y.payment = x.payment
    BY RowCancelled
  <2>3. rows' = R \cup {n}
    BY <1>4
  <2> HIDE DEF R
  <2>4. PlansArePaid'
    <3> SUFFICES ASSUME Chain PROVE /\ \A r \in rows' : Bought(r)
                                    /\ \A x \in Worker : req'[x] # None /\ AboutPlan(req'[x]) => Bought(req'[x])
      BY DEF PlansArePaid, Bought, AboutPlan
    <3>1. (\A r \in rows : Bought(r)) /\ \A x \in Worker : req[x] # None /\ AboutPlan(req[x]) => Bought(req[x])
      BY DEF PlansArePaid
    <3>2. \A r \in R : Bought(r)
      BY <2>2, <3>1 DEF Bought
    <3>3. Bought(n)
      BY <1>1, <1>4, <3>1 DEF Bought
    <3>4. \A x \in Worker : req'[x] # None /\ AboutPlan(req'[x]) => Bought(req'[x])
      BY <1>2, <3>1
    <3> QED
      BY <2>3, <3>2, <3>3, <3>4
  <2>5. PaymentsCounted
    <3> SUFFICES ASSUME NEW t \in Payment
                 PROVE  \/ /\ Buying(t)' \subseteq Buying(t)
                           /\ Cardinality(Paid(rows, t))' <= Cardinality(Paid(rows, t))
                        \/ /\ w \in Buying(t) /\ Buying(t)' \subseteq Buying(t) \ {w}
                           /\ Cardinality(Paid(rows, t))' <= Cardinality(Paid(rows, t)) + 1
      BY DEF PaymentsCounted
    <3>1. Buying(t)' \subseteq Buying(t) \ {w}
      BY <1>2 DEF Buying
    <3>2. Cardinality(Paid(rows, t))' = Cardinality(Paid(R \cup {n}, t))
      BY <2>3 DEF Paid
    <3>3. Cardinality(Paid(rows, t)) \in Nat /\ Cardinality(Paid(R, t)) \in Nat
          /\ Cardinality(Paid(R, t)) <= Cardinality(Paid(rows, t))
      BY <2>1, RowPaid DEF OrgType
    <3>4. CASE n.payment = t
      <4>1. w \in Buying(t)
        BY <1>1, <1>4, <3>4 DEF Buying
      <4>2. Cardinality(Paid(R \cup {n}, t)) <= Cardinality(Paid(R, t)) + 1
        BY <2>1, <3>4, RowPaid
      <4>3. Cardinality(Paid(R \cup {n}, t)) \in Nat
        BY <2>1, FS_AddElement, RowPaid
      <4>4. Cardinality(Paid(R \cup {n}, t)) <= Cardinality(Paid(rows, t)) + 1
        BY <3>3, <4>2, <4>3
      <4> QED
        BY <3>1, <3>2, <4>1, <4>4
    <3>5. CASE n.payment # t
      <4>1. Paid(R \cup {n}, t) = Paid(R, t)
        BY <2>1, <3>5, RowPaid
      <4> QED
        BY <3>1, <3>2, <3>3, <4>1
    <3> QED
      BY <3>4, <3>5
  <2>6. ServersCounted
    <3>1. \A o \in OrgId : Adding(o)' \subseteq Adding(o) /\ Lodged(o)' \subseteq Lodged(o)
      BY <1>1, <1>2 DEF Adding, Lodged
    <3> QED
      BY <3>1 DEF ServersCounted
  <2> QED
    BY <2>4, <2>5, <2>6 DEF UseCounted
<1> QED
  BY <1>3, <1>4, PlanIsChanged
LEMMA OrgUseStep == OrgInv /\ OrgType' /\ [Organization!Next]_(Organization!vars) => UseCounted
<1> SUFFICES ASSUME OrgInv, OrgType', [Organization!Next]_(Organization!vars) PROVE UseCounted
  OBVIOUS
<1>0. OrgType /\ PlansArePaid
  BY DEF OrgInv
<1>1. ASSUME NEW p \in Plan \cup {None}, Organization!CreateOrg(p) PROVE UseCounted
  <2> DEFINE n == Organization!Row(Organization!NextRow, Organization!Next1(orgs), p, None)
  <2>1. UNCHANGED <<server, req>> /\ rows' \in {rows, rows \cup {n}}
    BY <1>1 DEF Organization!CreateOrg
  <2>2. n.payment = None
    BY DEF Organization!Row
  <2> HIDE DEF n
  <2>3. PlansArePaid'
    BY <1>0, <2>1, <2>2 DEF PlansArePaid, Bought, AboutPlan
  <2>4. PaymentsCounted
    <3> SUFFICES ASSUME NEW t \in Payment
                 PROVE  Buying(t)' \subseteq Buying(t) /\ Cardinality(Paid(rows, t))' <= Cardinality(Paid(rows, t))
      BY DEF PaymentsCounted
    <3>1. Paid(rows, t)' = Paid(rows, t)
      BY <2>1, <2>2, OrgConstants DEF Paid
    <3>2. Cardinality(Paid(rows, t)) \in Nat
      BY <1>0, RowPaid DEF OrgType
    <3> QED
      BY <2>1, <3>1, <3>2 DEF Buying
  <2>5. ServersCounted
    BY <2>1 DEF ServersCounted, Adding, Lodged
  <2> QED
    BY <2>3, <2>4, <2>5 DEF UseCounted
<1>2. ASSUME rows' \subseteq rows, \A x \in Worker : req'[x] \in {req[x], None},
             \A s \in Server : server'[s] \in {server[s], 0, None}
      PROVE  UseCounted
  <2>1. \A o \in OrgId : o # 0 /\ o # None
    BY OrgConstants DEF OrgId
  <2>2. \A o \in OrgId : Lodged(o)' \subseteq Lodged(o)
    BY <1>2, <2>1 DEF Lodged
  <2> QED
    BY <1>0, <1>2, <2>2, NothingIsUsed
<1>3. ASSUME NEW o \in OrgId, Organization!DeleteOrg(o) PROVE UseCounted
  <2>1. rows' \subseteq rows /\ req' = req
    BY <1>3 DEF Organization!DeleteOrg, Organization!Kept
  <2>2. server' = [x \in Server |-> IF server[x] = o THEN 0 ELSE server[x]]
    BY <1>0, <1>3 DEF Organization!DeleteOrg, Organization!Orphaned, OrgType
  <2> QED
    BY <1>2, <2>1, <2>2
<1>4. ASSUME NEW o \in OrgId, Organization!UpdateQuota(o) PROVE UseCounted
  BY <1>2, <1>4 DEF Organization!UpdateQuota
<1>5. ASSUME NEW w \in Worker, NEW o \in OrgId, NEW p \in Plan, NEW t \in Payment \cup {None},
             Organization!BeginPlan(w, o, p, t)
      PROVE  UseCounted
  <2> DEFINE q == [kind |-> "plan", org |-> o, plan |-> p, payment |-> t, old |-> None]
  <2>1. RequestIs(q) /\ AboutPlan(q) /\ q.kind = "plan" /\ q.plan = p /\ q.payment = t
    BY PlanIsAsked
  <2>2. /\ t # None => (Chain => p \in PaysForOne[t]) /\ \A r \in rows : r.payment # t
        /\ req' = [req EXCEPT ![w] = q] /\ UNCHANGED <<rows, server>>
    BY <1>5 DEF Organization!BeginPlan, Organization!Begin, Organization!tables, Organization!Verified,
                Organization!Unspent
  <2> HIDE DEF q
  <2>3. req'[w] = q /\ \A x \in Worker \ {w} : req'[x] = req[x]
    BY <1>0, <2>1, <2>2, RequestComes
  <2>4. Chain => Bought(q)
    BY <2>1, <2>2 DEF Bought
  <2>5. ASSUME NEW d \in Payment, w \in Buying(d)' PROVE Paid(rows, d) = {}
    <3>1. d = t /\ t # None
      BY <2>1, <2>3, <2>5, OrgConstants DEF Buying
    <3> QED
      BY <2>2, <3>1 DEF Paid
  <2>6. \A d \in OrgId : w \notin Adding(d)'
    BY <2>1, <2>3 DEF Adding
  <2> QED
    BY <1>0, <2>2, <2>3, <2>4, <2>5, <2>6, RequestIsCounted
<1>6. ASSUME NEW w \in Worker, NEW o \in OrgId, NEW u \in User, NEW v \in {o, 0},
             Organization!Begin(w, [kind |-> "member", org |-> o, user |-> u, to |-> v])
      PROVE  UseCounted
  <2> DEFINE q == [kind |-> "member", org |-> o, user |-> u, to |-> v]
  <2>1. RequestIs(q) /\ ~AboutPlan(q) /\ q.kind = "member"
    BY MemberIsAsked
  <2>2. req' = [req EXCEPT ![w] = q] /\ UNCHANGED <<rows, server>>
    BY <1>6 DEF Organization!Begin, Organization!tables
  <2> HIDE DEF q
  <2>3. req'[w] = q /\ \A x \in Worker \ {w} : req'[x] = req[x]
    BY <1>0, <2>1, <2>2, RequestComes
  <2>4. (\A t \in Payment : w \notin Buying(t)') /\ \A d \in OrgId : w \notin Adding(d)'
    BY <2>1, <2>3 DEF Buying, Adding, AboutPlan
  <2>5. ~AboutPlan(req'[w])
    BY <2>1, <2>3
  <2> QED
    BY <1>0, <2>2, <2>3, <2>4, <2>5, RequestIsCounted
<1>7. ASSUME NEW w \in Worker, NEW o \in OrgId, NEW u \in User,
             Organization!BeginMember(w, o, u) \/ Organization!BeginRemoval(w, o, u)
      PROVE  UseCounted
  BY <1>6, <1>7 DEF Organization!BeginMember, Organization!BeginRemoval
<1>8. ASSUME NEW w \in Worker, NEW o \in OrgId \cup {0}, Organization!BeginServer(w, o) PROVE UseCounted
  <2> DEFINE q == [kind |-> "server", org |-> o]
  <2>1. RequestIs(q) /\ ~AboutPlan(q) /\ q.kind = "server" /\ q.org = o
    BY ServerIsAsked
  <2>2. /\ Organization!Cardinality(Organization!ServersOf(o)) < Limit
        /\ req' = [req EXCEPT ![w] = q] /\ UNCHANGED <<rows, server>>
    BY <1>8 DEF Organization!BeginServer, Organization!Begin, Organization!tables
  <2>3. Cardinality(Lodged(o)) < Limit
    BY <2>2, OrgCardinality DEF Organization!ServersOf, Lodged
  <2> HIDE DEF q
  <2>4. req'[w] = q /\ \A x \in Worker \ {w} : req'[x] = req[x]
    BY <1>0, <2>1, <2>2, RequestComes
  <2>5. \A t \in Payment : w \notin Buying(t)'
    BY <2>1, <2>4 DEF Buying, AboutPlan
  <2>6. \A d \in OrgId : w \in Adding(d)' => d = o
    BY <2>1, <2>4 DEF Adding
  <2>7. ~AboutPlan(req'[w])
    BY <2>1, <2>4
  <2> QED
    BY <1>0, <2>2, <2>3, <2>4, <2>5, <2>6, <2>7, RequestIsCounted
<1>9. ASSUME NEW w \in Worker, Organization!ReadOld(w) PROVE UseCounted
  <2>1. UNCHANGED <<rows, server>>
    BY <1>9 DEF Organization!ReadOld, Organization!tables
  <2>2. PICK q \in PlanRequest :
          /\ req' = [req EXCEPT ![w] = q] /\ req[w] # None /\ AboutPlan(req[w])
          /\ q.kind = "commit" /\ q.org = req[w].org /\ q.plan = req[w].plan /\ q.payment = req[w].payment
    BY <1>0, <1>9, OldIsRead
  <2>3. RequestIs(q)
    BY <2>2 DEF RequestIs, AboutPlan, PlanRequest
  <2>4. req'[w] = q /\ \A x \in Worker \ {w} : req'[x] = req[x]
    BY <1>0, <2>2, <2>3, RequestComes
  <2>5. Chain => Bought(q)
    BY <1>0, <2>2 DEF PlansArePaid, Bought
  <2>6. \A t \in Payment : w \in Buying(t)' => w \in Buying(t)
    BY <2>2, <2>4 DEF Buying
  <2>7. \A o \in OrgId : w \notin Adding(o)'
    BY <2>2, <2>4 DEF Adding
  <2> QED
    BY <1>0, <2>1, <2>4, <2>5, <2>6, <2>7, RequestIsCounted
<1>10. ASSUME NEW w \in Worker, Organization!SetMember(w) PROVE UseCounted
  <2>1. req' = [req EXCEPT ![w] = None] /\ UNCHANGED <<rows, server>>
    BY <1>10 DEF Organization!SetMember, Organization!End
  <2>2. \A x \in Worker : req'[x] \in {req[x], None}
    BY <1>0, <2>1, RequestEnds
  <2> QED
    BY <1>2, <2>1, <2>2
<1>11. ASSUME NEW u \in User, Organization!CreateToken(u) \/ \E o \in OrgId \cup {0} : Organization!CreateUser(u, o)
       PROVE  UseCounted
  BY <1>2, <1>11 DEF Organization!CreateToken, Organization!CreateUser
<1>12. ASSUME NEW w \in Worker, Organization!AddServer(w) PROVE UseCounted
  <2>1. /\ req[w] # None /\ req[w].kind = "server" /\ req' = [req EXCEPT ![w] = None] /\ rows' = rows
    BY <1>12 DEF Organization!AddServer, Organization!Asks, Organization!End
  <2>2. PICK s \in Server : server' = [server EXCEPT ![s] = req[w].org]
    BY <1>12 DEF Organization!AddServer
  <2>3. \A x \in Server : server'[x] = IF x = s THEN req[w].org ELSE server[x]
    BY <1>0, <2>2 DEF OrgType
  <2>4. req'[w] = None /\ \A x \in Worker \ {w} : req'[x] = req[x]
    BY <1>0, <2>1, RequestEnds
  <2>5. PlansArePaid'
    BY <1>0, <2>1, <2>4 DEF PlansArePaid, Bought, AboutPlan
  <2>6. PaymentsCounted
    <3> SUFFICES ASSUME NEW t \in Payment
                 PROVE  Buying(t)' \subseteq Buying(t) /\ Cardinality(Paid(rows, t))' <= Cardinality(Paid(rows, t))
      BY DEF PaymentsCounted
    <3>1. Paid(rows, t)' = Paid(rows, t)
      BY <2>1 DEF Paid
    <3>2. Cardinality(Paid(rows, t)) \in Nat
      BY <1>0, RowPaid DEF OrgType
    <3> QED
      BY <2>4, <3>1, <3>2 DEF Buying
  <2>7. ServersCounted
    <3> SUFFICES ASSUME NEW o \in OrgId
                 PROVE  \/ Adding(o)' \subseteq Adding(o) /\ Lodged(o)' \subseteq Lodged(o)
                        \/ /\ w \in Adding(o) /\ Adding(o)' \subseteq Adding(o) \ {w}
                           /\ Lodged(o)' \subseteq Lodged(o) \cup {s}
      BY DEF ServersCounted
    <3>1. Adding(o)' \subseteq Adding(o) \ {w}
      BY <2>4 DEF Adding
    <3>2. CASE req[w].org = o
      <4>1. w \in Adding(o)
        BY <2>1, <3>2 DEF Adding
      <4>2. Lodged(o)' \subseteq Lodged(o) \cup {s}
        BY <2>3 DEF Lodged
      <4> QED
        BY <3>1, <4>1, <4>2
    <3>3. CASE req[w].org # o
      <4>1. Lodged(o)' \subseteq Lodged(o)
        BY <2>3, <3>3 DEF Lodged
      <4> QED
        BY <3>1, <4>1
    <3> QED
      BY <3>2, <3>3
  <2> QED
    BY <2>5, <2>6, <2>7 DEF UseCounted
<1>13. ASSUME NEW s \in Server, Organization!DeleteServer(s) PROVE UseCounted
  <2>1. server' = [server EXCEPT ![s] = None] /\ UNCHANGED <<rows, req>>
    BY <1>13 DEF Organization!DeleteServer
  <2>2. \A x \in Server : server'[x] \in {server[x], None}
    BY <1>0, <2>1 DEF OrgType
  <2> QED
    BY <1>2, <2>1, <2>2
<1>14. CASE UNCHANGED Organization!vars
  BY <1>2, <1>14 DEF Organization!vars
<1>15. ASSUME NEW w \in Worker, Organization!ChangePlan(w) PROVE UseCounted
  BY <1>0, <1>15, ChangeIsCounted
<1> QED
  BY <1>1, <1>3, <1>4, <1>5, <1>7, <1>8, <1>9, <1>10, <1>11, <1>12, <1>13, <1>14, <1>15, OrgConstants
     DEF Organization!Next

LEMMA OrgStep == OrgInv /\ [Organization!Next]_(Organization!vars) => OrgInv'
<1> SUFFICES ASSUME OrgInv, [Organization!Next]_(Organization!vars) PROVE OrgInv'
  OBVIOUS
<1>1. OrgType'
  BY OrgTypeStep DEF OrgInv
<1>2. OrgsStand' /\ UseCounted
  BY <1>1, OrgsStandStep, OrgUseStep
<1>3. PaymentsLast' /\ RoomLasts'
  BY <1>1, <1>2, PaymentsKept, RoomKept DEF OrgInv, UseCounted
<1> QED
  BY <1>1, <1>2, <1>3 DEF OrgInv, UseCounted

LEMMA OrgHolds == OrgInv => UseIsPaid
<1> SUFFICES ASSUME OrgInv PROVE UseIsPaid
  OBVIOUS
<1>1. Organization!QuotaIsSubscribed
  <2>1. CASE late
    BY <2>1 DEF Organization!QuotaIsSubscribed
  <2>2. CASE ~late
    <3>1. Subscribed /\ NothingLeft
      BY <2>2 DEF OrgInv, OrgsStand
    <3>2. ASSUME NEW o \in OrgId, quota[o] \in Plan PROVE \E r \in Organization!Active(o) : r.plan = quota[o]
      BY <3>1, <3>2 DEF Subscribed, Organization!Active
    <3>3. ASSUME NEW o \in OrgId, o \notin orgs
          PROVE  /\ quota[o] = None /\ \A r \in rows : r.org # o
                 /\ Organization!MembersOf(o) \cup Organization!ServersOf(o) = {}
      BY <3>1, <3>3 DEF NothingLeft, Organization!MembersOf, Organization!ServersOf
    <3> QED
      BY <3>2, <3>3, OrgConstants DEF Organization!QuotaIsSubscribed
  <2> QED
    BY <2>1, <2>2
<1>2. Organization!SpentOnce
  <2>1. \A r \in rows : Chain /\ r.payment # None => r.plan \in PaysForOne[r.payment]
    BY DEF OrgInv, PlansArePaid, Bought
  <2>2. ASSUME NEW t \in Payment PROVE Cardinality({r \in rows : r.payment = t}) <= Cardinality(Worker)
    <3>1. Cardinality(Paid(rows, t)) \in Nat /\ Cardinality(Buying(t)) \in Nat /\ Cardinality(Worker) \in Nat
      BY RowPaid, WorkersCounted, OrgConstants DEF OrgInv, OrgType, Buying
    <3>2. Cardinality(Paid(rows, t)) + Cardinality(Buying(t)) <= Cardinality(Worker)
      BY DEF OrgInv, PaymentsLast
    <3>3. Cardinality(Paid(rows, t)) <= Cardinality(Worker)
      BY <3>1, <3>2
    <3> QED
      BY <3>3 DEF Paid
  <2>3. ASSUME NEW o \in OrgId
        PROVE  Cardinality(Organization!ServersOf(o)) <= Limit + Cardinality(Worker) - 1
    <3>1. IsFiniteSet(Lodged(o)) /\ Cardinality(Lodged(o)) + Cardinality(Adding(o)) <= Limit + Cardinality(Worker) - 1
      BY DEF OrgInv, RoomLasts
    <3>2. Cardinality(Lodged(o)) \in Nat /\ Cardinality(Adding(o)) \in Nat /\ Cardinality(Worker) \in Nat
      BY <3>1, WorkersCounted, FS_CardinalityType, OrgConstants DEF Adding
    <3>3. Cardinality(Lodged(o)) <= Limit + Cardinality(Worker) - 1
      BY <3>1, <3>2, OrgConstants
    <3> QED
      BY <3>3 DEF Lodged, Organization!ServersOf
  <2> QED
    BY <2>1, <2>2, <2>3, OrgCardinality, OrgConstants DEF Organization!SpentOnce
<1> QED
  BY <1>1, <1>2 DEF UseIsPaid, Organization!UseIsPaid

\* Whatever requests overlap: an organization works under a plan it is subscribed to, and nothing of
\* it outlives it, unless it was deleted under a request about it; a payment buys what it pays for,
\* once for each worker at most; and servers go beyond the licence by less than one for each worker.
THEOREM UsePaid == AccountsSpec => []UseIsPaid
<1>1. AccountsInit => OrgInv
  BY OrgInit DEF AccountsInit
<1>2. OrgInv /\ [AccountsNext]_<<part, vars, organizationVars, rewardVars, cacheVars>> => OrgInv'
  <2>1. AccountsNext => [Organization!Next]_(Organization!vars)
    BY DEF AccountsNext, organizationVars, Organization!vars
  <2>2. UNCHANGED <<part, vars, organizationVars, rewardVars, cacheVars>> => UNCHANGED Organization!vars
    BY DEF organizationVars, Organization!vars
  <2> QED
    BY <2>1, <2>2, OrgStep
<1> QED
  BY <1>1, <1>2, OrgHolds, PTL DEF AccountsSpec
-----------------------------------------------------------------------------
(***************************************************************************)
(* The cached status of a server                                           *)
(***************************************************************************)
Entry == [value : Nat, until : Nat]
Keys == [count : Entry \cup {None}, status : Entry \cup {None}]
Reading == [value : Nat, at : Nat]

\* A status that is kept is of the server as it is, or has as long to live as one that was read
\* Longest before the change that made it untrue was over.
Kept(e, now, w, ch) ==
    e # None => /\ e.value <= w /\ e.until <= now + Ttl
                /\ e.value < w => e.until <= ch[e.value] + Ttl + Longest

\* What is being read was read at most Longest ago, and before any change of it.
Reads(r, now, w, ch) ==
    r # None => /\ r.value <= w /\ r.at <= now /\ now <= r.at + Longest
                /\ r.value < w => r.at <= ch[r.value]

CacheType ==
    /\ clock \in Nat /\ world \in 0 .. MaxWorld /\ changed \in [0 .. MaxWorld -> Nat]
    /\ redis \in Keys /\ local \in [Worker -> Keys]
    /\ reading \in [Worker -> Reading \cup {None}]

StatusesKept ==
    /\ Kept(redis.status, clock, world, changed)
    /\ \A p \in Worker : Kept(local[p].status, clock, world, changed)

ReadingsKept == \A p \in Worker : Reads(reading[p], clock, world, changed)

CacheInv == CacheType /\ StatusesKept /\ ReadingsKept

LEMMA CacheConstants ==
  /\ Limit \in Nat \ {0} /\ Ttl \in Nat \ {0} /\ {Longest, MaxNow, MaxWorld} \subseteq Nat
BY PartsAssumption DEF Cache!ConstantsAssumption

LEMMA KeptLater ==
  ASSUME NEW e \in Entry \cup {None}, NEW now \in Nat, NEW w \in Nat, NEW ch, Kept(e, now, w, ch)
  PROVE  Kept(e, now + 1, w, ch)
BY CacheConstants DEF Kept, Entry

LEMMA KeptChanged ==
  ASSUME NEW e \in Entry \cup {None}, NEW now \in Nat, NEW w \in 0 .. MaxWorld, NEW ch \in [0 .. MaxWorld -> Nat],
         Kept(e, now, w, ch)
  PROVE  Kept(e, now, w + 1, [ch EXCEPT ![w] = now])
<1> SUFFICES ASSUME e # None PROVE Kept(e, now, w + 1, [ch EXCEPT ![w] = now])
  BY DEF Kept
<1>1. /\ e.value \in Nat /\ e.until \in Nat /\ e.value <= w /\ e.until <= now + Ttl
      /\ e.value < w => e.until <= ch[e.value] + Ttl + Longest
  BY DEF Kept, Entry
<1>2. MaxWorld \in Nat /\ Ttl \in Nat /\ Longest \in Nat
  BY CacheConstants
<1>3. CASE e.value = w
  <2>1. [ch EXCEPT ![w] = now][e.value] = now
    BY <1>3
  <2>2. e.until <= now + Ttl + Longest
    BY <1>1, <1>2
  <2> QED
    BY <1>1, <1>2, <1>3, <2>1, <2>2 DEF Kept
<1>4. CASE e.value # w
  <2>1. e.value < w /\ e.value \in 0 .. MaxWorld
    BY <1>1, <1>2, <1>4
  <2>2. [ch EXCEPT ![w] = now][e.value] = ch[e.value]
    BY <2>1, <1>4
  <2> QED
    BY <1>1, <1>2, <2>1, <2>2 DEF Kept
<1> QED
  BY <1>3, <1>4

LEMMA ReadsChanged ==
  ASSUME NEW r \in Reading \cup {None}, NEW now \in Nat, NEW w \in 0 .. MaxWorld, NEW ch \in [0 .. MaxWorld -> Nat],
         Reads(r, now, w, ch)
  PROVE  Reads(r, now, w + 1, [ch EXCEPT ![w] = now])
<1> SUFFICES ASSUME r # None PROVE Reads(r, now, w + 1, [ch EXCEPT ![w] = now])
  BY DEF Reads
<1>1. /\ r.value \in Nat /\ r.at \in Nat /\ r.value <= w /\ r.at <= now /\ now <= r.at + Longest
      /\ r.value < w => r.at <= ch[r.value]
  BY DEF Reads, Reading
<1>2. MaxWorld \in Nat
  BY CacheConstants
<1>3. CASE r.value = w
  <2>1. [ch EXCEPT ![w] = now][r.value] = now
    BY <1>3
  <2> QED
    BY <1>1, <1>2, <1>3, <2>1 DEF Reads
<1>4. CASE r.value # w
  <2>1. r.value < w /\ r.value \in 0 .. MaxWorld
    BY <1>1, <1>2, <1>4
  <2>2. [ch EXCEPT ![w] = now][r.value] = ch[r.value]
    BY <2>1, <1>4
  <2> QED
    BY <1>1, <1>2, <2>1, <2>2 DEF Reads
<1> QED
  BY <1>3, <1>4

\* A status that is cached was read at most Longest ago.
LEMMA ReadIsKept ==
  ASSUME NEW r \in Reading, r # None, NEW now \in Nat, NEW w \in 0 .. MaxWorld,
         NEW ch \in [0 .. MaxWorld -> Nat], Reads(r, now, w, ch)
  PROVE  LET e == [value |-> r.value, until |-> now + Ttl]
         IN  e \in Entry /\ Kept(e, now, w, ch)
<1> DEFINE e == [value |-> r.value, until |-> now + Ttl]
<1>1. /\ r.value \in Nat /\ r.at \in Nat /\ r.value <= w /\ now <= r.at + Longest
      /\ r.value < w => r.at <= ch[r.value]
  BY DEF Reads, Reading
<1>2. MaxWorld \in Nat /\ Ttl \in Nat /\ Longest \in Nat
  BY CacheConstants
<1>3. e \in Entry /\ e.value = r.value /\ e.until = now + Ttl
  BY <1>1, <1>2 DEF Entry
<1> HIDE DEF e
<1>4. r.value < w => now + Ttl <= ch[r.value] + Ttl + Longest
  <2> SUFFICES ASSUME r.value < w PROVE now + Ttl <= ch[r.value] + Ttl + Longest
    OBVIOUS
  <2>1. r.value \in 0 .. MaxWorld /\ ch[r.value] \in Nat
    BY <1>1, <1>2
  <2> QED
    BY <1>1, <1>2, <2>1
<1>5. e.value <= w /\ e.until <= now + Ttl
  BY <1>1, <1>2, <1>3
<1>6. e.value < w => e.until <= ch[e.value] + Ttl + Longest
  BY <1>3, <1>4
<1>7. Kept(e, now, w, ch)
  BY <1>5, <1>6 DEF Kept
<1> QED
  BY <1>3, <1>7 DEF e

\* Counting leaves the status alone, wherever it counts.
LEMMA CountedIs ==
  ASSUME CacheType, NEW e \in Entry \cup {None}, NEW live \in BOOLEAN, live => e # None
  PROVE  Cache!Counted(e, live) \in Entry
<1>1. clock \in Nat /\ Limit \in Nat /\ Ttl \in Nat
  BY CacheConstants DEF CacheType
<1>2. CASE live
  <2>1. e \in Entry
    BY <1>2
  <2>2. e.value \in Nat /\ e = [value |-> e.value, until |-> e.until]
    BY <2>1 DEF Entry
  <2>3. (IF e.value > Limit THEN e.value ELSE e.value + 1) \in Nat
    BY <2>2
  <2>4. Cache!Counted(e, live) = [e EXCEPT !.value = IF @ > Limit THEN @ ELSE @ + 1]
    BY <1>2 DEF Cache!Counted
  <2> QED
    BY <2>1, <2>3, <2>4 DEF Entry
<1>3. CASE ~live
  BY <1>1, <1>3 DEF Cache!Counted, Entry
<1> QED
  BY <1>2, <1>3

LEMMA CountsAre ==
  ASSUME CacheType
  PROVE  /\ Cache!RedisCount \in Entry /\ Cache!Unexpiring \in Entry
         /\ \A p \in Worker : Cache!LocalCount(p) \in Entry
<1>1. redis.count \in Entry \cup {None}
  BY DEF CacheType, Keys
<1>2. Cache!RedisLive(redis.count) \in BOOLEAN /\ (Cache!RedisLive(redis.count) => redis.count # None)
  BY DEF Cache!RedisLive
<1>3. Cache!RedisCount \in Entry
  BY <1>1, <1>2, CountedIs DEF Cache!RedisCount
<1>4. Cache!Unexpiring \in Entry
  <2>1. Cache!Forever \in Nat
    BY CacheConstants DEF Cache!Forever
  <2> QED
    BY <1>3, <2>1 DEF Cache!Unexpiring, Entry
<1>5. ASSUME NEW p \in Worker PROVE Cache!LocalCount(p) \in Entry
  <2>1. local[p].count \in Entry \cup {None}
    BY DEF CacheType, Keys
  <2>2. /\ Cache!LocalLive(local[p].count) \in BOOLEAN
        /\ Cache!LocalLive(local[p].count) => local[p].count # None
    BY DEF Cache!LocalLive
  <2> QED
    BY <2>1, <2>2, CountedIs DEF Cache!LocalCount
<1> QED
  BY <1>3, <1>4, <1>5

LEMMA KeySet ==
  ASSUME NEW k \in Keys, NEW e \in Entry \cup {None}
  PROVE  /\ [k EXCEPT !.count = e] \in Keys /\ [k EXCEPT !.count = e].status = k.status
         /\ [k EXCEPT !.status = e] \in Keys /\ [k EXCEPT !.status = e].status = e
BY DEF Keys

LEMMA CacheInit == Cache!Init => CacheInv
<1> SUFFICES ASSUME Cache!Init PROVE CacheInv
  OBVIOUS
<1>1. Cache!Empty \in Keys /\ Cache!Empty.status = None
  BY DEF Cache!Empty, Keys
<1>2. CacheType
  BY <1>1, CacheConstants DEF Cache!Init, CacheType
<1>3. redis.status = None /\ \A p \in Worker : local[p].status = None /\ reading[p] = None
  BY <1>1 DEF Cache!Init
<1> QED
  BY <1>2, <1>3 DEF CacheInv, StatusesKept, ReadingsKept, Kept, Reads

\* Steps in which nothing is read anew and only counts change.
LEMMA CountsChanged ==
  ASSUME CacheInv, CacheType', UNCHANGED <<clock, world, changed>>,
         redis'.status = redis.status,
         \A p \in Worker : local'[p].status \in {local[p].status, None} /\ reading'[p] \in {reading[p], None}
  PROVE  CacheInv'
<1>1. StatusesKept'
  <2>1. Kept(None, clock, world, changed)
    BY DEF Kept
  <2> QED
    BY <2>1 DEF CacheInv, StatusesKept
<1>2. ReadingsKept'
  <2>1. Reads(None, clock, world, changed)
    BY DEF Reads
  <2> QED
    BY <2>1 DEF CacheInv, ReadingsKept
<1> QED
  BY <1>1, <1>2 DEF CacheInv

LEMMA ServeKeeps ==
  ASSUME CacheInv, NEW p \in Worker, Cache!Serve(p)
  PROVE  CacheInv'
<1>1. CacheType /\ redis \in Keys /\ local \in [Worker -> Keys]
  BY DEF CacheInv, CacheType
<1>2. UNCHANGED <<clock, world, changed, reading>>
  BY DEF Cache!Serve, Cache!server
<1>3. redis' \in Keys /\ redis'.status = redis.status
  <2>1. redis' = redis \/ \E c \in {redis.count, Cache!RedisCount, Cache!Unexpiring} : redis' = [redis EXCEPT !.count = c]
    BY DEF Cache!Serve
  <2>2. {redis.count, Cache!RedisCount, Cache!Unexpiring} \subseteq Entry \cup {None}
    BY <1>1, CountsAre DEF Keys
  <2>3. ASSUME NEW c \in Entry \cup {None}, redis' = [redis EXCEPT !.count = c]
        PROVE  redis' \in Keys /\ redis'.status = redis.status
    BY <1>1, <2>3, KeySet
  <2> QED
    BY <1>1, <2>1, <2>2, <2>3
<1>4. local' \in [Worker -> Keys] /\ \A q \in Worker : local'[q].status = local[q].status
  <2>1. local' = local \/ local' = [local EXCEPT ![p] = [@ EXCEPT !.count = Cache!LocalCount(p)]]
    BY DEF Cache!Serve, Cache!CountLocally
  <2>2. /\ [local[p] EXCEPT !.count = Cache!LocalCount(p)] \in Keys
        /\ [local[p] EXCEPT !.count = Cache!LocalCount(p)].status = local[p].status
    <3>1. local[p] \in Keys /\ Cache!LocalCount(p) \in Entry
      BY <1>1, CountsAre
    <3> QED
      BY <3>1, KeySet
  <2> QED
    BY <1>1, <2>1, <2>2
<1>5. CacheType'
  BY <1>1, <1>2, <1>3, <1>4 DEF CacheType
<1> QED
  BY <1>2, <1>3, <1>4, <1>5, CountsChanged

LEMMA GetStatusKeeps ==
  ASSUME CacheInv, NEW p \in Worker, Cache!GetStatus(p)
  PROVE  CacheInv'
<1>1. CacheType /\ StatusesKept /\ ReadingsKept
  BY DEF CacheInv
<1>2. UNCHANGED <<clock, redis, local, world, changed>>
  BY DEF Cache!GetStatus, Cache!keys
<1>3. reading' = reading \/ reading' = [reading EXCEPT ![p] = [value |-> world, at |-> clock]]
  BY DEF Cache!GetStatus
<1>4. [value |-> world, at |-> clock] \in Reading /\ Reads([value |-> world, at |-> clock], clock, world, changed)
  BY <1>1, CacheConstants DEF CacheType, Reading, Reads
<1>5. CacheType'
  BY <1>1, <1>2, <1>3, <1>4 DEF CacheType
<1>6. ReadingsKept'
  <2>1. \A q \in Worker : reading'[q] = reading[q] \/ reading'[q] = [value |-> world, at |-> clock]
    BY <1>1, <1>3 DEF CacheType
  <2>2. \A q \in Worker : Reads(reading'[q], clock, world, changed)
    BY <1>1, <1>4, <2>1 DEF ReadingsKept
  <2> QED
    BY <1>2, <2>2 DEF ReadingsKept
<1>7. StatusesKept'
  BY <1>1, <1>2 DEF StatusesKept
<1> QED
  BY <1>5, <1>6, <1>7 DEF CacheInv

\* An entry that may be kept is put into the memory of a process, and perhaps into Redis.
LEMMA WriteKeeps ==
  ASSUME CacheInv, NEW p \in Worker, NEW e \in Entry \cup {None}, Kept(e, clock, world, changed),
         local' = [local EXCEPT ![p].status = e], Cache!Write(p, "status", e),
         \A q \in Worker : reading'[q] \in {reading[q], None}, reading' \in [Worker -> Reading \cup {None}],
         UNCHANGED <<clock, world, changed>>
  PROVE  CacheInv'
<1>1. CacheType /\ StatusesKept /\ ReadingsKept
  BY DEF CacheInv
<1>2. redis' = redis \/ redis' = [redis EXCEPT !.status = e]
  <2>1. [redis EXCEPT !["status"] = e] = [redis EXCEPT !.status = e]
    OBVIOUS
  <2> QED
    BY <2>1 DEF Cache!Write
<1>3. redis' \in Keys /\ redis'.status \in {redis.status, e}
  <2>1. redis \in Keys
    BY <1>1 DEF CacheType
  <2>2. [redis EXCEPT !.status = e] \in Keys /\ [redis EXCEPT !.status = e].status = e
    BY <2>1, KeySet
  <2> QED
    BY <1>2, <2>1, <2>2
<1>4. local' \in [Worker -> Keys] /\ \A q \in Worker : local'[q].status \in {local[q].status, e}
  <2>1. [local[p] EXCEPT !.status = e] \in Keys /\ [local[p] EXCEPT !.status = e].status = e
    BY <1>1, KeySet DEF CacheType
  <2>2. local' = [local EXCEPT ![p] = [@ EXCEPT !.status = e]]
    OBVIOUS
  <2> QED
    BY <1>1, <2>1, <2>2 DEF CacheType
<1>5. CacheType'
  BY <1>1, <1>3, <1>4 DEF CacheType
<1>6. StatusesKept'
  BY <1>1, <1>3, <1>4 DEF StatusesKept
<1>7. ReadingsKept'
  <2>1. Reads(None, clock, world, changed)
    BY DEF Reads
  <2> QED
    BY <1>1, <2>1 DEF ReadingsKept
<1> QED
  BY <1>5, <1>6, <1>7 DEF CacheInv

LEMMA SetStatusKeeps ==
  ASSUME CacheInv, NEW p \in Worker, Cache!SetStatus(p)
  PROVE  CacheInv'
<1> DEFINE e == [value |-> reading[p].value, until |-> clock + Ttl]
<1>1. CacheType /\ ReadingsKept
  BY DEF CacheInv
<1>2. reading[p] \in Reading /\ reading[p] # None
  BY <1>1 DEF Cache!SetStatus, CacheType
<1>3. Reads(reading[p], clock, world, changed)
  BY <1>1 DEF ReadingsKept
<1>4. e \in Entry /\ Kept(e, clock, world, changed)
  <2>1. clock \in Nat /\ world \in 0 .. MaxWorld /\ changed \in [0 .. MaxWorld -> Nat]
    BY <1>1 DEF CacheType
  <2> QED
    BY <1>2, <1>3, <2>1, ReadIsKept
<1>5. /\ local' = [local EXCEPT ![p].status = e] /\ Cache!Write(p, "status", e)
      /\ reading' = [reading EXCEPT ![p] = None] /\ UNCHANGED <<clock, world, changed>>
  BY DEF Cache!SetStatus
<1>6. reading' \in [Worker -> Reading \cup {None}] /\ \A q \in Worker : reading'[q] \in {reading[q], None}
  BY <1>1, <1>5 DEF CacheType
<1> HIDE DEF e
<1> QED
  BY <1>4, <1>5, <1>6, WriteKeeps

LEMMA InvalidateKeeps ==
  ASSUME CacheInv, NEW p \in Worker, Cache!Invalidate(p)
  PROVE  CacheInv'
<1>1. Kept(None, clock, world, changed)
  BY DEF Kept
<1>2. /\ local' = [local EXCEPT ![p].status = None] /\ Cache!Write(p, "status", None)
      /\ UNCHANGED <<clock, world, changed, reading>>
  BY DEF Cache!Invalidate
<1>3. reading' \in [Worker -> Reading \cup {None}] /\ \A q \in Worker : reading'[q] \in {reading[q], None}
  BY <1>2 DEF CacheInv, CacheType
<1> QED
  BY <1>1, <1>2, <1>3, WriteKeeps

LEMMA ChangeKeeps ==
  ASSUME CacheInv, NEW p \in Worker, Cache!Change(p)
  PROVE  CacheInv'
<1>1. CacheType /\ StatusesKept /\ ReadingsKept /\ MaxWorld \in Nat
  BY CacheConstants DEF CacheInv
<1>2. /\ world < MaxWorld /\ world' = world + 1 /\ changed' = [changed EXCEPT ![world] = clock]
      /\ UNCHANGED <<clock, redis, local, reading>>
  BY DEF Cache!Change, Cache!keys
<1>3. clock \in Nat /\ world \in 0 .. MaxWorld /\ changed \in [0 .. MaxWorld -> Nat]
  BY <1>1 DEF CacheType
<1>4. world' \in 0 .. MaxWorld /\ changed' \in [0 .. MaxWorld -> Nat]
  BY <1>1, <1>2, <1>3
<1>5. CacheType'
  BY <1>1, <1>2, <1>4 DEF CacheType
<1>6. StatusesKept'
  <2>1. redis.status \in Entry \cup {None} /\ \A q \in Worker : local[q].status \in Entry \cup {None}
    BY <1>1 DEF CacheType, Keys
  <2>2. Kept(redis.status, clock, world', changed')
    BY <1>1, <1>2, <1>3, <2>1, KeptChanged DEF StatusesKept
  <2>3. ASSUME NEW q \in Worker PROVE Kept(local[q].status, clock, world', changed')
    BY <1>1, <1>2, <1>3, <2>1, KeptChanged DEF StatusesKept
  <2> QED
    BY <1>2, <2>2, <2>3 DEF StatusesKept
<1>7. ReadingsKept'
  <2>1. ASSUME NEW q \in Worker PROVE Reads(reading[q], clock, world', changed')
    <3>1. reading[q] \in Reading \cup {None}
      BY <1>1 DEF CacheType
    <3> QED
      BY <1>1, <1>2, <1>3, <3>1, ReadsChanged DEF ReadingsKept
  <2> QED
    BY <1>2, <2>1 DEF ReadingsKept
<1> QED
  BY <1>5, <1>6, <1>7 DEF CacheInv

LEMMA RestartKeeps ==
  ASSUME CacheInv, NEW p \in Worker, Cache!Restart(p)
  PROVE  CacheInv'
<1>1. CacheType /\ redis \in Keys /\ local \in [Worker -> Keys] /\ reading \in [Worker -> Reading \cup {None}]
  BY DEF CacheInv, CacheType
<1>2. UNCHANGED <<clock, world, changed>>
  BY DEF Cache!Restart
<1>3. redis' \in Keys /\ redis'.status = redis.status
  <2>1. redis' = redis \/ redis' = [redis EXCEPT !.count = Cache!Unexpiring]
    BY DEF Cache!Restart
  <2>2. Cache!Unexpiring \in Entry
    BY <1>1, CountsAre
  <2>3. [redis EXCEPT !.count = Cache!Unexpiring] \in Keys /\ [redis EXCEPT !.count = Cache!Unexpiring].status = redis.status
    BY <1>1, <2>2, KeySet
  <2> QED
    BY <1>1, <2>1, <2>3
<1>4. local' \in [Worker -> Keys] /\ \A q \in Worker : local'[q].status \in {local[q].status, None}
  <2>1. Cache!Empty \in Keys /\ Cache!Empty.status = None
    BY DEF Cache!Empty, Keys
  <2>2. local' = [local EXCEPT ![p] = Cache!Empty]
    BY DEF Cache!Restart
  <2> QED
    BY <1>1, <2>1, <2>2
<1>5. reading' \in [Worker -> Reading \cup {None}] /\ \A q \in Worker : reading'[q] \in {reading[q], None}
  BY <1>1 DEF Cache!Restart
<1>6. CacheType'
  BY <1>1, <1>2, <1>3, <1>4, <1>5 DEF CacheType
<1> QED
  BY <1>2, <1>3, <1>4, <1>5, <1>6, CountsChanged

LEMMA TickKeeps ==
  ASSUME CacheInv, Cache!Tick
  PROVE  CacheInv'
<1>1. CacheType /\ StatusesKept /\ ReadingsKept
  BY DEF CacheInv
<1>2. /\ \A p \in Worker : reading[p] # None => clock - reading[p].at < Longest
      /\ clock' = clock + 1 /\ UNCHANGED <<redis, local, world, changed, reading>>
  BY DEF Cache!Tick, Cache!keys, Cache!server
<1>3. clock \in Nat /\ world \in Nat /\ Longest \in Nat
  BY <1>1, CacheConstants DEF CacheType
<1>4. CacheType'
  BY <1>1, <1>2, <1>3 DEF CacheType
<1>5. StatusesKept'
  <2>1. redis.status \in Entry \cup {None} /\ \A q \in Worker : local[q].status \in Entry \cup {None}
    BY <1>1 DEF CacheType, Keys
  <2>2. Kept(redis.status, clock + 1, world, changed)
    BY <1>1, <1>3, <2>1, KeptLater DEF StatusesKept
  <2>3. ASSUME NEW q \in Worker PROVE Kept(local[q].status, clock + 1, world, changed)
    BY <1>1, <1>3, <2>1, KeptLater DEF StatusesKept
  <2> QED
    BY <1>2, <2>2, <2>3 DEF StatusesKept
<1>6. ReadingsKept'
  <2>1. ASSUME NEW q \in Worker, reading[q] # None PROVE Reads(reading[q], clock + 1, world, changed)
    <3>1. reading[q].at \in Nat /\ clock - reading[q].at < Longest
      BY <1>1, <1>2, <2>1 DEF CacheType, Reading
    <3>2. /\ reading[q].value <= world /\ reading[q].at <= clock
          /\ reading[q].value < world => reading[q].at <= changed[reading[q].value]
      BY <1>1, <2>1 DEF ReadingsKept, Reads
    <3>3. reading[q].at <= clock + 1 /\ clock + 1 <= reading[q].at + Longest
      BY <1>3, <3>1, <3>2
    <3> QED
      BY <3>2, <3>3 DEF Reads
  <2>2. Reads(None, clock + 1, world, changed)
    BY DEF Reads
  <2> QED
    BY <1>2, <2>1, <2>2 DEF ReadingsKept
<1> QED
  BY <1>4, <1>5, <1>6 DEF CacheInv

LEMMA CacheStep == CacheInv /\ [Cache!Next]_(Cache!vars) => CacheInv'
<1> SUFFICES ASSUME CacheInv, [Cache!Next]_(Cache!vars) PROVE CacheInv'
  OBVIOUS
<1>1. CASE Cache!Tick
  BY <1>1, TickKeeps
<1>2. ASSUME NEW p \in Worker, Cache!Serve(p) PROVE CacheInv'
  BY <1>2, ServeKeeps
<1>3. ASSUME NEW p \in Worker, Cache!GetStatus(p) PROVE CacheInv'
  BY <1>3, GetStatusKeeps
<1>4. ASSUME NEW p \in Worker, Cache!SetStatus(p) PROVE CacheInv'
  BY <1>4, SetStatusKeeps
<1>5. ASSUME NEW p \in Worker, Cache!Change(p) PROVE CacheInv'
  BY <1>5, ChangeKeeps
<1>6. ASSUME NEW p \in Worker, Cache!Invalidate(p) PROVE CacheInv'
  BY <1>6, InvalidateKeeps
<1>7. ASSUME NEW p \in Worker, Cache!Restart(p) PROVE CacheInv'
  BY <1>7, RestartKeeps
<1>8. CASE UNCHANGED Cache!vars
  BY <1>8 DEF Cache!vars, Cache!keys, Cache!server, CacheInv, CacheType, StatusesKept, ReadingsKept
<1> QED
  BY <1>1, <1>2, <1>3, <1>4, <1>5, <1>6, <1>7, <1>8 DEF Cache!Next, Cache!LimiterNext, Cache!StatusNext

LEMMA CacheHolds == CacheInv => Cache!StaleIsBounded
<1> SUFFICES ASSUME CacheInv, NEW p \in Worker, NEW e \in Cache!Servable(p), e.value < world
             PROVE  clock - changed[e.value] <= Ttl + Longest
  BY DEF Cache!StaleIsBounded
<1>1. e # None /\ e \in {local[p].status, redis.status} /\ clock <= e.until
  <2>1. e \in {Cache!Cached(p), Cache!Shared} /\ e # None
    BY DEF Cache!Servable
  <2>2. CASE e = Cache!Cached(p)
    BY <2>1, <2>2 DEF Cache!Cached, Cache!LocalLive
  <2>3. CASE e = Cache!Shared
    <3>1. e = redis.status /\ clock < redis.status.until
      BY <2>1, <2>3 DEF Cache!Shared, Cache!RedisLive
    <3>2. redis.status \in Entry /\ clock \in Nat
      BY <2>1, <3>1 DEF CacheInv, CacheType, Keys
    <3> QED
      BY <2>1, <3>1, <3>2 DEF Entry
  <2> QED
    BY <2>1, <2>2, <2>3
<1>2. Kept(e, clock, world, changed)
  BY <1>1 DEF CacheInv, StatusesKept
<1>3. e.until <= changed[e.value] + Ttl + Longest
  BY <1>1, <1>2 DEF Kept
<1>4. e \in Entry
  BY <1>1 DEF CacheInv, CacheType, Keys
<1>5. /\ clock \in Nat /\ e.until \in Nat /\ changed[e.value] \in Nat
      /\ Ttl \in Nat /\ Longest \in Nat
  <2>1. e.value \in Nat /\ e.until \in Nat
    BY <1>4 DEF Entry
  <2>2. e.value \in 0 .. MaxWorld
    BY <2>1, CacheConstants DEF CacheInv, CacheType
  <2> QED
    BY <2>1, <2>2, CacheConstants DEF CacheInv, CacheType
<1> QED
  BY <1>1, <1>3, <1>5

\* Whatever write or deletion fails to reach Redis or another process, whatever process restarts: a
\* status that a change has made untrue is shown for no longer than it is cached, and the time it
\* was read in, after that change.
THEOREM StaleBounded == AccountsSpec => []Cache!StaleIsBounded
<1>1. AccountsInit => CacheInv
  BY CacheInit DEF AccountsInit
<1>2. CacheInv /\ [AccountsNext]_<<part, vars, organizationVars, rewardVars, cacheVars>> => CacheInv'
  <2>1. AccountsNext => [Cache!Next]_(Cache!vars)
    BY DEF AccountsNext, cacheVars, Cache!vars, Cache!keys, Cache!circuit, Cache!server, Cache!Next
  <2>2. UNCHANGED <<part, vars, organizationVars, rewardVars, cacheVars>> => UNCHANGED Cache!vars
    BY DEF cacheVars, Cache!vars, Cache!keys, Cache!circuit, Cache!server
  <2> QED
    BY <2>1, <2>2, CacheStep
<1> QED
  BY <1>1, <1>2, CacheHolds, PTL DEF AccountsSpec
=============================================================================
