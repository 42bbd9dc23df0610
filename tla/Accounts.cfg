SPECIFICATION AccountsSpec
CONSTANTS
    Request = {r1, r2, r3}
    Subscriber = {s1, s2, s3}
    PortStart = 10
    PortEnd = 14
    PerSubscriber = 2
    Worker = {w1, w2}
    User = {u1}
    Server = {k1, k2, k3}
    Plan = {bronze, silver}
    Payment = {t1}
    Chain = TRUE
    Limit = 1
    Members = 1
    MaxOrg = 2
    MaxRow = 4
    MaxBegun = 3
    Address = {a1}
    Action = {"buy", "use"}
    MaxPoints = 2
    DailyLimit = 3
    MaxEarned = 5
    MaxPaid = 6
    Ttl = 2
    Threshold = 1
    Reset = 1
    Longest = 1
    MaxNow = 4
    MaxWorld = 1
    MaxRestarts = 1
    None = None
SYMMETRY Symmetry
INVARIANTS BlocksAreInThePool  PointsAreEarned 
PROPERTIES BlockIsKept
CHECK_DEADLOCK FALSE
