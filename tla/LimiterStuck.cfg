SPECIFICATION Spec
CONSTANTS
    Process = {p1, p2}
    Limit = 1
    Ttl = 2
    Threshold = 1
    Reset = 1
    Longest = 1
    MaxNow = 4
    MaxWorld = 0
    MaxRestarts = 0
    None = None
INVARIANTS LimitEnds
CHECK_DEADLOCK FALSE
