SPECIFICATION FirewallSpec
CONSTANTS
    Operator = {o1, o2}
    Port = {p1}
    Ip = {i1}
    Row = {x1}
    Prot = {"syn_flood", "slowloris", "nginx_xss"}
    Content = {c1, c2}
    MaxNow = 1
    Cooldown = {2}
    Least = 2
    Window = 2
    Horizon = 2
    MaxBeats = 3
    MaxRequests = 1
    Process = {s1}
    Member = {m1, m2}
    Entered = {e1}
    Applier = {q1}
    Checker = {q2}
    MaxNetworks = 3
    MaxMembers = 2
    CheckedNetworks = 1
    NumberedMembers = 1
    MaxCalls = 3
    MaxFailures = 1
    None = None
SYMMETRY Symmetry
INVARIANTS AnsweredIsInForce  RestoreIsUndoable ReportsAreSpaced 
CHECK_DEADLOCK FALSE
