SPECIFICATION StoresSpec
CONSTANTS
    Worker = {w1, w2}
    Server = {k1, k2, k3}
    Name = {n1}
    Plan = {bronze}
    Quota <- OneServerEach
    MaxRows = 4
    None = None
    Backend = "sqlite"
    MaxEntries = 2
    FlushSize = 2
    Timer = {t1}
    Buffer = {b1, b2, b3}
    DbMayFail = TRUE
    MaxAdds = 4
    MaxClears = 1
    MaxRestarts = 1
    MaxAlterations = 1
    User = {u1, u2}
    Code = {c1, c2}
    MaxTokens = 1
    MaxSecret = 2
    MaxRequests = 4
    Slug = {slug}
    File = {f1, f2}
    Organization = {1}
    Org <- OrgOfServer
    MaxCreated = 2
    MaxFaults = 2
    TicketStatus = {"closed"}
    Playbook <- TwoPlaybooks
    Points = {2}
    Full = 3
    Keep = 2
    MaxTickets = 2
    MaxThreats = 2
    MaxBooks = 1
    MaxRuns = 2
    MaxCases = 1
    MaxTimeline = 5
SYMMETRY Symmetry
INVARIANTS
    LogIsSound
    AccountsAreSound
    QuotaIsNearlyKept
    NoOrphans
    ServersStandWherePlaced
    SitesAreWhole
    
CHECK_DEADLOCK FALSE
