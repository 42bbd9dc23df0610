SPECIFICATION PanelSpec
CONSTANTS
    Request = {r1, r2, r3}
    Port = {5, 7, 8, 9, 10, 12}
    PortMin = 7
    PortMax = 10
    Reserved = {5, 7}
    SeedAllocated = {7, 9}
    SeedReserved = {5}
    None = None
    System = System
    Job = {j1, j2, j3}
    Dc1 = dc1
    Dc2 = dc2
    Run = {run}
    d1 = d1
    d2 = d2
    d3 = d3
    Hook = {h1, h2}
    Alert = {a1, a2}
    DnsRecord = {d1, d2, d3}
    Home <- MCHome
    Threshold = 3
    MaxKills = 1
    MaxRefusals = 1
    Tries = 2
    Limit = 2
    MaxOps = 3
    MaxFaults = 1
    MaxStarts = 3
    MaxWrites = 2
INVARIANTS GrantsAreSound SuccessIsTrue  InstallationIsWhole
PROPERTIES   RecordsComeHome 
CHECK_DEADLOCK FALSE
