SPECIFICATION SSHSpec
CONSTANTS
    Server = {s1}
    PemServer = {s1}
    Caller = {p1, p2}
    Client = {c1, c2, c3}
    None = None
    Interval = 2
    Thread = {p1, p2, p3}
    PoolSize = 1
    MaxConnects = 2
    MaxDisconnects = 1
    Device = {d1}
    Host = {h1, h2}
SYMMETRY Symmetry
INVARIANTS
    NoLeakedClient
    StatusIsHonest
    PoolIsSound
CHECK_DEADLOCK FALSE
