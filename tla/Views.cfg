SPECIFICATION ViewsSpec
CONSTANTS
    Sid = {s1}
    Watcher = {w1, w2, w3}
    None = None
    Request = {r1, r2}
    Source = {d1}
    MaxEntries = 3
    Limit = 2
    MaxRows = 3
    MaxRequests = 3
    MaxDrops = 1
    MaxClears = 1
    MaxRestarts = 1

    
    
PROPERTIES
    WatchesEnd
CHECK_DEADLOCK FALSE
