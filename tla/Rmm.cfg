SPECIFICATION RmmSpec
CONSTANTS
    Task = {t1, t2}
    Device = {d1, d2}
    Worker = {w1, w2}
    Request = {r1, r2}
    None = None
    MaxFaults = 2
    Usb = {u1, u2}
    Process = {a1, a2}
    Width = 1
    Most = 1
    Every = 2
    MaxRecords = 3
    MaxMisses = 2
    MaxRestarts = 1
    ProcessMisses = 1
INVARIANTS
    SettledWasRun
    RunningIsAccountedFor
    
PROPERTIES
    DeliversAtMostOnce
    TasksSettle
CHECK_DEADLOCK FALSE
