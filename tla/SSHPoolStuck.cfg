SPECIFICATION Spec
CONSTANTS
    Thread = {t1, t2, t3}
    Client = {c1, c2, c3}
    None = None
    PoolSize = 1
    MaxConnects = 1
    MaxDisconnects = 1
PROPERTIES
    CommandsReturn
CHECK_DEADLOCK FALSE
