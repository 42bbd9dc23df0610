SPECIFICATION Spec
CONSTANTS
    Request = {r1, r2, r3}
    Port = {5, 7, 8, 9, 10, 12}
    PortMin = 7
    PortMax = 10
    Reserved = {5, 7}
    SeedAllocated = {7, 9}
    SeedReserved = {5}
    None = None
    System = System
INVARIANTS NextFreeCanBeAllocated
CHECK_DEADLOCK FALSE
