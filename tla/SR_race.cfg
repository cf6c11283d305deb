CONSTANTS
    t1 = t1
    t2 = t2
    t3 = t3
    Threads <- MCThreads
    Warm = 0
    MaxCreated = 2
    Nobody = Nobody
    Garbage = Garbage
SPECIFICATION Spec
SYMMETRY Symmetry
INVARIANTS CallsReachTheirSimulator
CHECK_DEADLOCK FALSE
