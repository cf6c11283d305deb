CONSTANTS
    t1 = t1
    t2 = t2
    t3 = t3
    Threads <- MCThreads
    Warm = 1
    MaxCreated = 2
    Nobody = Nobody
    Garbage = Garbage
SPECIFICATION Spec
SYMMETRY Symmetry
INVARIANTS IdsAreExclusive SlotsAreRecycled
CHECK_DEADLOCK FALSE
