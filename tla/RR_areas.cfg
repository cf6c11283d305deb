CONSTANTS
    Configurations <- FrontOnly
    None = None
    Allocated = Allocated
    Disabled = Disabled
    MaxCapacity = 4
    MaxRequest = 3
    MaxDepth = 3
    MaxSegments = 2
    MaxDisabled = 1
SPECIFICATION Spec
INVARIANTS TypeOK ListsPartitionFree HeldIsCounted
PROPERTIES ReuseIsRestricted NoFalseShortage NeverReused
