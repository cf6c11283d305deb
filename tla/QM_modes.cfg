SPECIFICATION Spec
CONSTANTS
    FixedCapacity = 3
    GrownCapacity = 4
    MaxRequest = 2
    MaxDepth = 2
    MaxDisabled = 1
INVARIANTS ManagerExact
PROPERTIES NeverReused
CHECK_DEADLOCK FALSE
