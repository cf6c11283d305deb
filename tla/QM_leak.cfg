CONSTANTS
    Capacity = 2
    MayExtendCapacity = FALSE
    EncourageReuse = TRUE
    DisableBorrowing = FALSE
    MaxCapacity = 2
    MaxRequest = 1
    MaxDepth = 2
    MaxDisabled = 0
    MaxFailures = 0
SPECIFICATION Spec
INVARIANTS ReturnReleases
