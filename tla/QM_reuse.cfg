CONSTANTS
    Capacity = 3
    MayExtendCapacity = FALSE
    EncourageReuse = TRUE
    DisableBorrowing = FALSE
    MaxCapacity = 3
    MaxRequest = 3
    MaxDepth = 2
    MaxDisabled = 1
    MaxFailures = 1
SPECIFICATION NativeSpec
INVARIANTS FreeListExact TypeOK CountersExact RefCountExact BorrowNeverRunsShort ExclusiveOwnership BorrowedAreIdle LocalsExact NativePaired
PROPERTIES ThrowsAreClean DisabledForever ImplementsPool
