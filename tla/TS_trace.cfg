SPECIFICATION Spec
CONSTANTS
    None = None
    MeasureTime = 0
    Configurations <- Everything
INVARIANTS TypeOK ReuseIsSchedulable PoolsMatchLanes DepthIsCriticalPath WidthCoversNesting AnswersAreAsserted
CHECK_DEADLOCK FALSE
