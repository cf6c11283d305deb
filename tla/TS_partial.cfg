SPECIFICATION Spec
CONSTANTS
    None = None
    MeasureTime = 0
    Configurations <- Everything
INVARIANT MeasuresWhatWasAsserted
CHECK_DEADLOCK FALSE
