SPECIFICATION Spec
CONSTANTS
    None = None
    MeasureTime = 0
    Configurations <- Everything
INVARIANT MeasurementsInvalidate
CHECK_DEADLOCK FALSE
