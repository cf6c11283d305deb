SPECIFICATION Spec
CONSTANTS
    Waiter = waiter
    Refreshers = {refresher}
    Cancellers = {canceller1, canceller2}
    MaxFailures = 1
CHECK_DEADLOCK FALSE
INVARIANT WaitOutlastsJob
PROPERTY WaitTerminates
