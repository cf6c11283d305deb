SPECIFICATION Spec
CONSTANTS
    Invalid = Invalid
    MAX_PENDING_GATES = 3
    FuseSpans = {2, 4}
    MaxFusedDepth = 2
    MaxKernelSpan = 3
    MaxQubits = 3
    MaxGates = 4
INVARIANT TypeOK
INVARIANT PositionsFollowQubits
INVARIANT ProgramOrder
VIEW View
