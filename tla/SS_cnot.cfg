SPECIFICATION Spec
CONSTANTS
    Qubits = {q1, q2}
    Patterns = {"CnotAcrossRy"}
    MaxRotating = 1
INVARIANT DeferredEqualsImmediate
VIEW View
SYMMETRY Symmetry
CHECK_DEADLOCK FALSE
