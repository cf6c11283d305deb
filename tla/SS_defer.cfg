SPECIFICATION Spec
CONSTANTS
    Qubits = {q1, q2}
    Patterns = {}
    MaxRotating = 1
INVARIANT TypeOK
INVARIANT DeferredEqualsImmediate
INVARIANT UnoccupiedIsZero
INVARIANT FreshQubits
VIEW View
SYMMETRY Symmetry
CHECK_DEADLOCK FALSE
