SPECIFICATION Spec
CONSTANTS
    Qubits = {q1, q2}
    Patterns = {"MeasureUnoccupied"}
    MaxRotating = 1
INVARIANT UnoccupiedIsZero
VIEW View
SYMMETRY Symmetry
CHECK_DEADLOCK FALSE
