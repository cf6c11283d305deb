SPECIFICATION Spec
CONSTANTS
    Vars = {a, b}
    Values = {zero, x}
    Default = zero
    Strides <- UnitAndReverse
    MinIndex <- Negative
    SelfUpdates = FALSE
    MaxLength = 3
    MaxStep = 2
    Capacity = 4
    MaxReferences = 3
SYMMETRY Symmetry
INVARIANT OutOfBoundsThrows
