SPECIFICATION Spec
CONSTANTS
    Vars = {a, b, c}
    Values = {zero, x}
    Default = zero
    Strides <- Reverse
    MinIndex = 0
    SelfUpdates = FALSE
    MaxLength = 2
    MaxStep = 2
    Capacity = 2
    MaxReferences = 3
SYMMETRY Symmetry
INVARIANT TypeOK
INVARIANT ValueSemantics
INVARIANT ReferencesCounted
VIEW View
