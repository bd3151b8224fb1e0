SPECIFICATION MCSpec
CONSTANTS
    Bits = 8
    PlaceholderBits = 4
    ComplexityBits = 2
    Types <- MCTypes
    ElementType <- MCElementType
    MaxWidth = 4
    MaxIndex = 2
    MaxPredicates = 5
    NativeBits = 3
    Constraint = {0, 1, 2, 3}
CHECK_DEADLOCK FALSE
INVARIANTS
    TheoryExact
    ValuesReadBack
    ConstraintsExact
    ForeachExact
    ComplexityBounds
    ConflictsExact
