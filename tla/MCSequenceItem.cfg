SPECIFICATION Spec
CONSTANTS
    Class <- MCClass
    Declared <- MCDeclared
    NewList <- MCNewList
    TypeBits = 3
    WeightBits = 4
    MaxObjects = 11
    MaxList = 2
    MaxDists = 4
    MaxCopies = 1
    CopiedKinds = {"enum"}
INVARIANTS
    HierarchySound
    BuiltIsCurrent
    UserDistributionAlone
    DrawsExact
CHECK_DEADLOCK FALSE
