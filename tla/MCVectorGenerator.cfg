SPECIFICATION Spec
CONSTANTS
    Vec <- MCVec
    Value = {0, 1, 2}
    NarrowValue = {0, 1}
    Size <- MCSize
    vec_ids <- MCVecIds
    ConstraintLists <- MCLists
INVARIANTS
    VectorsValid
    FailureJustified
CHECK_DEADLOCK FALSE
