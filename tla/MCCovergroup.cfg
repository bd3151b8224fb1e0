SPECIFICATION Spec
CONSTANTS
    Bits = 2
    Var = {"a", "b"}
    GroupVar = {"a", "b"}
    None = None
    Signed = FALSE
    Formula <- MCFormula
    Program <- MCProgram
INVARIANTS
    SimpleHits
    CoveredExact
PROPERTIES
    TransitionHits
CHECK_DEADLOCK FALSE
