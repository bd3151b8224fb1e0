SPECIFICATION Spec
CONSTANTS
    RuleName <- MCRuleName
    Rhs <- MCRhs
    Bound <- MCBound
    Goal <- MCGoal
    NDEBUG = FALSE
    MaxRoots = 2
INVARIANTS
    GraphMeansGrammar
PROPERTIES
    EveryPathCovers
    RootEnds
CHECK_DEADLOCK FALSE
