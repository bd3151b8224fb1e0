SPECIFICATION Spec
CONSTANTS
    RuleName <- MCRuleName
    Rhs <- MCRhs
    Bound <- MCBound
    Goal <- MCGoal
    NDEBUG = TRUE
    MaxRoots = 2
PROPERTY RootEnds
CHECK_DEADLOCK FALSE
