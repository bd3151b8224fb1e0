SPECIFICATION Spec
CONSTANTS
    Var = {1, 2, 3}
    WordBits = 4
    NativeBits = 3
    Backends <- MCBackends
    Tags <- MCTags
    MaxOps = 1
    MaxCommands = 2
CHECK_DEADLOCK FALSE
INVARIANTS FreshCountsDrawAll
PROPERTIES SolverKeepsPromise
