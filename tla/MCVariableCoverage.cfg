SPECIFICATION Spec
CONSTANTS
    WriteVar = {"x", "y", "z"}
    ReadVar = {"r"}
    Value = {0, 1}
    Name = {"c1", "c2", "c3", "c4"}
    HasVec = TRUE
    Program <- MCProgram
INVARIANTS
    HitsReal
    CoverageEnds
PROPERTIES
    CoveredJustified
