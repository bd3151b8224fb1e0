SPECIFICATION FairSpec
CONSTANTS
    WriteVar = {"x", "y"}
    ReadVar = {"r"}
    DistVar = {"d"}
    DistOf <- MCDistOf
    DistValue <- MCDistValue
    Value = {0, 1}
    Zero = 0
    HasCudd = TRUE
    Partition <- MCPartition
INVARIANTS
    SolutionValid
    FailureJustified
    SoftsBest
    BddSolversAnswer
PROPERTIES
    SolveReturns
