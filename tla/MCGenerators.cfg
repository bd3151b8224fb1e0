SPECIFICATION FairGeneratorSpec
CONSTANTS
    p1 = p1
    p2 = p2
    p3 = p3
    NoSolver = NoSolver
    Partition <- MCPartition
    PartitionList <- MCPartitionList
    Built = {"STP", "Z3"}
    ConfigName = {"crave.cfg", "own.cfg"}
    PresetName = "crave.cfg"
    InitialFiles <- MCInitialFiles
    StartSeed = 5
    Seeds = {0, 9}
    Backends = {"Z3", "SWORD", "z3"}
    MaxSettings = 2
    Missing = Missing
INVARIANTS
    SolversFresh
    BackendChosen
    SeedReported
PROPERTIES
    KeepsPromise
    CallsReturn
