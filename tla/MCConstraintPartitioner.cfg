SPECIFICATION FairSpec
CONSTANTS
    x = x
    y = y
    z = z
    m1 = m1
    m2 = m2
    Constraint <- MCConstraint
    Var <- MCVar
    Attr <- MCAttr
    Manager <- MCManager
    Owned <- MCOwned
INVARIANTS
    Separated
    ExactlyOnce
    NotSplittable
    DescendingIds
PROPERTIES
    PartitionReturns
