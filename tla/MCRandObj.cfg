SPECIFICATION Spec
CONSTANTS
    NoObj = NoObj
    top = top
    mid = mid
    leaf = leaf
    alone = alone
    cLeaf = cLeaf
    cLate = cLate
    v = v
    Obj <- MCObj
    Parent <- MCParent
    Constraint <- MCConstraint
    Owner <- MCOwner
    Late <- MCLate
    Vec <- MCVec
    VecOwner <- MCVecOwner
INVARIANTS
    UpToDate
PROPERTIES
    ImplementsAbstract
