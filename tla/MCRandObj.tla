------------------------------ MODULE MCRandObj ------------------------------
(* Three objects in a chain of which the last has a constraint and a       *)
(* vector, and an object that stands alone and is extended later.          *)
EXTENDS RandObj

CONSTANTS top, mid, leaf, alone, cLeaf, cLate, v

MCObj == {top, mid, leaf, alone}
MCParent == [o \in MCObj |-> CASE o = mid -> top [] o = leaf -> mid [] OTHER -> NoObj]
MCConstraint == {cLeaf, cLate}
MCOwner == [c \in MCConstraint |-> IF c = cLeaf THEN leaf ELSE alone]
MCLate == {cLate}
MCVec == {v}
MCVecOwner == [x \in MCVec |-> leaf]
==============================================================================
