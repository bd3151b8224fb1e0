----------------------------- MODULE RandObjTree -----------------------------
(***************************************************************************)
(* The static shape of a program that uses rand_obj: the objects it may    *)
(* create with the parents it passes to their constructors, the            *)
(* constraints it declares in the constraint manager of each object, and   *)
(* the rand_vec members of each object.                                    *)
(***************************************************************************)
EXTENDS Naturals

CONSTANTS
    Obj,         \* the rand_obj instances
    NoObj,       \* the null parent
    Parent,      \* Parent[o]: the parent given to the constructor of o
    Constraint,  \* the (named) constraints
    Owner,       \* Owner[c]: the object in whose manager c is declared
    Late,        \* constraints declared after the constructor of the owner
    Vec,         \* the rand_vec members
    VecOwner     \* VecOwner[v]: the object v is a member of

ASSUME ShapeAssumption ==
    /\ NoObj \notin Obj
    /\ Parent \in [Obj -> Obj \union {NoObj}]
    /\ Owner \in [Constraint -> Obj]
    /\ Late \subseteq Constraint
    /\ VecOwner \in [Vec -> Obj]

(* A set of objects that contains the parent of each of its objects.       *)
Closed(S) == \A x \in S : Parent[x] # NoObj => Parent[x] \in S

(* o, its parent, the parent of its parent and so on.                      *)
Ancestors ==
    [o \in Obj |->
        {a \in Obj : \A S \in SUBSET Obj : o \in S /\ Closed(S) => a \in S}]

AncestorsOrSelf(o) == Ancestors[o]

(* The objects below o, including o itself.                                *)
Subtree(o) == {x \in Obj : o \in AncestorsOrSelf(x)}

(* An object without relatives and rand_vec members.                       *)
Standalone(o) ==
    /\ Parent[o] = NoObj
    /\ \A x \in Obj : Parent[x] # o
    /\ \A v \in Vec : VecOwner[v] # o

(* Programs add to an object after its constructor only if it stands alone *)
(* (test_Constraint_Management and the examples declare everything else in *)
(* constructors).                                                          *)
ASSUME LateAssumption == \A c \in Late : Standalone(Owner[c])
==============================================================================
