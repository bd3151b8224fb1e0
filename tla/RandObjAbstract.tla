--------------------------- MODULE RandObjAbstract ---------------------------
(***************************************************************************)
(* What rand_obj promises: each randomization of an object solves exactly  *)
(* the constraints that are enabled at that moment in the object and in    *)
(* everything below it, and generates the vectors found there.  There are  *)
(* no generators, partitions or flags here.                                *)
(***************************************************************************)
EXTENDS RandObjTree

VARIABLES
    objs,      \* objects constructed so far
    declared,  \* constraints declared so far
    enabled,   \* constraints that are enabled
    last       \* the last randomization

absvars == <<objs, declared, enabled, last>>

EnabledUnder(o) == {c \in enabled : Owner[c] \in Subtree(o)}
VecsUnder(o) == {v \in Vec : VecOwner[v] \in Subtree(o) \intersect objs}

NoRandomization == [obj |-> NoObj, constraints |-> {}, vectors |-> {}]

Init ==
    /\ objs = {}
    /\ declared = {}
    /\ enabled = {}
    /\ last = NoRandomization

Construct(o) ==
    /\ o \notin objs
    /\ Parent[o] # NoObj => Parent[o] \in objs
    /\ objs' = objs \union {o}
    /\ LET new == {c \in Constraint \ Late : Owner[c] = o} IN
          /\ declared' = declared \union new
          /\ enabled' = enabled \union new
    /\ last' = last

Declare(c) ==
    /\ Owner[c] \in objs
    /\ c \notin declared
    /\ declared' = declared \union {c}
    /\ enabled' = enabled \union {c}
    /\ UNCHANGED <<objs, last>>

SetEnabled(c, on) ==
    /\ c \in declared
    /\ enabled' = IF on THEN enabled \union {c} ELSE enabled \ {c}
    /\ UNCHANGED <<objs, declared, last>>

Randomize(o) ==
    /\ o \in objs
    /\ last' = [obj |-> o, constraints |-> EnabledUnder(o), vectors |-> VecsUnder(o)]
    /\ UNCHANGED <<objs, declared, enabled>>

Next ==
    \/ \E o \in Obj : Construct(o) \/ Randomize(o)
    \/ \E c \in Constraint : Declare(c) \/ \E on \in BOOLEAN : SetEnabled(c, on)

Spec == Init /\ [][Next]_absvars
==============================================================================
