-------------------------- MODULE VectorGenerator --------------------------
(***************************************************************************)
(* The generation of the vectors, the second half of Generator::next() and *)
(* Generator::nextCov().  Each vector with constraints has a solver, which *)
(* builds a formula for the size found by the variable generator: a        *)
(* foreach is instantiated for every index at which all of its subscripts  *)
(* are in the vector, a unique is an inequality for every pair of          *)
(* elements.                                                               *)
(*                                                                         *)
(* The element variables are created one bit wide and get the width of the *)
(* vector when a foreach accesses them (ReplaceVisitor); the metaSMT       *)
(* visitor gives a variable the width it has when it is first met, that    *)
(* is, when the first formula with it is asserted.                         *)
(***************************************************************************)
EXTENDS Integers, Sequences, FiniteSets

CONSTANTS
    Vec,             \* ids of the vectors
    Value,           \* values of an element
    NarrowValue,     \* the values that an element one bit wide can take
    Size,            \* Size[v]: the sizes that the variable generator may find for v
    vec_ids,         \* the vectors that are members of the object
    ConstraintLists  \* lists of vector constraints that reset() may be called with

ASSUME VecAssumption == Vec \subseteq Nat /\ vec_ids \subseteq Vec
ASSUME SizeAssumption == \A v \in Vec : Size[v] \subseteq Nat
ASSUME NarrowAssumption == NarrowValue \subseteq Value

(* offsets: the k of the subscripts _i + k; sat[j]: what the constraint    *)
(* says of the elements at these offsets when _i is j.                     *)
IsVectorConstraint(c) ==
    /\ c.vec \in Vec /\ c.soft \in BOOLEAN /\ c.unique \in BOOLEAN
    /\ c.offsets \subseteq Int
    /\ \A j \in UNION {Size[v] : v \in Vec} : c.sat[j] \subseteq [c.offsets -> Value]
ASSUME ListsAssumption ==
    \A cs \in ConstraintLists : \A p \in 1..Len(cs) : IsVectorConstraint(cs[p])

VARIABLES
    constraints,  \* the argument of the last reset()
    wide,         \* wide[v]: elements of v whose variable has the width of the vector
    size,         \* size[v]: the size of v in the present or last call
    real_vec,     \* real_vec[v]: the elements that the user sees
    todo,         \* vectors not yet generated in the call
    pc, ret

vars == <<constraints, wide, size, real_vec, todo, pc, ret>>

Constrained == {constraints[p].vec : p \in 1..Len(constraints)}
Elements(n) == 0..(n - 1)

(* The constraints of the solver of v, in the order of addConstraint(), by *)
(* their places in the list; the foreach among them.                       *)
Of(v) == {p \in 1..Len(constraints) : constraints[p].vec = v}
ForEachs(v) == {p \in Of(v) : ~constraints[p].unique}
-----------------------------------------------------------------------------
(***************************************************************************)
(* The formula of a vector of n elements.                                  *)
(***************************************************************************)
(* The indices at which all subscripts are in the vector (okay()).         *)
Instances(c, n) ==
    {j \in Elements(n) : \A k \in c.offsets : j + k \in Elements(n)}

(* The elements whose variable a foreach gives the right width, and those  *)
(* that occur in its instances.                                            *)
Accessed(c, n) == {j + k : j \in Elements(n), k \in c.offsets} \intersect Elements(n)
Used(c, n) == {j + k : j \in Instances(c, n), k \in c.offsets}
Mentioned(c, n) ==
    IF c.unique THEN (IF n > 1 THEN Elements(n) ELSE {}) ELSE Used(c, n)

(* Before the constraint at place p is added.                              *)
WideBefore(v, p) ==
    (wide[v] \intersect Elements(size[v])) \union
        UNION {Accessed(constraints[q], size[v]) : q \in {r \in ForEachs(v) : r < p}}
MetBefore(v, p) == UNION {Mentioned(constraints[q], size[v]) : q \in {r \in Of(v) : r < p}}
End == Len(constraints) + 1

(* The elements that solver_ first meets while they are one bit wide.      *)
Narrow(v) ==
    UNION {Mentioned(constraints[p], size[v]) \ (MetBefore(v, p) \union WideBefore(v, p)) :
              p \in Of(v) \ ForEachs(v)}

(* A formula that relates variables of different widths.                   *)
IllTyped(v) ==
    /\ Narrow(v) # {}
    /\ \/ Narrow(v) # Elements(size[v])
       \/ \E p \in ForEachs(v) : Used(constraints[p], size[v]) \intersect Narrow(v) # {}

Holds(c, f, n) ==
    IF c.unique THEN \A j, l \in Elements(n) : j # l => f[j] # f[l]
    ELSE \A j \in Instances(c, n) : [k \in c.offsets |-> f[j + k]] \in c.sat[j]

Solutions(P, n) == {f \in [Elements(n) -> Value] : \A p \in P : Holds(constraints[p], f, n)}
Hards(v) == {p \in Of(v) : ~constraints[p].soft}
Fitting(v, P) ==
    {f \in Solutions(P, size[v]) : \A j \in Narrow(v) : f[j] \in NarrowValue}

(* Mutant: no second attempt without the soft constraints.                 *)
ModelsWithSofts(v) == Fitting(v, Of(v))

(* solve(false) || solve(true): with all soft constraints or without any.  *)
Models(v) == IF Fitting(v, Of(v)) # {} THEN Fitting(v, Of(v)) ELSE Fitting(v, Hards(v))

AsSeq(f, n) == [j \in 1..n |-> f[j - 1]]
-----------------------------------------------------------------------------
Init ==
    /\ constraints = <<>>
    /\ wide = [v \in Vec |-> {}]
    /\ size = [v \in Vec |-> 0]
    /\ real_vec = [v \in Vec |-> <<>>]
    /\ todo = {}
    /\ pc = "idle"
    /\ ret = "none"

Reset(cs) ==
    /\ pc = "idle"
    /\ constraints' = cs
    /\ wide' = [v \in Vec |-> {}]
    /\ ret' = "none"
    /\ UNCHANGED <<size, real_vec, todo, pc>>

(* The variable generator has found the sizes s; solve() begins.           *)
BeginSolve(s) ==
    /\ pc = "idle"
    /\ size' = s
    /\ todo' = Constrained
    /\ pc' = "constrained"
    /\ ret' = "none"
    /\ UNCHANGED <<constraints, wide, real_vec>>

(* The solvers are called in the order of the ids of their vectors.        *)
IsNext(v) == v \in todo /\ \A u \in todo : v <= u

(* Mutant: readVector() takes what it finds in the vector already.         *)
VectorSolvedKeep(v, f) ==
    /\ pc = "constrained"
    /\ IsNext(v)
    /\ ~IllTyped(v)
    /\ wide' = [wide EXCEPT ![v] = WideBefore(v, End)]
    /\ todo' = todo \ {v}
    /\ UNCHANGED <<constraints, size, real_vec, pc, ret>>

(* readVector() does nothing if solver_ has not met some element.          *)
VectorSolved(v, f) ==
    /\ pc = "constrained"
    /\ IsNext(v)
    /\ ~IllTyped(v)
    /\ real_vec' = IF MetBefore(v, End) = Elements(size[v])
                   THEN [real_vec EXCEPT ![v] = AsSeq(f, size[v])] ELSE real_vec
    /\ wide' = [wide EXCEPT ![v] = WideBefore(v, End)]
    /\ todo' = todo \ {v}
    /\ UNCHANGED <<constraints, size, pc, ret>>

VectorFails(v) ==
    /\ pc = "constrained"
    /\ IsNext(v)
    /\ ~IllTyped(v)
    /\ Models(v) = {}
    /\ wide' = [wide EXCEPT ![v] = WideBefore(v, End)]
    /\ pc' = "idle"
    /\ ret' = "false"
    /\ UNCHANGED <<constraints, size, real_vec, todo>>

(* The backend does not take an ill-typed formula.                         *)
Abort(v) ==
    /\ pc = "constrained"
    /\ IsNext(v)
    /\ IllTyped(v)
    /\ pc' = "aborted"
    /\ UNCHANGED <<constraints, wide, size, real_vec, todo, ret>>

BeginUnconstrained ==
    /\ pc = "constrained"
    /\ todo = {}
    /\ todo' = vec_ids \ Constrained
    /\ pc' = "unconstrained"
    /\ UNCHANGED <<constraints, wide, size, real_vec, ret>>

(* gen_values(): any values.                                               *)
GenValues(v, f) ==
    /\ pc = "unconstrained"
    /\ IsNext(v)
    /\ real_vec' = [real_vec EXCEPT ![v] = AsSeq(f, size[v])]
    /\ todo' = todo \ {v}
    /\ UNCHANGED <<constraints, wide, size, pc, ret>>

Return ==
    /\ pc = "unconstrained"
    /\ todo = {}
    /\ pc' = "idle"
    /\ ret' = "true"
    /\ UNCHANGED <<constraints, wide, size, real_vec, todo>>

Next ==
    \/ \E cs \in ConstraintLists : Reset(cs)
    \/ \E s \in {t \in [Vec -> UNION {Size[v] : v \in Vec}] : \A v \in Vec : t[v] \in Size[v]} :
          BeginSolve(s)
    \/ \E v \in todo :
          \/ \E f \in Models(v) : VectorSolved(v, f)
          \/ VectorFails(v)
          \/ Abort(v)
          \/ \E f \in [Elements(size[v]) -> Value] : GenValues(v, f)
    \/ BeginUnconstrained
    \/ Return

Spec == Init /\ [][Next]_vars
-----------------------------------------------------------------------------
(* The state has its types: the width of a variable is set only for        *)
(* elements the vector has.                                                *)
TypeOK ==
    /\ constraints \in ConstraintLists \union {<<>>}
    /\ wide \in [Vec -> SUBSET Nat]
    /\ size \in [Vec -> Nat]
    /\ real_vec \in [Vec -> Seq(Value)]
    /\ todo \subseteq Vec
    /\ pc \in {"idle", "constrained", "unconstrained", "aborted"}
    /\ ret \in {"none", "true", "false"}
    /\ ret = "true" => \A v \in Constrained : wide[v] \subseteq Elements(size[v])

Generated == Constrained \union vec_ids
Contents(v) == [j \in Elements(Len(real_vec[v])) |-> real_vec[v][j + 1]]

(* Every element of the vector occurs in an instance of a foreach, as with *)
(* a foreach over x[_i] alone.  Without that the elements a unique speaks  *)
(* of stay one bit wide, and those in no formula are not read back.        *)
Named(v) == UNION {Used(constraints[p], size[v]) : p \in ForEachs(v)} = Elements(size[v])

(* When solve() returns true each vector, unconstrained or with elements   *)
(* named by a foreach, has the size that the variable generator has found  *)
(* and satisfies its hard constraints, and the soft ones too if they can   *)
(* all be satisfied, whatever the sizes and contents of earlier calls and  *)
(* whatever was reset in between ("the variables are set according to the  *)
(* solution").                                                             *)
VectorsValid ==
    ret = "true" =>
        \A v \in Generated :
            (v \in Constrained => Named(v)) =>
                /\ Len(real_vec[v]) = size[v]
                /\ Contents(v) \in Solutions(Hards(v), size[v])
                /\ Solutions(Of(v), size[v]) # {} => Contents(v) \in Solutions(Of(v), size[v])

(* When solve() returns false there is a vector, the first one left, whose *)
(* hard constraints no values of its elements satisfy, or some of whose    *)
(* elements no foreach names ("the next solution can be found if there is  *)
(* a combination of values that meet all defined constraints").            *)
FailureJustified ==
    ret = "false" =>
        \E v \in todo : IsNext(v) /\ (Named(v) => Solutions(Hards(v), size[v]) = {})
=============================================================================
