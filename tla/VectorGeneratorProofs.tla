----------------------- MODULE VectorGeneratorProofs -----------------------
(***************************************************************************)
(* Proofs about VectorGenerator, for every set of vectors, values and      *)
(* sizes and all lists of constraints.                                     *)
(***************************************************************************)
EXTENDS VectorGenerator, TLAPS

(***************************************************************************)
(* The inductive invariant.                                                *)
(***************************************************************************)
(* The vector v is as it must be when solve() returns.                     *)
Valid(v) ==
    /\ Len(real_vec[v]) = size[v]
    /\ Contents(v) \in Solutions(Hards(v), size[v])
    /\ Solutions(Of(v), size[v]) # {} => Contents(v) \in Solutions(Of(v), size[v])

(* The vectors that the call has dealt with; after the last one all.       *)
Done ==
    IF pc = "constrained" THEN Constrained \ todo
    ELSE IF pc = "unconstrained" THEN Generated \ todo
    ELSE IF ret = "true" THEN Generated ELSE {}

(* They are valid, and their elements have the widths of this call: no     *)
(* later step of the call touches them.                                    *)
DoneValid == \A v \in Done : (v \in Constrained => Named(v)) => Valid(v)
DoneWide == \A v \in Done \intersect Constrained : wide[v] \subseteq Elements(size[v])

(* The constrained vectors come first.                                     *)
Turns ==
    /\ pc = "constrained" => todo \subseteq Constrained
    /\ pc = "unconstrained" => todo \subseteq vec_ids \ Constrained
    /\ pc \in {"constrained", "unconstrained"} => ret = "none"

Types ==
    /\ constraints \in ConstraintLists \union {<<>>}
    /\ wide \in [Vec -> SUBSET Nat]
    /\ size \in [Vec -> Nat]
    /\ real_vec \in [Vec -> Seq(Value)]
    /\ todo \subseteq Vec
    /\ pc \in {"idle", "constrained", "unconstrained", "aborted"}
    /\ ret \in {"none", "true", "false"}

IInv == Types /\ Turns /\ DoneValid /\ DoneWide /\ FailureJustified

(***************************************************************************)
(* Facts about the constraints and their formula.                          *)
(***************************************************************************)
LEMMA ConstrainedVec == Types => Constrained \subseteq Vec
  <1> SUFFICES ASSUME Types, NEW p \in 1..Len(constraints) PROVE constraints[p].vec \in Vec
    BY DEF Constrained
  <1>1. CASE constraints \in ConstraintLists
    BY <1>1, ListsAssumption DEF IsVectorConstraint
  <1>2. CASE constraints = <<>>
    BY <1>2
  <1> QED BY <1>1, <1>2 DEF Types

LEMMA GeneratedVec == Types => Generated \subseteq Vec
  BY ConstrainedVec, VecAssumption DEF Generated

(* If a foreach names every element, none that solver_ meets may be one    *)
(* bit wide, or the formula relates variables of different widths.         *)
LEMMA NamedWide ==
    ASSUME NEW v, Named(v), ~IllTyped(v)
    PROVE  Narrow(v) = {}
  <1> SUFFICES ASSUME NEW j \in Narrow(v) PROVE FALSE
    OBVIOUS
  <1>1. Narrow(v) = Elements(size[v])
    BY DEF IllTyped
  <1>2. PICK p \in ForEachs(v) : j \in Used(constraints[p], size[v])
    BY <1>1 DEF Named
  <1> QED BY <1>2 DEF IllTyped

(* And solver_ has met them all.                                           *)
LEMMA NamedMet ==
    ASSUME Types, NEW v \in Vec, Named(v)
    PROVE  MetBefore(v, End) = Elements(size[v])
  <1>1. \A p \in Of(v) : Mentioned(constraints[p], size[v]) \subseteq Elements(size[v])
    BY DEF Mentioned, Used, Instances
  <1>2. MetBefore(v, End) \subseteq Elements(size[v])
    BY <1>1 DEF MetBefore
  <1>3. ASSUME NEW j \in Elements(size[v]) PROVE j \in MetBefore(v, End)
    <2>1. PICK p \in ForEachs(v) : j \in Used(constraints[p], size[v])
      BY <1>3 DEF Named
    <2>2. p \in Of(v) /\ ~constraints[p].unique
      BY DEF ForEachs
    <2>3. p < End
      BY <2>2 DEF Of, End
    <2>4. j \in Mentioned(constraints[p], size[v])
      BY <2>1, <2>2 DEF Mentioned
    <2> QED BY <2>2, <2>3, <2>4 DEF MetBefore
  <1> QED BY <1>2, <1>3

LEMMA WideFacts ==
    ASSUME Types, NEW v \in Vec, NEW p
    PROVE  WideBefore(v, p) \subseteq Elements(size[v]) /\ WideBefore(v, p) \subseteq Nat
  <1>1. size[v] \in Nat
    BY DEF Types
  <1>2. WideBefore(v, p) \subseteq Elements(size[v])
    BY DEF WideBefore, Accessed
  <1> QED BY <1>1, <1>2 DEF Elements

LEMMA SolutionFacts ==
    ASSUME NEW v
    PROVE  /\ Solutions(Of(v), size[v]) \subseteq Solutions(Hards(v), size[v])
           /\ \A P : Solutions(P, size[v]) \subseteq [Elements(size[v]) -> Value]
  BY DEF Solutions, Hards

(* The values that the user sees are those of the model.                   *)
LEMMA ReadBack ==
    ASSUME NEW n \in Nat, NEW f \in [Elements(n) -> Value]
    PROVE  /\ AsSeq(f, n) \in Seq(Value) /\ Len(AsSeq(f, n)) = n
           /\ [j \in Elements(Len(AsSeq(f, n))) |-> AsSeq(f, n)[j + 1]] = f
  <1>1. \A j \in 1..n : j - 1 \in Elements(n)
    BY DEF Elements
  <1>2. AsSeq(f, n) \in [1..n -> Value]
    BY <1>1 DEF AsSeq
  <1>3. AsSeq(f, n) \in Seq(Value) /\ Len(AsSeq(f, n)) = n
    BY <1>2
  <1>4. \A j \in Elements(n) : j + 1 \in 1..n /\ (j + 1) - 1 = j
    BY DEF Elements
  <1>5. \A j \in Elements(n) : AsSeq(f, n)[j + 1] = f[j]
    BY <1>4 DEF AsSeq
  <1>6. [j \in Elements(n) |-> AsSeq(f, n)[j + 1]] = f
    BY <1>5
  <1> QED BY <1>3, <1>6

(***************************************************************************)
(* Steps.  The constraints and the sizes decide what a vector must be.     *)
(***************************************************************************)
LEMMA FormulaKept ==
    ASSUME constraints' = constraints, size' = size
    PROVE  /\ Constrained' = Constrained /\ Generated' = Generated
           /\ \A v : Of(v)' = Of(v) /\ Hards(v)' = Hards(v) /\ Named(v)' = Named(v)
           /\ \A P, n : Solutions(P, n)' = Solutions(P, n)
  <1>1. Constrained' = Constrained /\ Generated' = Generated
    BY DEF Constrained, Generated
  <1>2. \A v : Of(v)' = Of(v) /\ Hards(v)' = Hards(v)
    BY DEF Of, Hards
  <1>3. \A v : Named(v)' = Named(v)
    BY DEF Named, ForEachs, Of
  <1>4. \A P, n : Solutions(P, n)' = Solutions(P, n)
    BY DEF Solutions
  <1> QED BY <1>1, <1>2, <1>3, <1>4

LEMMA ValidKept ==
    ASSUME constraints' = constraints, size' = size, NEW v, real_vec'[v] = real_vec[v]
    PROVE  Valid(v)' = Valid(v)
  <1>1. Contents(v)' = Contents(v)
    BY DEF Contents
  <1> QED BY <1>1, FormulaKept DEF Valid

LEMMA InitInv == Init => IInv
  <1> SUFFICES ASSUME Init PROVE IInv
    OBVIOUS
  <1> USE DEF Init
  <1>1. Types
    BY DEF Types
  <1>2. Done = {}
    BY DEF Done
  <1> QED BY <1>1, <1>2 DEF IInv, Turns, DoneValid, DoneWide, FailureJustified

LEMMA ResetKeeps ==
    ASSUME IInv, NEW cs \in ConstraintLists, Reset(cs)
    PROVE  IInv'
  <1> USE DEF Reset
  <1>1. Types'
    BY DEF IInv, Types
  <1>2. Done' = {}
    BY DEF Done
  <1> QED BY <1>1, <1>2 DEF IInv, Turns, DoneValid, DoneWide, FailureJustified

LEMMA BeginSolveKeeps ==
    ASSUME IInv, NEW s \in [Vec -> UNION {Size[v] : v \in Vec}], \A v \in Vec : s[v] \in Size[v],
           BeginSolve(s)
    PROVE  IInv'
  <1> USE DEF BeginSolve
  <1>1. s \in [Vec -> Nat]
    BY SizeAssumption
  <1>2. Types' /\ Constrained' = Constrained
    BY <1>1, ConstrainedVec DEF IInv, Types, Constrained
  <1>3. Done' = {}
    BY <1>2 DEF Done
  <1> QED BY <1>2, <1>3 DEF IInv, Turns, DoneValid, DoneWide, FailureJustified

(* A model of the formula makes the vector valid.                          *)
LEMMA SolvedValid ==
    ASSUME IInv, NEW v \in todo, NEW f \in Models(v), VectorSolved(v, f), Named(v)
    PROVE  Valid(v)'
  <1>1. Types /\ v \in Vec /\ size[v] \in Nat /\ real_vec \in [Vec -> Seq(Value)]
    BY DEF IInv, Types
  <1>2. Narrow(v) = {}
    BY NamedWide DEF VectorSolved
  <1>3. \A P : Fitting(v, P) = Solutions(P, size[v])
    BY <1>2 DEF Fitting
  <1>4. /\ f \in Solutions(Hards(v), size[v])
        /\ Solutions(Of(v), size[v]) # {} => f \in Solutions(Of(v), size[v])
        /\ f \in [Elements(size[v]) -> Value]
    BY <1>3, SolutionFacts DEF Models
  <1>5. real_vec'[v] = AsSeq(f, size[v])
    BY <1>1, NamedMet DEF VectorSolved
  <1>6. Len(real_vec'[v]) = size[v] /\ Contents(v)' = f
    BY <1>1, <1>4, <1>5, ReadBack DEF Contents
  <1>7. constraints' = constraints /\ size' = size
    BY DEF VectorSolved
  <1> QED BY <1>4, <1>6, <1>7, FormulaKept DEF Valid

LEMMA VectorSolvedKeeps ==
    ASSUME IInv, NEW v \in todo, NEW f \in Models(v), VectorSolved(v, f)
    PROVE  IInv'
  <1>1. constraints' = constraints /\ size' = size /\ UNCHANGED <<pc, ret>> /\ pc = "constrained"
        /\ todo' = todo \ {v} /\ wide' = [wide EXCEPT ![v] = WideBefore(v, End)]
    BY DEF VectorSolved
  <1>2. Types /\ v \in Vec /\ size[v] \in Nat /\ ret = "none" /\ v \in Constrained
    BY <1>1 DEF IInv, Types, Turns
  <1>3. Types'
    <2>1. wide' \in [Vec -> SUBSET Nat]
      BY <1>1, <1>2, WideFacts DEF Types
    <2>2. f \in [Elements(size[v]) -> Value]
      BY DEF Models, Fitting, Solutions
    <2>3. real_vec' \in [Vec -> Seq(Value)]
      BY <1>2, <2>2, ReadBack DEF Types, VectorSolved
    <2> QED BY <1>1, <1>2, <2>1, <2>3 DEF Types
  <1>4. Turns' /\ FailureJustified'
    BY <1>1, <1>2, FormulaKept DEF IInv, Turns, FailureJustified
  <1>5. Done' = Done \union {v}
    BY <1>1, <1>2, FormulaKept DEF Done
  <1>6. \A u \in Vec \ {v} : real_vec'[u] = real_vec[u] /\ wide'[u] = wide[u]
    BY <1>2 DEF VectorSolved, Types
  <1>7. Done \subseteq Vec /\ v \notin Done
    BY <1>1, <1>2, ConstrainedVec DEF Done
  <1>8. DoneValid'
    <2> SUFFICES ASSUME NEW u \in Done \union {v}, u \in Constrained => Named(u)
                 PROVE  Valid(u)'
      BY <1>1, <1>5, FormulaKept DEF DoneValid
    <2>1. CASE u = v
      BY <1>2, <2>1, SolvedValid
    <2>2. CASE u \in Done
      BY <1>1, <1>6, <1>7, <2>2, ValidKept DEF IInv, DoneValid
    <2> QED BY <2>1, <2>2
  <1>9. DoneWide'
    <2>1. wide'[v] \subseteq Elements(size[v])
      BY <1>1, <1>2, WideFacts DEF Types
    <2> QED BY <1>1, <1>5, <1>6, <1>7, <2>1, FormulaKept DEF IInv, DoneWide
  <1> QED BY <1>3, <1>4, <1>8, <1>9 DEF IInv

LEMMA VectorFailsKeeps ==
    ASSUME IInv, NEW v \in todo, VectorFails(v)
    PROVE  IInv'
  <1>1. constraints' = constraints /\ size' = size /\ UNCHANGED <<real_vec, todo>>
        /\ wide' = [wide EXCEPT ![v] = WideBefore(v, End)] /\ pc' = "idle" /\ ret' = "false"
    BY DEF VectorFails
  <1>2. Types /\ v \in Vec
    BY DEF IInv, Types
  <1>3. Types'
    <2>1. wide' \in [Vec -> SUBSET Nat]
      BY <1>1, <1>2, WideFacts DEF Types
    <2> QED BY <1>1, <1>2, <2>1 DEF Types
  <1>4. Done' = {}
    BY <1>1 DEF Done
  <1>5. FailureJustified'
    <2>1. ASSUME Named(v) PROVE Solutions(Hards(v), size[v]) = {}
      <3>1. Narrow(v) = {}
        BY <2>1, NamedWide DEF VectorFails
      <3>2. Fitting(v, Hards(v)) = Solutions(Hards(v), size[v])
        BY <3>1 DEF Fitting
      <3> QED BY <3>2 DEF VectorFails, Models
    <2>2. IsNext(v)'
      BY <1>1 DEF VectorFails, IsNext
    <2> QED BY <1>1, <2>1, <2>2, FormulaKept DEF FailureJustified
  <1> QED BY <1>1, <1>3, <1>4, <1>5 DEF IInv, Turns, DoneValid, DoneWide

LEMMA AbortKeeps ==
    ASSUME IInv, NEW v \in todo, Abort(v)
    PROVE  IInv'
  <1> USE DEF Abort
  <1>1. Types' /\ ret' = "none" /\ pc' = "aborted"
    BY DEF IInv, Types, Turns
  <1>2. Done' = {}
    BY <1>1 DEF Done
  <1> QED BY <1>1, <1>2 DEF IInv, Turns, DoneValid, DoneWide, FailureJustified

LEMMA GenValuesKeeps ==
    ASSUME IInv, NEW v \in todo, NEW f \in [Elements(size[v]) -> Value], GenValues(v, f)
    PROVE  IInv'
  <1>1. constraints' = constraints /\ size' = size /\ UNCHANGED <<wide, pc, ret>>
        /\ pc = "unconstrained" /\ todo' = todo \ {v}
        /\ real_vec' = [real_vec EXCEPT ![v] = AsSeq(f, size[v])]
    BY DEF GenValues
  <1>2. Types /\ v \in Vec /\ size[v] \in Nat /\ ret = "none" /\ v \in vec_ids \ Constrained
    BY <1>1 DEF IInv, Types, Turns
  <1>3. AsSeq(f, size[v]) \in Seq(Value) /\ Len(AsSeq(f, size[v])) = size[v]
    BY <1>2, ReadBack
  <1>4. Types'
    <2>1. real_vec' \in [Vec -> Seq(Value)]
      BY <1>1, <1>2, <1>3 DEF Types
    <2> QED BY <1>1, <1>2, <2>1 DEF Types
  <1>5. Turns' /\ FailureJustified'
    BY <1>1, <1>2, FormulaKept DEF IInv, Turns, FailureJustified
  <1>6. Done' = Done \union {v}
    BY <1>1, <1>2, FormulaKept DEF Done, Generated
  <1>7. Done \subseteq Vec /\ v \notin Done
    BY <1>1, <1>2, GeneratedVec DEF Done
  <1>8. Valid(v)'
    <2>1. real_vec'[v] = AsSeq(f, size[v])
      BY <1>1, <1>2 DEF Types
    <2>2. Contents(v)' = f
      BY <1>2, <2>1, ReadBack DEF Contents
    <2>3. Of(v) = {} /\ Hards(v) = {}
      BY <1>2 DEF Of, Hards, Constrained
    <2>4. f \in Solutions({}, size[v])
      BY DEF Solutions
    <2> QED BY <1>1, <1>3, <2>1, <2>2, <2>3, <2>4, FormulaKept DEF Valid
  <1>9. DoneValid'
    <2> SUFFICES ASSUME NEW u \in Done \union {v}, u \in Constrained => Named(u)
                 PROVE  Valid(u)'
      BY <1>1, <1>6, FormulaKept DEF DoneValid
    <2>1. CASE u \in Done
      <3>1. real_vec'[u] = real_vec[u]
        BY <1>1, <1>2, <1>7, <2>1 DEF Types
      <3> QED BY <1>1, <2>1, <3>1, ValidKept DEF IInv, DoneValid
    <2> QED BY <1>8, <2>1
  <1>10. DoneWide'
    BY <1>1, <1>2, <1>6, FormulaKept DEF IInv, DoneWide
  <1> QED BY <1>4, <1>5, <1>9, <1>10 DEF IInv

LEMMA BeginUnconstrainedKeeps == IInv /\ BeginUnconstrained => IInv'
  <1> SUFFICES ASSUME IInv, BeginUnconstrained PROVE IInv'
    OBVIOUS
  <1>1. constraints' = constraints /\ size' = size /\ UNCHANGED <<wide, real_vec, ret>>
        /\ pc = "constrained" /\ pc' = "unconstrained"
        /\ todo = {} /\ todo' = vec_ids \ Constrained
    BY DEF BeginUnconstrained
  <1>2. Types' /\ ret = "none"
    BY <1>1, VecAssumption DEF IInv, Types, Turns
  <1>3. Turns' /\ FailureJustified'
    BY <1>1, <1>2, FormulaKept DEF Turns, FailureJustified
  <1>4. Done' = Done
    BY <1>1, FormulaKept DEF Done, Generated
  <1>5. DoneValid' /\ DoneWide'
    BY <1>1, <1>4, FormulaKept, ValidKept DEF IInv, DoneValid, DoneWide
  <1> QED BY <1>2, <1>3, <1>5 DEF IInv

LEMMA ReturnKeeps == IInv /\ Return => IInv'
  <1> SUFFICES ASSUME IInv, Return PROVE IInv'
    OBVIOUS
  <1>1. constraints' = constraints /\ size' = size /\ UNCHANGED <<wide, real_vec, todo>>
        /\ pc = "unconstrained" /\ pc' = "idle" /\ todo = {} /\ ret' = "true"
    BY DEF Return
  <1>2. Types'
    BY <1>1 DEF IInv, Types
  <1>3. Turns' /\ FailureJustified'
    BY <1>1 DEF Turns, FailureJustified
  <1>4. Done' = Done
    BY <1>1, FormulaKept DEF Done
  <1>5. DoneValid' /\ DoneWide'
    BY <1>1, <1>4, FormulaKept, ValidKept DEF IInv, DoneValid, DoneWide
  <1> QED BY <1>2, <1>3, <1>5 DEF IInv

(***************************************************************************)
(* The invariant, and what follows from it.                                *)
(***************************************************************************)
LEMMA NextKeeps == IInv /\ [Next]_vars => IInv'
  <1> SUFFICES ASSUME IInv, [Next]_vars PROVE IInv'
    OBVIOUS
  <1>1. CASE \E cs \in ConstraintLists : Reset(cs)
    BY <1>1, ResetKeeps
  <1>2. CASE \E s \in {t \in [Vec -> UNION {Size[v] : v \in Vec}] :
                          \A v \in Vec : t[v] \in Size[v]} : BeginSolve(s)
    BY <1>2, BeginSolveKeeps
  <1>3. ASSUME NEW v \in todo, \E f \in Models(v) : VectorSolved(v, f) PROVE IInv'
    BY <1>3, VectorSolvedKeeps
  <1>4. ASSUME NEW v \in todo, VectorFails(v) PROVE IInv'
    BY <1>4, VectorFailsKeeps
  <1>5. ASSUME NEW v \in todo, Abort(v) PROVE IInv'
    BY <1>5, AbortKeeps
  <1>6. ASSUME NEW v \in todo, \E f \in [Elements(size[v]) -> Value] : GenValues(v, f)
        PROVE  IInv'
    BY <1>6, GenValuesKeeps
  <1>7. CASE BeginUnconstrained
    BY <1>7, BeginUnconstrainedKeeps
  <1>8. CASE Return
    BY <1>8, ReturnKeeps
  <1>9. CASE UNCHANGED vars
    <2>1. constraints' = constraints /\ size' = size /\ UNCHANGED <<wide, real_vec, todo, pc, ret>>
      BY <1>9 DEF vars
    <2>2. Types' /\ Turns' /\ Done' = Done
      BY <2>1, FormulaKept DEF IInv, Types, Turns, Done
    <2>3. DoneValid' /\ DoneWide'
      BY <2>1, <2>2, FormulaKept, ValidKept DEF IInv, DoneValid, DoneWide
    <2>4. FailureJustified'
      BY <2>1, FormulaKept DEF IInv, FailureJustified, IsNext
    <2> QED BY <2>2, <2>3, <2>4 DEF IInv
  <1> QED BY <1>1, <1>2, <1>3, <1>4, <1>5, <1>6, <1>7, <1>8, <1>9 DEF Next

LEMMA IInvAlways == Spec => []IInv
  BY InitInv, NextKeeps, PTL DEF Spec

(* The state has its types, and after a success a width has been set only  *)
(* for elements that the vector has.                                       *)
THEOREM TypeCorrect == Spec => []TypeOK
  <1>1. IInv => TypeOK
    <2> SUFFICES ASSUME IInv PROVE TypeOK
      OBVIOUS
    <2>1. ASSUME ret = "true" PROVE \A v \in Constrained : wide[v] \subseteq Elements(size[v])
      BY <2>1 DEF IInv, DoneWide, Done, Turns, Generated
    <2> QED BY <2>1 DEF IInv, Types, TypeOK
  <1> QED BY <1>1, IInvAlways, PTL

(* When solve() returns true every vector whose elements a foreach names,  *)
(* and every unconstrained one, has the size that was found for it and     *)
(* satisfies its constraints, after any history of sizes and resets.       *)
THEOREM VectorsValidAlways == Spec => []VectorsValid
  <1>1. IInv => VectorsValid
    BY DEF IInv, Turns, DoneValid, Done, Valid, VectorsValid
  <1> QED BY <1>1, IInvAlways, PTL

(* solve() returns false only for a vector whose hard constraints cannot   *)
(* be satisfied, or with elements that no foreach names.                   *)
THEOREM FailureJustifiedAlways == Spec => []FailureJustified
  <1>1. IInv => FailureJustified
    BY DEF IInv
  <1> QED BY <1>1, IInvAlways, PTL
=============================================================================
