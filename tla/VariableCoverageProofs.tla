----------------------- MODULE VariableCoverageProofs -----------------------
(***************************************************************************)
(* Proofs about VariableCoverage, for every list of partitions and every   *)
(* set of variables, values and names.                                     *)
(***************************************************************************)
EXTENDS VariableCoverage, FiniteSetTheorems, TLAPS

(***************************************************************************)
(* The inductive invariant.                                                *)
(***************************************************************************)
Places(p) == 1..Len(parts[p])

(* The solver of a partition has met the variables of its hard constraints *)
(* when it is made, and forgets none.                                      *)
KnownMet == \A p \in Parts : Known(p) \subseteq terminals[p]

(* What the call has covered so far lies in partitions that it has left    *)
(* behind, and still holds in memory; it is not touched until the user     *)
(* goes on.                                                                *)
HitsKept ==
    pc \in {"cover", "vectors"} \/ ret = "hit" =>
        /\ \A h \in hit :
              /\ h[1] \in Parts /\ h[1] < k
              /\ h[2] \in Places(h[1])
              /\ mem \in Hitting(h[1], h[2])
        /\ res => hit # {}

Answering ==
    /\ pc = "vectors" => res
    /\ ret = "hit" => pc = "idle" /\ res

(* As long as nothing has been hit, the cover constraints that the call    *)
(* has passed are covered or cannot be hit.                                *)
PassedMissed ==
    pc = "cover" /\ ~res =>
        \A p \in Parts : \A j \in Of(p, "cover") :
            p < k \/ (p = k /\ j < c) =>
                parts[p][j].name \in covered_set[p] \/ Hitting(p, j) = {}

(* The cover constraints, and those whose name has been noted.             *)
Covers == UNION {{p} \X Of(p, "cover") : p \in Parts}
Counted == {x \in Covers : parts[x[1]][x[2]].name \in covered_set[x[1]]}

(* Each call that is answered by a hit has noted a name of its own.        *)
AnswersCounted ==
    answers + (IF pc \in {"cover", "vectors"} /\ res THEN 1 ELSE 0) <= Cardinality(Counted)

IInv ==
    /\ parts \in Program
    /\ TypeOK
    /\ c >= 1
    /\ KnownMet
    /\ HitsKept
    /\ Answering
    /\ PassedMissed
    /\ AnswersCounted

(***************************************************************************)
(* Facts about the partitions.                                             *)
(***************************************************************************)
LEMMA PartFacts ==
    ASSUME parts \in Program, NEW p \in Parts
    PROVE  /\ Len(parts) \in Nat
           /\ Len(parts[p]) \in Nat
           /\ \A j \in Places(p) :
                 /\ parts[p][j].kind \in {"hard", "soft", "cover"}
                 /\ parts[p][j].name \in Name
                 /\ parts[p][j].support \subseteq Var
                 /\ parts[p][j].sat \subseteq Assignment
  <1>1. parts \in Seq(Seq(Constraints))
    BY ProgramAssumption
  <1>2. parts[p] \in Seq(Constraints)
    BY <1>1 DEF Parts
  <1>3. \A j \in Places(p) : parts[p][j] \in Constraints
    BY <1>2 DEF Places
  <1> QED BY <1>1, <1>2, <1>3 DEF Constraints

(* Assignments that agree on the support agree on the constraint.          *)
LEMMA SupportDecides ==
    ASSUME parts \in Program, NEW p \in Parts, NEW j \in Places(p),
           NEW a \in Assignment, NEW b \in Assignment,
           \A v \in parts[p][j].support : a[v] = b[v]
    PROVE  a \in parts[p][j].sat <=> b \in parts[p][j].sat
  BY ProgramAssumption DEF Parts, Places

(* Partitions have no variable in common.                                  *)
LEMMA PartsApart ==
    ASSUME parts \in Program, NEW p \in Parts, NEW q \in Parts, p # q
    PROVE  Support(p) \intersect Support(q) = {}
  <1> SUFFICES ASSUME NEW j \in 1..Len(parts[p]), NEW l \in 1..Len(parts[q]),
                      parts[p][j].support \intersect parts[q][l].support # {}
               PROVE  FALSE
    BY DEF Support
  <1> QED BY ProgramAssumption DEF Parts

LEMMA SupportFacts ==
    ASSUME parts \in Program, NEW p \in Parts
    PROVE  /\ Support(p) \subseteq Var
           /\ Known(p) \subseteq Support(p)
           /\ \A j \in Places(p) : parts[p][j].support \subseteq Support(p)
           /\ \A j \in Of(p, "hard") : parts[p][j].support \subseteq Known(p)
           /\ \A kind : Of(p, kind) \subseteq Places(p)
  BY PartFacts DEF Support, Known, Of, Places

(* Hitting means to satisfy the hard constraints and this one, with the    *)
(* present values of the read references.                                  *)
LEMMA HittingFacts ==
    ASSUME parts \in Program, NEW p \in Parts, NEW j \in Places(p), NEW a
    PROVE  a \in Hitting(p, j) <=>
              /\ a \in Assignment
              /\ \A l \in Of(p, "hard") : a \in parts[p][l].sat
              /\ \A v \in ReadVar \intersect Support(p) : a[v] = mem[v]
              /\ a \in parts[p][j].sat
  BY DEF Hitting, WithReads, Solutions

(* What hits a constraint is decided by the variables of the partition.    *)
LEMMA HitInMemory ==
    ASSUME parts \in Program, NEW p \in Parts, NEW j \in Places(p),
           NEW a \in Hitting(p, j), NEW m \in Assignment,
           \A v \in Known(p) \union parts[p][j].support : m[v] = a[v]
    PROVE  /\ \A l \in Of(p, "hard") : m \in parts[p][l].sat
           /\ m \in parts[p][j].sat
  <1>1. a \in Assignment /\ a \in parts[p][j].sat /\ \A l \in Of(p, "hard") : a \in parts[p][l].sat
    BY HittingFacts
  <1>2. m \in parts[p][j].sat
    BY <1>1, SupportDecides
  <1>3. ASSUME NEW l \in Of(p, "hard") PROVE m \in parts[p][l].sat
    <2>1. l \in Places(p) /\ parts[p][l].support \subseteq Known(p)
      BY SupportFacts
    <2> QED BY <1>1, <2>1, SupportDecides
  <1> QED BY <1>2, <1>3

LEMMA CoversFinite ==
    ASSUME parts \in Program
    PROVE  IsFiniteSet(Covers)
  <1> DEFINE Slice(p) == {p} \X Of(p, "cover")
             Slices == {Slice(p) : p \in Parts}
  <1>1. IsFiniteSet(Parts)
    <2>1. Len(parts) \in Nat
      BY ProgramAssumption
    <2> QED BY <2>1, FS_Interval DEF Parts
  <1>2. IsFiniteSet(Slices)
    <2> DEFINE f == [p \in Parts |-> Slice(p)]
    <2>1. f \in Surjection(Parts, Slices)
      BY DEF Surjection
    <2> QED BY <1>1, <2>1, FS_Surjection
  <1>3. \A T \in Slices : IsFiniteSet(T)
    <2> SUFFICES ASSUME NEW p \in Parts PROVE IsFiniteSet(Slice(p))
      OBVIOUS
    <2>1. IsFiniteSet(Places(p))
      BY PartFacts, FS_Interval DEF Places
    <2>2. IsFiniteSet(Of(p, "cover"))
      BY <2>1, FS_Subset, SupportFacts
    <2>3. IsFiniteSet({p})
      BY FS_Singleton
    <2> QED BY <2>2, <2>3, FS_Product
  <1>4. IsFiniteSet(UNION Slices)
    BY <1>2, <1>3, FS_UNION
  <1> QED BY <1>4 DEF Covers

LEMMA CountedFinite ==
    ASSUME parts \in Program
    PROVE  /\ IsFiniteSet(Counted) /\ Cardinality(Counted) \in Nat
           /\ Cardinality(Counted) <= Cardinality(Covers) /\ Cardinality(Covers) \in Nat
  <1>1. Counted \subseteq Covers
    BY DEF Counted
  <1> QED BY <1>1, CoversFinite, FS_Subset, FS_CardinalityType

(***************************************************************************)
(* Steps.  The partitions never change, and what hits a constraint changes *)
(* with the memory only.                                                   *)
(***************************************************************************)
LEMMA PartsKept ==
    ASSUME parts' = parts
    PROVE  /\ Parts' = Parts
           /\ Covers' = Covers
           /\ \A p : /\ Places(p)' = Places(p)
                     /\ Support(p)' = Support(p)
                     /\ Known(p)' = Known(p)
                     /\ Solutions(p)' = Solutions(p)
                     /\ \A kind : Of(p, kind)' = Of(p, kind)
  BY DEF Parts, Covers, Places, Support, Known, Solutions, Of

(* The type of the next state, in terms of the partitions.                 *)
Typed(C, T, b, m, i, j, r, H, n, at, t) ==
    /\ C \in [Parts -> SUBSET Name]
    /\ \A p \in Parts : C[p] \subseteq {parts[p][l].name : l \in Of(p, "cover")}
    /\ T \in [Parts -> SUBSET Var]
    /\ \A p \in Parts : T[p] \subseteq Support(p)
    /\ b \in BOOLEAN
    /\ m \in [Var -> Value]
    /\ i \in 1..(Len(parts) + 1)
    /\ j \in Nat
    /\ r \in BOOLEAN
    /\ H \subseteq Parts \X Nat
    /\ n \in Nat
    /\ at \in {"idle", "cover", "vectors", "next"}
    /\ t \in {"none", "hit", "next", "false"}

LEMMA TypedNow ==
    TypeOK <=> Typed(covered_set, terminals, covered_, mem, k, c, res, hit, answers, pc, ret)
  BY DEF TypeOK, Typed

LEMMA TypedNext ==
    ASSUME parts' = parts,
           Typed(covered_set', terminals', covered_', mem', k', c', res', hit', answers', pc', ret')
    PROVE  TypeOK'
  <1>1. Parts' = Parts /\ Len(parts') = Len(parts)
    BY PartsKept
  <1>2. /\ covered_set' \in [Parts' -> SUBSET Name]
        /\ terminals' \in [Parts' -> SUBSET Var]
        /\ covered_' \in BOOLEAN
        /\ mem' \in [Var -> Value]
        /\ k' \in 1..(Len(parts') + 1)
        /\ c' \in Nat
        /\ res' \in BOOLEAN
        /\ hit' \subseteq Parts' \X Nat
        /\ answers' \in Nat
        /\ pc' \in {"idle", "cover", "vectors", "next"}
        /\ ret' \in {"none", "hit", "next", "false"}
    BY <1>1 DEF Typed
  <1>3. (\A p \in Parts : covered_set[p] \subseteq {parts[p][j].name : j \in Of(p, "cover")})'
    BY <1>1 DEF Typed, Of
  <1>4. (\A p \in Parts : terminals[p] \subseteq Support(p))'
    BY <1>1, PartsKept DEF Typed
  <1> QED BY <1>2, <1>3, <1>4, Zenon DEF TypeOK

LEMMA HittingKept ==
    ASSUME parts' = parts, mem' = mem
    PROVE  \A p, j : Hitting(p, j)' = Hitting(p, j)
  BY DEF Hitting, WithReads, Solutions, Support, Of

(* The invariant holds when the generator has been built.                  *)
LEMMA InitInv == Init => IInv
  <1> SUFFICES ASSUME Init PROVE IInv
    OBVIOUS
  <1> USE DEF Init
  <1>1. Len(parts) \in Nat
    BY ProgramAssumption
  <1>2. TypeOK
    <2>1. \A p \in Parts : Known(p) \subseteq Support(p) /\ Support(p) \subseteq Var
      BY SupportFacts
    <2>2. terminals \in [Parts -> SUBSET Var]
      BY <2>1
    <2>3. \A p \in Parts : terminals[p] \subseteq Support(p)
      BY <2>1
    <2>4. /\ covered_set \in [Parts -> SUBSET Name]
          /\ \A p \in Parts : covered_set[p] = {}
      OBVIOUS
    <2>5. k \in 1..(Len(parts) + 1) /\ c \in Nat /\ answers \in Nat
      BY <1>1
    <2> QED BY <2>2, <2>3, <2>4, <2>5 DEF TypeOK
  <1>3. KnownMet /\ HitsKept /\ Answering /\ c >= 1
    BY DEF KnownMet, HitsKept, Answering
  <1>4. PassedMissed
    BY DEF PassedMissed
  <1>5. AnswersCounted
    BY CountedFinite DEF AnswersCounted
  <1> QED BY <1>2, <1>3, <1>4, <1>5 DEF IInv

LEMMA ResetKeeps == IInv /\ ResetCoverage => IInv'
  <1> SUFFICES ASSUME IInv, ResetCoverage PROVE IInv'
    OBVIOUS
  <1> USE DEF ResetCoverage
  <1>1. parts' = parts /\ mem' = mem /\ parts \in Program
    BY DEF IInv
  <1>2. TypeOK'
    <2>1. \A p \in Parts : Known(p) \subseteq Support(p) /\ Support(p) \subseteq Var
      BY SupportFacts, <1>1
    <2>2. /\ terminals' \in [Parts -> SUBSET Var]
          /\ \A p \in Parts : terminals'[p] \subseteq Support(p)
      BY <2>1
    <2>3. /\ covered_set' \in [Parts -> SUBSET Name]
          /\ \A p \in Parts : covered_set'[p] = {}
      OBVIOUS
    <2> QED BY <1>1, <2>2, <2>3, TypedNow, TypedNext DEF IInv, Typed
  <1>3. KnownMet'
    BY <1>1, PartsKept DEF KnownMet
  <1>4. HitsKept' /\ Answering' /\ (c >= 1)' /\ PassedMissed'
    BY DEF HitsKept, Answering, PassedMissed, IInv
  <1>5. AnswersCounted'
    <2>1. Cardinality(Counted') \in Nat
      <3>1. Counted' \subseteq Covers
        BY <1>1, PartsKept DEF Counted
      <3> QED BY <3>1, <1>1, CoversFinite, FS_Subset, FS_CardinalityType
    <2> QED BY <2>1 DEF AnswersCounted
  <1> QED BY <1>1, <1>2, <1>3, <1>4, <1>5 DEF IInv

LEMMA AssignKeeps ==
    ASSUME IInv, NEW v \in ReadVar, NEW x \in Value, Assign(v, x)
    PROVE  IInv'
  <1> USE DEF Assign
  <1>1. parts' = parts /\ parts \in Program
    BY DEF IInv
  <1>2. TypeOK'
    <2>1. mem' \in [Var -> Value]
      BY DEF IInv, TypeOK
    <2> QED BY <1>1, <2>1, TypedNow, TypedNext DEF IInv, Typed
  <1>3. KnownMet'
    BY <1>1, PartsKept DEF KnownMet, IInv
  <1>4. HitsKept' /\ Answering' /\ (c >= 1)' /\ PassedMissed'
    BY DEF HitsKept, Answering, PassedMissed, IInv
  <1>5. AnswersCounted'
    BY <1>1, PartsKept DEF AnswersCounted, Counted, IInv
  <1> QED BY <1>1, <1>2, <1>3, <1>4, <1>5 DEF IInv

LEMMA NextCovKeeps ==
    ASSUME IInv, NEW m \in [WriteVar -> Value], NextCov(m)
    PROVE  IInv'
  <1> USE DEF NextCov
  <1>1. parts' = parts /\ parts \in Program
    BY DEF IInv
  <1>2. TypeOK'
    <2>1. mem' \in [Var -> Value]
      BY DEF IInv, TypeOK, Var
    <2>2. Len(parts) \in Nat
      BY <1>1, ProgramAssumption
    <2>3. k' \in 1..(Len(parts') + 1) /\ c' \in Nat /\ pc' \in {"idle", "cover", "vectors", "next"}
      BY <1>1, <2>2
    <2> QED BY <1>1, <2>1, <2>3, TypedNow, TypedNext DEF IInv, Typed
  <1>3. KnownMet'
    BY <1>1, PartsKept DEF KnownMet, IInv
  <1>4. HitsKept' /\ Answering' /\ (c >= 1)'
    BY DEF HitsKept, Answering, IInv
  <1>5. PassedMissed'
    BY <1>1, PartsKept DEF PassedMissed, Parts, Of
  <1>6. AnswersCounted'
    BY <1>1, PartsKept DEF AnswersCounted, Counted, IInv
  <1> QED BY <1>1, <1>2, <1>3, <1>4, <1>5, <1>6 DEF IInv

LEMMA PassedNext ==
    ASSUME parts' = parts, mem' = mem, covered_set' = covered_set, res' = res,
           ~res => \A p \in Parts : \A j \in Of(p, "cover") :
                      p < k' \/ (p = k' /\ j < c') =>
                          parts[p][j].name \in covered_set[p] \/ Hitting(p, j) = {}
    PROVE  PassedMissed'
  <1> SUFFICES ASSUME ~res, NEW p \in Parts', NEW j \in Of(p, "cover")',
                      p < k' \/ (p = k' /\ j < c')
               PROVE  parts[p][j].name \in covered_set[p] \/ Hitting(p, j)' = {}
    BY DEF PassedMissed
  <1>1. p \in Parts /\ j \in Of(p, "cover") /\ Hitting(p, j)' = Hitting(p, j)
    BY PartsKept, HittingKept
  <1> QED BY <1>1

LEMMA SkipKeeps == IInv /\ Skip => IInv'
  <1> SUFFICES ASSUME IInv, Skip PROVE IInv'
    OBVIOUS
  <1> USE DEF Skip
  <1>1. parts' = parts /\ mem' = mem /\ parts \in Program
    BY DEF IInv
  <1>2. TypeOK' /\ (c >= 1)'
    BY <1>1, TypedNow, TypedNext DEF IInv, Typed
  <1>3. KnownMet'
    BY <1>1, PartsKept DEF KnownMet, IInv
  <1>4. HitsKept' /\ Answering'
    BY <1>1, PartsKept, HittingKept DEF HitsKept, Answering, IInv
  <1>5. PassedMissed'
    <2> SUFFICES ASSUME ~res, NEW p \in Parts, NEW j \in Of(p, "cover"),
                        p < k \/ (p = k /\ j < c + 1)
                 PROVE  parts[p][j].name \in covered_set[p] \/ Hitting(p, j) = {}
      BY <1>1, PassedNext
    <2>1. j \in Nat /\ parts[p][j].kind = "cover" /\ c \in Nat
      BY DEF Of, IInv, TypeOK
    <2>2. CASE p < k \/ (p = k /\ j < c)
      BY <2>2 DEF PassedMissed, IInv, AtConstraint
    <2>3. CASE p = k /\ j = c
      BY <2>1, <2>3 DEF Uncovered
    <2> QED BY <2>1, <2>2, <2>3
  <1>6. AnswersCounted'
    BY <1>1, PartsKept DEF AnswersCounted, Counted, IInv
  <1> QED BY <1>1, <1>2, <1>3, <1>4, <1>5, <1>6 DEF IInv

(* The variables that a solver has met belong to its partition.            *)
LEMMA MetFacts ==
    ASSUME parts \in Program, TypeOK, KnownMet, AtConstraint
    PROVE  /\ Met \subseteq Support(k) /\ Met \subseteq Var
           /\ Known(k) \subseteq Met /\ parts[k][c].support \subseteq Met
           /\ c \in Places(k) /\ k \in Parts
           /\ k \in Nat /\ k + 1 \in 1..(Len(parts) + 1)
           /\ [terminals EXCEPT ![k] = Met] \in [Parts -> SUBSET Var]
           /\ \A p \in Parts : /\ Known(p) \subseteq [terminals EXCEPT ![k] = Met][p]
                               /\ [terminals EXCEPT ![k] = Met][p] \subseteq Support(p)
  <1>1. k \in Parts /\ c \in Places(k) /\ Len(parts) \in Nat
    BY PartFacts DEF AtConstraint, Places
  <1>2. k \in Nat /\ k + 1 \in 1..(Len(parts) + 1)
    BY <1>1 DEF Parts
  <1>3. Met \subseteq Support(k) /\ Met \subseteq Var
    BY <1>1, SupportFacts DEF Met, TypeOK
  <1>4. Known(k) \subseteq Met /\ parts[k][c].support \subseteq Met
    BY <1>1 DEF Met, KnownMet
  <1>5. terminals \in [Parts -> SUBSET Var] /\ \A p \in Parts : terminals[p] \subseteq Support(p)
    BY DEF TypeOK
  <1>6. [terminals EXCEPT ![k] = Met] \in [Parts -> SUBSET Var]
    BY <1>1, <1>3, <1>5
  <1>7. \A p \in Parts : [terminals EXCEPT ![k] = Met][p] = IF p = k THEN Met ELSE terminals[p]
    BY <1>5
  <1>8. \A p \in Parts : /\ Known(p) \subseteq [terminals EXCEPT ![k] = Met][p]
                        /\ [terminals EXCEPT ![k] = Met][p] \subseteq Support(p)
    BY <1>3, <1>4, <1>5, <1>7 DEF KnownMet
  <1> QED BY <1>1, <1>2, <1>3, <1>4, <1>6, <1>8

LEMMA MissKeeps == IInv /\ Miss => IInv'
  <1> SUFFICES ASSUME IInv, Miss PROVE IInv'
    OBVIOUS
  <1> USE DEF Miss
  <1>1. parts' = parts /\ mem' = mem /\ parts \in Program /\ TypeOK /\ KnownMet
    BY DEF IInv
  <1>2. TypeOK' /\ (c >= 1)'
    BY <1>1, TypedNow, TypedNext, MetFacts DEF IInv, Typed
  <1>3. KnownMet'
    BY <1>1, PartsKept, MetFacts DEF KnownMet
  <1>4. HitsKept' /\ Answering'
    BY <1>1, PartsKept, HittingKept DEF HitsKept, Answering, IInv
  <1>5. PassedMissed'
    <2> SUFFICES ASSUME ~res, NEW p \in Parts, NEW j \in Of(p, "cover"),
                        p < k \/ (p = k /\ j < c + 1)
                 PROVE  parts[p][j].name \in covered_set[p] \/ Hitting(p, j) = {}
      BY <1>1, PassedNext
    <2>1. j \in Nat /\ c \in Nat
      BY DEF Of, IInv, TypeOK
    <2>2. CASE p < k \/ (p = k /\ j < c)
      BY <2>2 DEF PassedMissed, IInv, AtConstraint
    <2>3. CASE p = k /\ j = c
      BY <2>3
    <2> QED BY <2>1, <2>2, <2>3
  <1>6. AnswersCounted'
    BY <1>1, PartsKept DEF AnswersCounted, Counted, IInv
  <1> QED BY <1>1, <1>2, <1>3, <1>4, <1>5, <1>6 DEF IInv

LEMMA NoHitKeeps == IInv /\ NoHit => IInv'
  <1> SUFFICES ASSUME IInv, NoHit PROVE IInv'
    OBVIOUS
  <1> USE DEF NoHit
  <1>1. parts' = parts /\ mem' = mem /\ parts \in Program
    BY DEF IInv
  <1>2. k \in Nat /\ k + 1 \in 1..(Len(parts) + 1)
    BY <1>1, PartFacts DEF Parts
  <1>3. TypeOK' /\ (c >= 1)'
    BY <1>1, <1>2, TypedNow, TypedNext DEF IInv, Typed
  <1>4. KnownMet'
    BY <1>1, PartsKept DEF KnownMet, IInv
  <1>5. HitsKept' /\ Answering'
    BY <1>1, <1>2, PartsKept, HittingKept DEF HitsKept, Answering, IInv, Parts
  <1>6. PassedMissed'
    <2> SUFFICES ASSUME ~res, NEW p \in Parts, NEW j \in Of(p, "cover"),
                        p < k + 1 \/ (p = k + 1 /\ j < 1)
                 PROVE  parts[p][j].name \in covered_set[p] \/ Hitting(p, j) = {}
      BY <1>1, PassedNext
    <2>1. j \in Nat /\ j >= 1 /\ j <= Len(parts[p]) /\ Len(parts[p]) \in Nat /\ c \in Nat /\ p \in Nat
      BY <1>1, PartFacts DEF Of, IInv, TypeOK, Parts
    <2>2. p < k \/ (p = k /\ j < c)
      BY <1>2, <2>1
    <2> QED BY <2>2 DEF PassedMissed, IInv
  <1>7. AnswersCounted'
    BY <1>1, PartsKept DEF AnswersCounted, Counted, IInv
  <1> QED BY <1>1, <1>3, <1>4, <1>5, <1>6, <1>7 DEF IInv

LEMMA CoveredKeeps == IInv /\ (Covered \/ GenerateVectors \/ ReturnHit) => IInv'
  <1> SUFFICES ASSUME IInv, Covered \/ GenerateVectors \/ ReturnHit PROVE IInv'
    OBVIOUS
  <1> USE DEF Covered, GenerateVectors, ReturnHit
  <1>1. parts' = parts /\ mem' = mem /\ parts \in Program
    BY DEF IInv
  <1>2. TypeOK' /\ (c >= 1)'
    <2>1. /\ UNCHANGED <<covered_set, terminals, k, c, res, hit>>
          /\ covered_' \in BOOLEAN /\ pc' \in {"idle", "vectors", "next"}
          /\ answers' \in Nat /\ ret' \in {ret, "hit"}
      <3>1. covered_ \in BOOLEAN /\ answers \in Nat
        BY DEF IInv, TypeOK
      <3>2. CASE Covered
        BY <3>1, <3>2
      <3>3. CASE GenerateVectors
        BY <3>1, <3>3
      <3>4. CASE ReturnHit
        BY <3>1, <3>4
      <3> QED BY <3>2, <3>3, <3>4
    <2> QED BY ONLY <1>1, <2>1, IInv, TypedNow, TypedNext DEF IInv, Typed
  <1>3. KnownMet'
    BY <1>1, PartsKept DEF KnownMet, IInv
  <1>4. HitsKept' /\ Answering'
    BY <1>1, PartsKept, HittingKept DEF HitsKept, Answering, IInv
  <1>5. PassedMissed'
    BY DEF PassedMissed
  <1>6. AnswersCounted'
    <2>1. Counted' = Counted
      BY <1>1, PartsKept DEF Counted
    <2>2. answers \in Nat /\ Cardinality(Counted) \in Nat
      BY <1>1, CountedFinite DEF IInv, TypeOK
    <2> QED BY <2>1, <2>2 DEF AnswersCounted, Answering, IInv
  <1> QED BY <1>1, <1>2, <1>3, <1>4, <1>5, <1>6 DEF IInv

LEMMA ReturnNextKeeps ==
    ASSUME IInv, NEW n \in 0..Len(parts), NEW a \in Assignment, NEW ok \in BOOLEAN,
           ReturnNext(n, a, ok)
    PROVE  IInv'
  <1> USE DEF ReturnNext
  <1>1. parts' = parts /\ parts \in Program
    BY DEF IInv
  <1>2. TypeOK' /\ (c >= 1)'
    <2>1. mem' \in [Var -> Value]
      BY DEF IInv, TypeOK, Assignment
    <2>2. pc' = "idle" /\ ret' \in {"none", "hit", "next", "false"}
      OBVIOUS
    <2>3. UNCHANGED <<covered_set, terminals, covered_, k, c, res, hit, answers>>
      OBVIOUS
    <2> QED BY ONLY <1>1, <2>1, <2>2, <2>3, TypedNow, TypedNext, IInv DEF IInv, Typed
  <1>3. KnownMet'
    BY <1>1, PartsKept DEF KnownMet, IInv
  <1>4. HitsKept' /\ Answering' /\ PassedMissed'
    BY DEF HitsKept, Answering, IInv, PassedMissed
  <1>5. AnswersCounted'
    BY <1>1, PartsKept DEF AnswersCounted, Counted, IInv
  <1> QED BY <1>1, <1>2, <1>3, <1>4, <1>5 DEF IInv

(* What the memory satisfies after a step is hit after the step.           *)
LEMMA HittingNext ==
    ASSUME parts' = parts, parts \in Program, NEW p \in Parts, NEW j \in Places(p),
           mem' \in Assignment, \A l \in Of(p, "hard") : mem' \in parts[p][l].sat,
           mem' \in parts[p][j].sat
    PROVE  mem' \in Hitting(p, j)'
  <1>1. mem' \in Solutions(p)
    BY DEF Solutions
  <1>2. mem' \in WithReads(p)'
    BY <1>1, PartsKept DEF WithReads
  <1> QED BY <1>2 DEF Hitting

(* A solver writes only variables of its own partition, and all of those   *)
(* that its hard constraints and the constraint it covers speak of.        *)
LEMMA HitMemory ==
    ASSUME IInv, AtConstraint, NEW a \in Hitting(k, c), Hit(a)
    PROVE  /\ mem' \in Assignment
           /\ \A v \in Known(k) \union parts[k][c].support : mem'[v] = a[v]
           /\ \A v \in Var \ Support(k) : mem'[v] = mem[v]
  <1>1. parts \in Program /\ TypeOK /\ KnownMet
    BY DEF IInv
  <1>2. k \in Parts /\ c \in Places(k)
    BY <1>1, MetFacts
  <1>3. a \in Assignment /\ \A v \in ReadVar \intersect Support(k) : a[v] = mem[v]
    BY <1>1, <1>2, HittingFacts
  <1>4. mem' = [v \in Var |-> IF v \in WriteVar \intersect Support(k) \intersect Met
                             THEN a[v] ELSE mem[v]]
    BY DEF Hit
  <1>5. mem \in Assignment
    BY <1>1 DEF TypeOK, Assignment
  <1>6. mem' \in Assignment
    BY <1>3, <1>4, <1>5 DEF Assignment
  <1>7. ASSUME NEW v \in Known(k) \union parts[k][c].support PROVE mem'[v] = a[v]
    <2>1. v \in Met /\ v \in Support(k) /\ v \in Var
      BY <1>1, MetFacts
    <2> QED BY <1>3, <1>4, <2>1 DEF Var
  <1>8. \A v \in Var \ Support(k) : mem'[v] = mem[v]
    BY <1>4
  <1> QED BY <1>6, <1>7, <1>8

(* The new hit lies in memory, and the earlier ones still do.              *)
LEMMA HitKeepsHits ==
    ASSUME IInv, AtConstraint, NEW a \in Hitting(k, c), Hit(a)
    PROVE  HitsKept'
  <1>1. parts' = parts /\ parts \in Program /\ TypeOK /\ KnownMet /\ HitsKept
    BY DEF IInv, Hit
  <1>2. k \in Parts /\ c \in Places(k) /\ k \in Nat /\ c \in Nat
    BY <1>1, MetFacts DEF TypeOK
  <1>3. mem \in Assignment /\ mem' \in Assignment
    BY <1>1, HitMemory DEF TypeOK, Assignment
  <1>4. ASSUME NEW p, NEW j, p = k, j = c PROVE mem' \in Hitting(p, j)'
    <2>1. \A v \in Known(k) \union parts[k][c].support : mem'[v] = a[v]
      BY HitMemory
    <2>2. mem' \in parts[k][c].sat /\ \A l \in Of(k, "hard") : mem' \in parts[k][l].sat
      BY <1>1, <1>2, <1>3, <2>1, HitInMemory
    <2>3. p \in Parts /\ j \in Places(p) /\ mem' \in parts[p][j].sat
          /\ \A l \in Of(p, "hard") : mem' \in parts[p][l].sat
      BY <1>2, <1>4, <2>2
    <2> QED BY <1>1, <1>3, <2>3, HittingNext
  <1>5. ASSUME NEW h \in hit
        PROVE  /\ h[1] \in Parts /\ h[1] < k /\ h[2] \in Places(h[1])
               /\ mem' \in Hitting(h[1], h[2])'
    <2>1. /\ h[1] \in Parts /\ h[1] < k /\ h[2] \in Places(h[1])
          /\ mem \in Hitting(h[1], h[2])
      BY <1>1 DEF HitsKept, AtConstraint
    <2>2. Support(h[1]) \intersect Support(k) = {}
      <3>1. h[1] # k
        BY <1>2, <2>1 DEF Parts
      <3> QED BY <1>1, <1>2, <2>1, <3>1, PartsApart
    <2>3. \A v \in Known(h[1]) \union parts[h[1]][h[2]].support : mem'[v] = mem[v]
      <3>1. Known(h[1]) \union parts[h[1]][h[2]].support \subseteq Support(h[1])
        BY <1>1, <2>1, SupportFacts
      <3>2. Support(h[1]) \subseteq Var
        BY <1>1, <2>1, SupportFacts
      <3> QED BY <2>2, <3>1, <3>2, HitMemory
    <2>4. /\ mem' \in parts[h[1]][h[2]].sat
          /\ \A l \in Of(h[1], "hard") : mem' \in parts[h[1]][l].sat
      BY <1>1, <1>3, <2>1, <2>3, HitInMemory
    <2>5. mem' \in Hitting(h[1], h[2])'
      BY <1>1, <1>3, <2>1, <2>4, HittingNext
    <2> QED BY <2>1, <2>5
  <1>6. hit' = hit \union {<<k, c>>} /\ k' = k + 1
    BY DEF Hit
  <1>7. hit' # {}
    BY <1>6
  <1>8. ASSUME NEW h \in hit'
        PROVE  /\ h[1] \in Parts' /\ h[1] < k' /\ h[2] \in Places(h[1])'
               /\ mem' \in Hitting(h[1], h[2])'
    <2>1. CASE h \in hit
      <3>1. h[1] \in Parts /\ h[1] < k /\ h[2] \in Places(h[1]) /\ mem' \in Hitting(h[1], h[2])'
        BY <1>5, <2>1
      <3>2. h[1] < k + 1
        BY <1>2, <3>1 DEF Parts
      <3> QED BY <1>1, <1>6, <3>1, <3>2, PartsKept
    <2>2. CASE h = <<k, c>>
      <3>1. h[1] = k /\ h[2] = c
        BY <2>2
      <3> QED BY <1>1, <1>2, <1>4, <1>6, <3>1, PartsKept
    <2> QED BY <1>6, <2>1, <2>2
  <1> QED BY <1>7, <1>8 DEF HitsKept

(* The name of the constraint was missing: one more is counted.            *)
LEMMA HitCounts ==
    ASSUME IInv, AtConstraint, NEW a \in Hitting(k, c), Hit(a)
    PROVE  AnswersCounted'
  <1>1. parts' = parts /\ parts \in Program /\ TypeOK
    BY DEF IInv, Hit
  <1>2. k \in Parts /\ c \in Places(k)
    BY <1>1, MetFacts DEF IInv
  <1>3. covered_set' = [covered_set EXCEPT ![k] = @ \union {parts[k][c].name}] /\ Uncovered
    BY DEF Hit
  <1>4. \A p \in Parts : covered_set[p] \subseteq covered_set'[p]
    BY <1>1, <1>3 DEF TypeOK
  <1>5. parts[k][c].name \in covered_set'[k]
    BY <1>1, <1>2, <1>3 DEF TypeOK
  <1>6. <<k, c>> \in Covers /\ <<k, c>> \notin Counted
    <2>1. c \in Of(k, "cover")
      BY <1>2, <1>3 DEF Uncovered, Of, Places
    <2>2. <<k, c>> \in Covers
      BY <1>2, <2>1 DEF Covers
    <2> QED BY <2>2, <1>3 DEF Uncovered, Counted
  <1>7. \A x \in Covers : x[1] \in Parts
    BY DEF Covers
  <1>8. Counted' = {x \in Covers : parts[x[1]][x[2]].name \in covered_set'[x[1]]}
    BY <1>1, PartsKept DEF Counted
  <1>9. Counted \union {<<k, c>>} \subseteq Counted'
    BY <1>4, <1>5, <1>6, <1>7, <1>8 DEF Counted
  <1>10. IsFiniteSet(Counted')
    BY <1>1, <1>8, CoversFinite, FS_Subset
  <1>11. Cardinality(Counted \union {<<k, c>>}) = Cardinality(Counted) + 1
    BY <1>1, <1>6, CountedFinite, FS_AddElement
  <1>12. /\ Cardinality(Counted) + 1 <= Cardinality(Counted')
         /\ Cardinality(Counted) \in Nat /\ Cardinality(Counted') \in Nat
    BY <1>1, <1>9, <1>10, <1>11, CountedFinite, FS_Subset, FS_CardinalityType
  <1>13. answers \in Nat /\ answers' = answers /\ answers <= Cardinality(Counted)
    BY <1>1, <1>12 DEF IInv, AnswersCounted, Hit, TypeOK
  <1>14. answers' + 1 <= Cardinality(Counted')
    BY <1>12, <1>13
  <1> QED BY <1>12, <1>13, <1>14 DEF AnswersCounted

LEMMA HitKeeps ==
    ASSUME IInv, AtConstraint, NEW a \in Hitting(k, c), Hit(a)
    PROVE  IInv'
  <1>1. /\ parts' = parts /\ parts \in Program /\ TypeOK /\ KnownMet
        /\ terminals' = [terminals EXCEPT ![k] = Met]
        /\ covered_set' = [covered_set EXCEPT ![k] = @ \union {parts[k][c].name}]
        /\ hit' = hit \union {<<k, c>>} /\ res' = TRUE /\ k' = k + 1 /\ c' = 1
        /\ UNCHANGED <<covered_, answers, pc, ret>>
    BY DEF IInv, Hit
  <1>2. k \in Parts /\ c \in Places(k) /\ c \in Nat
    BY <1>1, MetFacts DEF TypeOK
  <1>3. c \in Of(k, "cover")
    BY <1>2 DEF Hit, Uncovered, Of, Places
  <1>4. TypeOK' /\ (c >= 1)'
    <2>1. parts[k][c].name \in Name
      BY <1>1, <1>2, PartFacts
    <2>2. covered_set' \in [Parts -> SUBSET Name]
      BY <1>1, <2>1 DEF TypeOK
    <2>3. \A p \in Parts : covered_set'[p] \subseteq {parts[p][l].name : l \in Of(p, "cover")}
      <3> SUFFICES ASSUME NEW p \in Parts, NEW x \in covered_set'[p]
                   PROVE  \E l \in Of(p, "cover") : x = parts[p][l].name
        OBVIOUS
      <3>1. x \in covered_set[p] \/ (p = k /\ x = parts[k][c].name)
        BY <1>1 DEF TypeOK
      <3> QED BY <1>1, <1>3, <3>1 DEF TypeOK
    <2>4. hit' \subseteq Parts \X Nat
      BY <1>1, <1>2 DEF TypeOK
    <2>5. /\ terminals' \in [Parts -> SUBSET Var] /\ k' \in 1..(Len(parts) + 1)
          /\ \A p \in Parts : terminals'[p] \subseteq Support(p)
      BY <1>1, MetFacts
    <2>6. mem' \in [Var -> Value]
      BY HitMemory DEF Assignment
    <2> QED BY ONLY <1>1, <2>2, <2>3, <2>4, <2>5, <2>6, TypedNow, TypedNext DEF Typed
  <1>5. KnownMet'
    BY <1>1, PartsKept, MetFacts DEF KnownMet
  <1>6. Answering' /\ PassedMissed'
    BY <1>1 DEF Answering, PassedMissed, IInv, AtConstraint
  <1> QED BY <1>1, <1>4, <1>5, <1>6, HitKeepsHits, HitCounts DEF IInv

(***************************************************************************)
(* The invariant, and what follows from it.                                *)
(***************************************************************************)
LEMMA NextKeeps == IInv /\ [Next]_vars => IInv'
  <1> SUFFICES ASSUME IInv, [Next]_vars PROVE IInv'
    OBVIOUS
  <1>1. CASE ResetCoverage
    BY <1>1, ResetKeeps
  <1>2. CASE \E v \in ReadVar, x \in Value : Assign(v, x)
    BY <1>2, AssignKeeps
  <1>3. CASE \E m \in [WriteVar -> Value] : NextCov(m)
    BY <1>3, NextCovKeeps
  <1>4. CASE Skip
    BY <1>4, SkipKeeps
  <1>5. CASE Miss
    BY <1>5, MissKeeps
  <1>6. CASE AtConstraint /\ \E a \in Hitting(k, c) : Hit(a)
    BY <1>6, HitKeeps
  <1>7. CASE NoHit
    BY <1>7, NoHitKeeps
  <1>8. CASE Covered \/ GenerateVectors \/ ReturnHit
    BY <1>8, CoveredKeeps
  <1>9. CASE \E n \in 0..Len(parts), a \in Assignment, ok \in BOOLEAN : ReturnNext(n, a, ok)
    BY <1>9, ReturnNextKeeps
  <1>10. CASE UNCHANGED vars
    <2>1. parts' = parts /\ mem' = mem /\ parts \in Program
      BY <1>10 DEF vars, IInv
    <2>2. TypeOK'
      BY ONLY <1>10, IInv, TypedNow, TypedNext DEF vars, IInv
    <2>3. KnownMet' /\ HitsKept' /\ Answering' /\ (c >= 1)'
      BY <1>10, <2>1, PartsKept, HittingKept
         DEF vars, IInv, KnownMet, HitsKept, Answering
    <2>4. PassedMissed'
      BY <1>10, <2>1, PassedNext DEF vars, IInv, PassedMissed
    <2>5. AnswersCounted'
      BY <1>10, <2>1, PartsKept DEF vars, AnswersCounted, Counted, IInv
    <2> QED BY <2>1, <2>2, <2>3, <2>4, <2>5 DEF IInv
  <1> QED
    BY <1>1, <1>2, <1>3, <1>4, <1>5, <1>6, <1>7, <1>8, <1>9, <1>10 DEF Next

LEMMA IInvAlways == Spec => []IInv
  BY InitInv, NextKeeps, PTL DEF Spec

(* The state of the coverage solvers has its types: a solver notes only    *)
(* names of its cover constraints and knows only its own variables.        *)
THEOREM TypeCorrect == Spec => []TypeOK
  <1>1. IInv => TypeOK
    BY DEF IInv
  <1> QED BY <1>1, IInvAlways, PTL

(* Whatever partitions the generator has, a call of nextCov() that answers *)
(* by a hit leaves all the cover constraints it has hit satisfied, with    *)
(* the hard constraints: no solver overwrites the work of an earlier one.  *)
THEOREM HitsRealAlways == Spec => []HitsReal
  <1>1. IInv => HitsReal
    BY DEF IInv, HitsReal, HitsKept, Answering
  <1> QED BY <1>1, IInvAlways, PTL

(* Between two resets of the coverage there are never more calls answered  *)
(* by a hit than cover constraints.                                        *)
THEOREM CoverageEndsAlways == Spec => []CoverageEnds
  <1>1. IInv => CoverageEnds
    <2> SUFFICES ASSUME IInv PROVE CoverageEnds
      OBVIOUS
    <2>1. parts \in Program /\ answers \in Nat /\ AnswersCounted
      BY DEF IInv, TypeOK
    <2>2. answers <= Cardinality(Covers)
      BY <2>1, CountedFinite DEF AnswersCounted
    <2> QED BY <2>2 DEF CoverageEnds, Covers
  <1> QED BY <1>1, IInvAlways, PTL

(* The generator declares itself covered only when none of the missing     *)
(* cover constraints can be hit any more.                                  *)
THEOREM CoveredJustifiedAlways == Spec => CoveredJustified
  <1>1. IInv /\ [Next]_vars =>
          [~covered_ /\ covered_' /\ pc = "cover" =>
              \A p \in Parts : \A j \in Of(p, "cover") :
                  parts[p][j].name \notin covered_set[p] => Hitting(p, j) = {}]_vars
    <2> SUFFICES ASSUME IInv, Next, ~covered_, covered_', pc = "cover",
                        NEW p \in Parts, NEW j \in Of(p, "cover"),
                        parts[p][j].name \notin covered_set[p]
                 PROVE  Hitting(p, j) = {}
      OBVIOUS
    <2>1. Covered
      BY DEF Next, ResetCoverage, Assign, NextCov, Skip, Miss, Hit, NoHit, GenerateVectors,
             ReturnHit, ReturnNext
    <2>2. k \notin Parts /\ ~res
      BY <2>1 DEF Covered
    <2>3. p < k
      <3>1. k \in 1..(Len(parts) + 1) /\ Len(parts) \in Nat
        BY ProgramAssumption DEF IInv, TypeOK
      <3> QED BY <2>2, <3>1 DEF Parts
    <2> QED BY <2>2, <2>3 DEF IInv, PassedMissed
  <1> QED BY <1>1, IInvAlways, PTL DEF Spec, CoveredJustified
=============================================================================
