-------------------- MODULE VariableDefaultSolverProofs --------------------
(***************************************************************************)
(* Proofs about VariableDefaultSolver, for every set of variables, of      *)
(* values and of partitions, and about ContradictionAnalysis, the search   *)
(* that the default solver calls.                                          *)
(***************************************************************************)
EXTENDS VariableDefaultSolver, ContradictionAnalysis, FiniteSetTheorems, WellFoundedInduction, TLAPS

(***************************************************************************)
(* General facts.                                                          *)
(***************************************************************************)
LEMMA MinimalSubset ==
    ASSUME NEW K, IsFiniteSet(K), NEW F \in SUBSET (SUBSET K), F # {}
    PROVE  \E C \in F : \A D \in F : D \subseteq C => D = C
  <1>1. IsWellFoundedOn(StrictSubsetOrdering(K), SUBSET K)
    BY FS_StrictSubsetOrderingWellFounded, FS_FiniteSubsetsOfFinite
  <1>2. PICK C \in F : \A D \in F : <<D, C>> \notin StrictSubsetOrdering(K)
    BY <1>1, WFMin
  <1>3. \A D \in F : D \subseteq C => D = C
    BY <1>2 DEF StrictSubsetOrdering
  <1> QED BY <1>3

LEMMA LeastPlace ==
    ASSUME NEW n \in Nat, NEW T \in SUBSET (1..n), T # {}
    PROVE  \E k \in T : \A m \in T : k <= m
  <1> DEFINE K == 1..n
             F == {1..k : k \in T}
  <1>1. IsFiniteSet(K)
    BY FS_Interval
  <1>2. F \in SUBSET (SUBSET K) /\ F # {}
    <2>1. \A k \in T : \A j \in 1..k : j \in 1..n
      OBVIOUS
    <2> QED BY <2>1
  <1> HIDE DEF F, K
  <1>3. PICK C \in F : \A D \in F : D \subseteq C => D = C
    BY <1>1, <1>2, MinimalSubset
  <1>4. PICK k \in T : C = 1..k
    BY DEF F
  <1>5. ASSUME NEW m \in T, m < k PROVE FALSE
    <2>1. 1..m \in F
      BY DEF F
    <2>2. 1..m \subseteq C /\ k \in C
      BY <1>4, <1>5
    <2>3. 1..m = C
      BY <1>3, <2>1, <2>2
    <2>4. k \in 1..m
      BY <2>2, <2>3
    <2> QED BY <1>5, <2>4
  <1> QED BY <1>5

LEMMA PartialFunction ==
    ASSUME NEW D, NEW R, NEW E \in SUBSET D, NEW f \in [E -> R]
    PROVE  f \in PartialFunctions(D, R)
  BY DEF PartialFunctions

LEMMA PartialFunctionDomain ==
    ASSUME NEW D, NEW R, NEW f \in PartialFunctions(D, R)
    PROVE  DOMAIN f \in SUBSET D /\ f \in [DOMAIN f -> R]
  BY DEF PartialFunctions

LEMMA NothingIsPartial ==
    ASSUME NEW D, NEW R
    PROVE  Nothing \in PartialFunctions(D, R) /\ DOMAIN Nothing = {}
  <1>1. Nothing \in [{} -> R] /\ {} \in SUBSET D
    BY DEF Nothing
  <1> QED BY <1>1, PartialFunction

(* The more constraints, the fewer solutions.                              *)
LEMMA SatisfyingAntitone ==
    ASSUME NEW K, NEW L, K \subseteq L
    PROVE  Satisfying(L) \subseteq Satisfying(K)
  BY DEF Satisfying, Solutions

LEMMA SatisfyingAdd ==
    ASSUME NEW K, NEW k
    PROVE  Satisfying(K \union {k}) = Satisfying(K) \intersect part[k].sat
  BY DEF Satisfying, Solutions

LEMMA PlacesType ==
    ASSUME part \in Seq(Constraints)
    PROVE  /\ Len(part) \in Nat
           /\ Places = 1..Len(part)
           /\ \A k \in Places : /\ part[k].kind \in {"hard", "soft", "cover"}
                                /\ part[k].support \subseteq Var
                                /\ part[k].sat \subseteq Assignment
                                /\ part[k].support \subseteq Support
           /\ Hards \subseteq Places /\ Softs \subseteq Places
           /\ IsFiniteSet(Hards)
  <1>1. Len(part) \in Nat /\ Places = 1..Len(part)
    BY DEF Places
  <1>2. \A k \in Places : part[k] \in Constraints
    BY <1>1
  <1>3. \A k \in Places : /\ part[k].kind \in {"hard", "soft", "cover"}
                          /\ part[k].support \subseteq Var
                          /\ part[k].sat \subseteq Assignment
    BY <1>2 DEF Constraints
  <1>4. \A k \in Places : part[k].support \subseteq Support
    BY DEF Support
  <1>5. Hards \subseteq Places /\ Softs \subseteq Places
    BY DEF Hards, Softs
  <1>6. IsFiniteSet(Hards)
    <2>1. IsFiniteSet(1..Len(part))
      BY <1>1, FS_Interval
    <2> QED BY <1>1, <1>5, <2>1, FS_Subset
  <1> QED BY <1>1, <1>3, <1>4, <1>5, <1>6

(* analyseContradiction() finds something exactly if there is something.   *)
LEMMA ConflictsFound ==
    ASSUME NEW K, IsFiniteSet(K)
    PROVE  MinimalConflicts(K) = {} <=> Satisfying(K) # {}
  <1>1. ASSUME NEW C \in MinimalConflicts(K) PROVE Satisfying(K) = {}
    BY <1>1, SatisfyingAntitone DEF MinimalConflicts
  <1>2. ASSUME Satisfying(K) = {} PROVE MinimalConflicts(K) # {}
    <2> DEFINE Bad == {C \in SUBSET K : Satisfying(C) = {}}
    <2>1. Bad \in SUBSET (SUBSET K) /\ Bad # {}
      BY <1>2
    <2> HIDE DEF Bad
    <2>2. PICK C \in Bad : \A D \in Bad : D \subseteq C => D = C
      BY <2>1, MinimalSubset
    <2>5. ASSUME NEW c \in C PROVE Satisfying(C \ {c}) # {}
      <3>1. C \ {c} \in SUBSET K /\ C \ {c} # C /\ C \ {c} \subseteq C
        BY <2>5, C \in SUBSET K DEF Bad
      <3> QED BY <2>2, <3>1 DEF Bad
    <2>6. C \in MinimalConflicts(K)
      BY <2>2, <2>5 DEF MinimalConflicts, Bad
    <2> QED BY <2>6
  <1> QED BY <1>1, <1>2

(* Rank counts.                                                            *)
LEMMA RankStep ==
    ASSUME part \in Seq(Constraints), NEW k \in Places
    PROVE  /\ Rank(k - 1) \in Nat
           /\ Rank(k) = IF part[k].kind = "soft" THEN Rank(k - 1) + 1 ELSE Rank(k - 1)
  <1> DEFINE S(n) == {j \in 1..n : part[j].kind = "soft"}
  <1>1. k \in Nat /\ k - 1 \in Nat /\ k \notin 1..(k - 1)
        /\ 1..k = 1..(k - 1) \union {k}
    BY PlacesType
  <1>2. IsFiniteSet(S(k - 1))
    <2>1. S(k - 1) \subseteq 1..(k - 1)
      OBVIOUS
    <2>2. IsFiniteSet(1..(k - 1))
      BY <1>1, FS_Interval
    <2> QED BY <2>1, <2>2, FS_Subset
  <1>3. S(k) = IF part[k].kind = "soft" THEN S(k - 1) \union {k} ELSE S(k - 1)
    BY <1>1
  <1>4. k \notin S(k - 1)
    BY <1>1
  <1> QED BY <1>2, <1>3, <1>4, FS_CardinalityType, FS_AddElement DEF Rank, SoftsUpTo

LEMMA RankZero == Rank(0) = 0
  <1>1. {j \in 1..0 : part[j].kind = "soft"} = {}
    OBVIOUS
  <1> QED BY <1>1, FS_EmptySet DEF Rank, SoftsUpTo

(***************************************************************************)
(* The inductive invariant.                                                *)
(***************************************************************************)

(* softs_ lists the soft constraints of the places before n, in order.     *)
Listed(n) ==
    /\ Len(softs_) = Rank(n - 1)
    /\ Len(softs_) <= n - 1
    /\ \A j \in 1..Len(softs_) : softs_[j] \in 1..(n - 1) /\ Rank(softs_[j]) = j
    /\ \A k \in Softs : k < n => Rank(k) \in 1..Len(softs_) /\ softs_[Rank(k)] = k
    /\ \A j, l \in 1..Len(softs_) : j < l => softs_[j] < softs_[l]

(* The soft constraints accepted before the j-th one is looked at.         *)
Accepted(j) == {softs_[m] : m \in 1..(j - 1) \ rejected}

(* The variables of the constraints handed to solver_ are known to it.     *)
Known(n) ==
    \A k \in Hards \union Softs : k < n => part[k].support \subseteq terminals_

AssertInv ==
    pc = "assert" =>
        /\ asserted = Satisfying({k \in Hards : k < i})
        /\ Listed(i)
        /\ Known(i)
        /\ rejected = {} /\ contradictions_ = {} /\ inactive_softs_ = {}
        /\ bdd_solvers_ = Nothing

SoftsInv ==
    pc = "softs" =>
        /\ contradictions_ = {} /\ inactive_softs_ = {}
        /\ Listed(Len(part) + 1)
        /\ i <= Len(softs_) + 1
        /\ rejected \subseteq 1..(i - 1)
        /\ asserted = Satisfying(Hards \union Accepted(i))
        /\ asserted # {}
        /\ \A j \in rejected :
              Satisfying(Hards \union Accepted(j) \union {softs_[j]}) = {}

ReadyInv ==
    pc \in {"prepare", "idle", "solve"} =>
        /\ asserted = Satisfying(Hards \union ActiveSofts)
        /\ ~bypass /\ contradictions_ = {} =>
              /\ asserted # {}
              /\ \A k \in inactive_softs_ :
                    Satisfying(Hards \union {m \in ActiveSofts : m < k} \union {k}) = {}
        /\ contradictions_ # {} => asserted = {}

KnownInv == pc # "assert" => Known(Len(part) + 1)

CallInv ==
    /\ pc \in {"softs", "prepare"} => ~bypass
    /\ pc # "idle" => ret = "none"
    /\ pc = "solve" =>
          contradictions_ = {} /\ assumptions_ = [v \in Reads |-> mem[v]]

BddInv ==
    pc \in {"idle", "solve"} /\ contradictions_ = {} =>
        \A v \in DOMAIN bdd_solvers_ : bdd_solvers_[v] # {}

AnswerInv == SolutionValid /\ FailureJustified

IInv ==
    /\ TypeOK
    /\ part \in Partition
    /\ AssertInv
    /\ SoftsInv
    /\ ReadyInv
    /\ KnownInv
    /\ CallInv
    /\ BddInv
    /\ AnswerInv


LEMMA Static ==
    ASSUME part' = part
    PROVE  /\ Places' = Places /\ Hards' = Hards /\ Softs' = Softs
           /\ Support' = Support /\ Writes' = Writes /\ Reads' = Reads
           /\ Dists' = Dists
  BY DEF Places, Hards, Softs, Support, Writes, Reads, Dists

LEMMA PartFixed == [Next]_vars => part' = part /\ bypass' = bypass
  BY DEF Next, vars, Construct, SolveLoop, MakeAssertion, MakeSoftAssertion, SkipCover,
         Bypass, AnalyseHards, AcceptSoft, RejectSoft, EndOfSofts, Prepare, Assign,
         Refuse, StartSolve, Solved, DropSuggestion, Failed

LEMMA InitIInv == Init => IInv
  <1> SUFFICES ASSUME Init PROVE IInv
    OBVIOUS
  <1>p. part \in Partition /\ part \in Seq(Constraints)
    BY PartitionAssumption DEF Init
  <1>t. TypeOK
    <2>1. <<>> \in Seq(Softs)
      OBVIOUS
    <2>2. 1 \in 1..(Len(part) + 1)
      BY <1>p
    <2> QED BY <1>p, <2>1, <2>2, NothingIsPartial DEF Init, TypeOK
  <1>1. AssertInv
    <2>1. \A k \in Hards \union Softs : k \in Nat /\ ~(k < 1)
      BY <1>p, PlacesType
    <2>2. Known(1)
      BY <2>1 DEF Known
    <2>3. Listed(1)
      BY <2>1, RankZero DEF Init, Listed
    <2>4. asserted = Satisfying({k \in Hards : k < 1})
      BY <2>1 DEF Init, Satisfying, Solutions
    <2> QED BY <2>2, <2>3, <2>4 DEF Init, AssertInv
  <1> QED BY <1>p, <1>t, <1>1 DEF Init, IInv, SoftsInv, ReadyInv, KnownInv, CallInv,
            BddInv, AnswerInv, SolutionValid, FailureJustified

(***************************************************************************)
(* Types.                                                                  *)
(***************************************************************************)
LEMMA ConstructTypeOK == IInv /\ Construct => TypeOK'
  <1> SUFFICES ASSUME IInv, Construct PROVE TypeOK'
    OBVIOUS
  <1>p. part' = part
    BY PartFixed DEF Next
  <1> USE <1>p, Static
  <1>t. TypeOK /\ Len(part) \in Nat /\ i \in 1..(Len(part) + 1) /\ Places = 1..Len(part)
    BY PlacesType DEF IInv, TypeOK
  <1>1. CASE MakeAssertion
    <2>1. part[i].support \subseteq Support /\ i + 1 \in 1..(Len(part) + 1)
      BY <1>1, <1>t, PlacesType DEF MakeAssertion, TypeOK
    <2> QED BY <1>1, <1>t, <2>1 DEF MakeAssertion, TypeOK, soft, rand, call
  <1>2. CASE MakeSoftAssertion
    <2>1. part[i].support \subseteq Support /\ i + 1 \in 1..(Len(part) + 1)
      BY <1>2, <1>t, PlacesType DEF MakeSoftAssertion, TypeOK
    <2>2. Append(softs_, i) \in Seq(Softs)
      BY <1>2, <1>t DEF MakeSoftAssertion, TypeOK, Softs
    <2> QED BY <1>2, <1>t, <2>1, <2>2 DEF MakeSoftAssertion, TypeOK, soft, rand, call
  <1>3. CASE SkipCover
    <2>1. i + 1 \in 1..(Len(part) + 1)
      BY <1>3, <1>t DEF SkipCover
    <2> QED BY <1>3, <1>t, <2>1 DEF SkipCover, TypeOK, soft, rand, call
  <1>4. CASE Bypass
    BY <1>4, <1>t DEF Bypass, TypeOK, soft, rand, call
  <1>5. CASE AnalyseHards
    <2>1. contradictions_' \subseteq SUBSET Hards
      BY <1>5 DEF AnalyseHards, AnalyzeConflicts, MinimalConflicts
    <2>2. 1 \in 1..(Len(part) + 1) /\ pc' \in {"softs", "prepare"}
      BY <1>5, <1>t DEF AnalyseHards
    <2> QED BY <1>5, <1>t, <2>1, <2>2 DEF AnalyseHards, TypeOK, soft, rand, call
  <1>s. ASSUME pc = "softs", i \in 1..Len(softs_)
        PROVE  i \in 1..Len(part) /\ i + 1 \in 1..(Len(part) + 1)
    BY <1>s, <1>t DEF IInv, SoftsInv, Listed
  <1>6. CASE AcceptSoft
    BY <1>6, <1>t, <1>s DEF AcceptSoft, TypeOK, soft, rand, call
  <1>7. CASE RejectSoft
    BY <1>7, <1>t, <1>s DEF RejectSoft, TypeOK, soft, rand, call
  <1>8. CASE EndOfSofts
    BY <1>8, <1>t DEF EndOfSofts, TypeOK, soft, rand, call, NamesOf
  <1>9. CASE Prepare
    <2>1. BddVars \in SUBSET Writes
      BY DEF BddVars
    <2>2. \A v \in BddVars : BddValues(v) \in SUBSET Value
      <3> SUFFICES ASSUME NEW v \in BddVars PROVE BddValues(v) \in SUBSET Value
        OBVIOUS
      <3>1. v \in Var
        BY <2>1 DEF Writes, Var
      <3> QED BY <3>1, ValueAssumption DEF BddValues, Satisfying, Solutions, Assignment
    <2>3. bdd_solvers_' \in PartialFunctions(Writes, SUBSET Value)
      <3>1. bdd_solvers_' \in [BddVars -> SUBSET Value]
        BY <1>9, <2>2 DEF Prepare
      <3> QED BY <2>1, <3>1, PartialFunction
    <2>4. random_refs' \subseteq Writes
      BY <1>9 DEF Prepare
    <2> QED BY <1>9, <1>t, <2>3, <2>4 DEF Prepare, TypeOK, soft, rand, call
  <1> QED BY <1>1, <1>2, <1>3, <1>4, <1>5, <1>6, <1>7, <1>8, <1>9 DEF Construct

LEMMA CallTypeOK == IInv /\ [Next]_vars /\ ~Construct => TypeOK'
  <1> SUFFICES ASSUME IInv, [Next]_vars, ~Construct PROVE TypeOK'
    OBVIOUS
  <1>p. part' = part
    BY PartFixed
  <1> USE <1>p, Static
  <1>t. TypeOK
    BY DEF IInv
  <1>1. CASE UNCHANGED vars
    BY <1>1, <1>t DEF vars, TypeOK, soft, rand, call
  <1>2. ASSUME NEW v \in Cell, NEW x \in Value, Assign(v, x) PROVE TypeOK'
    BY <1>2, <1>t DEF Assign, TypeOK, soft, rand, call
  <1>3. CASE Refuse
    BY <1>3, <1>t DEF Refuse, TypeOK, soft, rand, call
  <1>4. ASSUME NEW S \in Halves, NEW drawn \in Draws, StartSolve(S, drawn) PROVE TypeOK'
    <2>1. S \subseteq Writes /\ S \subseteq Cell
      BY <1>t DEF Halves, TypeOK, Writes, Cell
    <2>2. /\ DOMAIN drawn = DOMAIN bdd_solvers_ \union Dists
          /\ drawn \in [DOMAIN drawn -> Value]
      BY DEF Draws
    <2>3. DOMAIN bdd_solvers_ \subseteq Writes
      BY <1>t, PartialFunctionDomain DEF TypeOK
    <2>4. Suggestions(S, drawn) \in [S \union DOMAIN drawn -> Value]
      BY <1>t, <2>1, <2>2 DEF Suggestions, TypeOK
    <2>5. S \union DOMAIN drawn \in SUBSET (Writes \union Dists)
      BY <2>1, <2>2, <2>3
    <2>6. Suggestions(S, drawn) \in PartialFunctions(Writes \union Dists, Value)
      BY <2>4, <2>5, PartialFunction
    <2>7. [v \in Reads |-> mem[v]] \in [Reads -> Value]
      BY <1>t DEF TypeOK, Reads, Cell
    <2>8. [v \in Reads |-> mem[v]] \in PartialFunctions(Reads, Value)
      BY <2>7, PartialFunction
    <2>9. terminals_' \subseteq Support
      BY <1>4, <1>t, <2>4, <2>5 DEF StartSolve, TypeOK, Reads, Writes, Dists
    <2> QED BY <1>4, <1>t, <2>6, <2>8, <2>9 DEF StartSolve, TypeOK, soft, rand, call
  <1>5. ASSUME NEW a \in Models, Solved(a) PROVE TypeOK'
    <2>1. a \in [Var -> Value]
      BY <1>t DEF Models, TypeOK, Assignment
    <2>2. mem' \in [Cell -> Value]
      BY <1>5, <1>t, <2>1 DEF Solved, TypeOK, Cell, Var
    <2> QED BY <1>5, <1>t, <2>2, NothingIsPartial DEF Solved, TypeOK, soft, rand, call
  <1>6. ASSUME NEW v \in DOMAIN suggestions_, DropSuggestion(v) PROVE TypeOK'
    <2>1. DOMAIN suggestions_ \in SUBSET (Writes \union Dists)
          /\ suggestions_ \in [DOMAIN suggestions_ -> Value]
      BY <1>t, PartialFunctionDomain DEF TypeOK
    <2>2. suggestions_' \in [DOMAIN suggestions_ \ {v} -> Value]
      BY <1>6, <2>1 DEF DropSuggestion
    <2>3. suggestions_' \in PartialFunctions(Writes \union Dists, Value)
      BY <2>1, <2>2, PartialFunction
    <2> QED BY <1>6, <1>t, <2>3 DEF DropSuggestion, TypeOK, soft, rand, call
  <1>7. CASE Failed
    BY <1>7, <1>t, NothingIsPartial DEF Failed, TypeOK, soft, rand, call
  <1> QED BY <1>1, <1>2, <1>3, <1>4, <1>5, <1>6, <1>7 DEF Next, SolveLoop

(***************************************************************************)
(* The loop over the partition.                                            *)
(***************************************************************************)
LEMMA AssertStep ==
    ASSUME IInv, MakeAssertion \/ MakeSoftAssertion \/ SkipCover
    PROVE  AssertInv'
  <1>p. /\ part' = part /\ part \in Seq(Constraints) /\ pc = "assert" /\ pc' = "assert"
        /\ i \in Places /\ i' = i + 1 /\ i \in Nat /\ Places = 1..Len(part)
        /\ Len(part) \in Nat
    BY PlacesType DEF IInv, TypeOK, MakeAssertion, MakeSoftAssertion, SkipCover
  <1> USE <1>p, Static
  <1>i. /\ asserted = Satisfying({k \in Hards : k < i}) /\ Listed(i) /\ Known(i)
        /\ rejected = {} /\ contradictions_ = {} /\ inactive_softs_ = {}
        /\ bdd_solvers_ = Nothing /\ softs_ \in Seq(Softs)
    BY DEF IInv, AssertInv, TypeOK
  <1>e. /\ rejected' = {} /\ contradictions_' = {} /\ inactive_softs_' = {}
        /\ bdd_solvers_' = Nothing
    BY <1>i DEF MakeAssertion, MakeSoftAssertion, SkipCover, soft, rand
  <1>r. /\ Rank(i - 1) \in Nat
        /\ Rank(i) = IF part[i].kind = "soft" THEN Rank(i - 1) + 1 ELSE Rank(i - 1)
        /\ \A k : Rank(k)' = Rank(k)
    BY RankStep DEF Rank
  <1>k. \A k \in Hards \union Softs : k \in Nat /\ (k < i + 1 <=> (k < i \/ k = i))
    BY PlacesType
  <1>1. asserted' = Satisfying({k \in Hards : k < i})'
    <2>1. CASE MakeAssertion
      <3>1. {k \in Hards : k < i + 1} = {k \in Hards : k < i} \union {i}
        BY <1>k, <2>1 DEF MakeAssertion, Hards
      <3>2. asserted' = Satisfying({k \in Hards : k < i + 1})
        BY <1>i, <2>1, <3>1, SatisfyingAdd DEF MakeAssertion
      <3> QED BY <3>2 DEF Satisfying
    <2>2. CASE MakeSoftAssertion \/ SkipCover
      <3>1. i \notin Hards /\ asserted' = asserted
        BY <2>2 DEF MakeSoftAssertion, SkipCover, Hards
      <3>2. {k \in Hards : k < i + 1} = {k \in Hards : k < i}
        BY <1>k, <3>1
      <3> QED BY <1>i, <3>1, <3>2 DEF Satisfying
    <2> QED BY <2>1, <2>2
  <1>2. Known(i)'
    <2>1. /\ terminals_ \subseteq terminals_'
          /\ i \in Hards \union Softs => part[i].support \subseteq terminals_'
      BY DEF MakeAssertion, MakeSoftAssertion, SkipCover, Hards, Softs
    <2> QED BY <1>i, <1>k, <2>1 DEF Known
  <1>3. Listed(i)'
    <2>1. CASE MakeSoftAssertion
      <3> DEFINE n == Len(softs_)
      <3>1. /\ n \in Nat /\ n = Rank(i - 1) /\ softs_' = Append(softs_, i)
            /\ Len(softs_') = n + 1 /\ softs_'[n + 1] = i
            /\ \A j \in 1..n : softs_'[j] = softs_[j]
            /\ i \in Softs /\ Rank(i) = n + 1
        BY <1>i, <1>r, <2>1 DEF MakeSoftAssertion, Listed, Softs
      <3>2. /\ \A j \in 1..n : softs_[j] \in 1..(i - 1) /\ Rank(softs_[j]) = j
            /\ \A k \in Softs : k < i => Rank(k) \in 1..n /\ softs_[Rank(k)] = k
            /\ \A j, l \in 1..n : j < l => softs_[j] < softs_[l]
            /\ n <= i - 1
        BY <1>i DEF Listed
      <3> HIDE DEF n
      <3>3. \A j \in 1..(n + 1) : softs_'[j] \in 1..i /\ Rank(softs_'[j]) = j
        BY <3>1, <3>2
      <3>4. \A k \in Softs : k < i + 1 =>
                Rank(k) \in 1..(n + 1) /\ softs_'[Rank(k)] = k
        BY <1>k, <3>1, <3>2
      <3>5. \A j, l \in 1..(n + 1) : j < l => softs_'[j] < softs_'[l]
        <4> SUFFICES ASSUME NEW j \in 1..(n + 1), NEW l \in 1..(n + 1), j < l
                     PROVE  softs_'[j] < softs_'[l]
          OBVIOUS
        <4>1. j \in 1..n /\ softs_'[j] = softs_[j] /\ softs_[j] \in 1..(i - 1)
          BY <3>1, <3>2
        <4>2. CASE l = n + 1
          BY <3>1, <4>1, <4>2
        <4>3. CASE l # n + 1
          <5>0. n \in Nat
            BY <3>1
          <5>1. l \in 1..n
            BY ONLY <5>0, <4>3, l \in 1..(n + 1)
          <5> QED BY <3>1, <3>2, <4>1, <5>1
        <4> QED BY <4>2, <4>3
      <3>6. n + 1 = Rank(i) /\ n + 1 <= i /\ i' - 1 = i
        BY <3>1, <3>2
      <3> QED BY <3>1, <3>3, <3>4, <3>5, <3>6 DEF Listed, Rank
    <2>2. CASE MakeAssertion \/ SkipCover
      <3>1. i \notin Softs /\ softs_' = softs_ /\ Rank(i) = Rank(i - 1)
        BY <1>r, <2>2 DEF MakeAssertion, SkipCover, Softs, soft
      <3>2. \A j \in 1..Len(softs_) : softs_[j] \in 1..i /\ Rank(softs_[j]) = j
        BY <1>i DEF Listed
      <3>3. \A k \in Softs : k < i + 1 =>
                Rank(k) \in 1..Len(softs_) /\ softs_[Rank(k)] = k
        BY <1>i, <1>k, <3>1 DEF Listed
      <3>4. Len(softs_) \in Nat
        BY <1>i
      <3> QED BY <1>i, <1>r, <3>1, <3>2, <3>3, <3>4 DEF Listed
    <2> QED BY <2>1, <2>2
  <1> QED BY <1>e, <1>1, <1>2, <1>3 DEF AssertInv

(***************************************************************************)
(* The analysis.                                                           *)
(***************************************************************************)
(* All hard constraints are asserted when the loop ends.                   *)
LEMMA AllAsserted ==
    ASSUME IInv, pc = "assert", i > Len(part)
    PROVE  /\ asserted = Satisfying(Hards)
           /\ Listed(Len(part) + 1)
           /\ Known(Len(part) + 1)
  <1>1. i = Len(part) + 1
    BY PlacesType DEF IInv, TypeOK
  <1>2. {k \in Hards : k < i} = Hards
    BY <1>1, PlacesType DEF IInv, TypeOK
  <1> QED BY <1>1, <1>2 DEF IInv, AssertInv

LEMMA AnalyseHardsStep ==
    ASSUME IInv, AnalyseHards
    PROVE  SoftsInv' /\ ReadyInv'
  <1>p. /\ part' = part /\ part \in Seq(Constraints) /\ Len(part) \in Nat
        /\ softs_ \in Seq(Softs) /\ softs_' = softs_ /\ i' = 1
        /\ rejected' = {} /\ inactive_softs_' = {} /\ asserted' = asserted
        /\ bypass' = bypass
    BY PlacesType DEF IInv, TypeOK, AnalyseHards, soft, AssertInv
  <1> USE <1>p, Static
  <1>1. /\ asserted = Satisfying(Hards)
        /\ Listed(Len(part) + 1)
    BY AllAsserted DEF AnalyseHards
  <1>2. contradictions_' = {} <=> Satisfying(Hards) # {}
    BY ConflictsFound, PlacesType DEF AnalyseHards, AnalyzeConflicts
  <1>3. SoftsInv'
    <2> SUFFICES ASSUME contradictions_' = {} PROVE SoftsInv'
      BY DEF AnalyseHards, SoftsInv
    <2>1. Listed(Len(part) + 1)'
      BY <1>1 DEF Listed, Rank
    <2>2. Accepted(1)' = {}
      BY DEF Accepted
    <2>3. asserted' = Satisfying(Hards \union Accepted(i))'
      BY <1>1, <2>2 DEF Satisfying
    <2>4. i' <= Len(softs_') + 1 /\ rejected' \subseteq 1..(i' - 1)
      OBVIOUS
    <2> QED BY <1>1, <1>2, <2>1, <2>3, <2>4 DEF SoftsInv
  <1>4. ReadyInv'
    <2> SUFFICES ASSUME contradictions_' # {} PROVE ReadyInv'
      BY DEF AnalyseHards, ReadyInv
    <2>1. ActiveSofts' = {}
      BY DEF ActiveSofts
    <2> QED BY <1>1, <1>2, <2>1 DEF ReadyInv, Satisfying
  <1> QED BY <1>3, <1>4

LEMMA SoftStep ==
    ASSUME IInv, AcceptSoft \/ RejectSoft
    PROVE  SoftsInv'
  <1>p. /\ part' = part /\ part \in Seq(Constraints) /\ Len(part) \in Nat
        /\ softs_ \in Seq(Softs) /\ softs_' = softs_ /\ i' = i + 1
        /\ i \in 1..Len(softs_) /\ Len(softs_) \in Nat
        /\ pc = "softs"
        /\ contradictions_' = contradictions_ /\ inactive_softs_' = inactive_softs_
    BY PlacesType DEF IInv, TypeOK, AcceptSoft, RejectSoft, soft
  <1> USE <1>p, Static
  <1>i. /\ contradictions_ = {} /\ inactive_softs_ = {}
        /\ Listed(Len(part) + 1)
        /\ rejected \subseteq 1..(i - 1)
        /\ asserted = Satisfying(Hards \union Accepted(i))
        /\ asserted # {}
        /\ \A j \in rejected :
              Satisfying(Hards \union Accepted(j) \union {softs_[j]}) = {}
    BY DEF IInv, SoftsInv
  <1>l. Listed(Len(part) + 1)'
    BY <1>i DEF Listed, Rank
  <1>s. Satisfying(Hards \union Accepted(i) \union {softs_[i]})
           = asserted \intersect part[softs_[i]].sat
    BY <1>i, SatisfyingAdd
  <1>1. CASE AcceptSoft
    <2>1. rejected' = rejected
      BY <1>1 DEF AcceptSoft, soft
    <2>2. \A j : Accepted(j)' = Accepted(j)
      BY <2>1 DEF Accepted
    <2>3. Accepted(i)' = Accepted(i) \union {softs_[i]}
      BY <1>i, <2>1 DEF Accepted
    <2>4. asserted' = Satisfying(Hards \union Accepted(i))'
      BY <1>1, <1>s, <2>3 DEF AcceptSoft, Satisfying
    <2>5. asserted' # {}
      BY <1>1 DEF AcceptSoft
    <2>6. (\A j \in rejected :
              Satisfying(Hards \union Accepted(j) \union {softs_[j]}) = {})'
      BY <1>i, <2>1, <2>2 DEF Satisfying
    <2>7. i' <= Len(softs_') + 1 /\ rejected' \subseteq 1..(i' - 1)
      BY <1>i, <2>1
    <2> QED BY <1>i, <1>l, <2>1, <2>4, <2>5, <2>6, <2>7 DEF SoftsInv
  <1>2. CASE RejectSoft
    <2>1. rejected' = rejected \union {i} /\ asserted' = asserted
      BY <1>2 DEF RejectSoft
    <2>2. \A j \in 1..i : Accepted(j)' = Accepted(j)
      BY <2>1 DEF Accepted
    <2>3. Accepted(i)' = Accepted(i)
      BY <1>i, <2>1 DEF Accepted
    <2>4. asserted' = Satisfying(Hards \union Accepted(i))'
      BY <1>i, <2>1, <2>3 DEF Satisfying
    <2>5. Satisfying(Hards \union Accepted(i) \union {softs_[i]}) = {}
      BY <1>2, <1>s DEF RejectSoft
    <2>6. (\A j \in rejected :
              Satisfying(Hards \union Accepted(j) \union {softs_[j]}) = {})'
      <3> SUFFICES ASSUME NEW j \in rejected \union {i}
                   PROVE  Satisfying(Hards \union Accepted(j) \union {softs_[j]})' = {}
        BY <2>1
      <3>1. j \in 1..i
        BY <1>i
      <3>2. Satisfying(Hards \union Accepted(j) \union {softs_[j]}) = {}
        BY <1>i, <2>5
      <3> QED BY <2>2, <3>1, <3>2 DEF Satisfying
    <2>7. i' <= Len(softs_') + 1 /\ rejected' \subseteq 1..(i' - 1)
      BY <1>i, <2>1
    <2> QED BY <1>i, <1>l, <2>1, <2>4, <2>6, <2>7 DEF SoftsInv
  <1> QED BY <1>1, <1>2

LEMMA EndOfSoftsStep ==
    ASSUME IInv, EndOfSofts
    PROVE  ReadyInv'
  <1>p. /\ part' = part /\ part \in Seq(Constraints) /\ Len(part) \in Nat
        /\ softs_ \in Seq(Softs) /\ Len(softs_) \in Nat
        /\ i \in Nat /\ i > Len(softs_) /\ pc = "softs"
        /\ contradictions_' = contradictions_ /\ bypass' = bypass
        /\ asserted' = asserted /\ inactive_softs_' = NamesOf(rejected)
    BY PlacesType DEF IInv, TypeOK, EndOfSofts
  <1> USE <1>p, Static
  <1>i. /\ contradictions_ = {} /\ ~bypass
        /\ Listed(Len(part) + 1)
        /\ i <= Len(softs_) + 1
        /\ rejected \subseteq 1..(i - 1)
        /\ asserted = Satisfying(Hards \union Accepted(i))
        /\ asserted # {}
        /\ \A j \in rejected :
              Satisfying(Hards \union Accepted(j) \union {softs_[j]}) = {}
    BY DEF IInv, SoftsInv, CallInv
  <1>l. /\ \A j \in 1..Len(softs_) : softs_[j] \in Softs /\ Rank(softs_[j]) = j
        /\ \A k \in Softs : Rank(k) \in 1..Len(softs_) /\ softs_[Rank(k)] = k
        /\ \A j, l \in 1..Len(softs_) : j < l => softs_[j] < softs_[l]
    <2>1. \A k \in Softs : k < Len(part) + 1
      BY PlacesType
    <2> QED BY <1>i, <2>1 DEF Listed
  <1>a. ActiveSofts' = Softs \ NamesOf(rejected)
    BY <1>i DEF ActiveSofts
  <1>n. i - 1 = Len(softs_)
    BY <1>i
  <1>1. Accepted(i) = Softs \ NamesOf(rejected)
    <2>1. ASSUME NEW k \in Accepted(i) PROVE k \in Softs \ NamesOf(rejected)
      <3>1. PICK m \in 1..(i - 1) \ rejected : k = softs_[m]
        BY <2>1 DEF Accepted
      <3>2. k \in Softs /\ Rank(k) = m
        BY <1>l, <1>n, <3>1
      <3> QED BY <3>1, <3>2 DEF NamesOf
    <2>2. ASSUME NEW k \in Softs \ NamesOf(rejected) PROVE k \in Accepted(i)
      <3>1. Rank(k) \in 1..Len(softs_) /\ softs_[Rank(k)] = k /\ Rank(k) \notin rejected
        BY <1>l DEF NamesOf
      <3> QED BY <1>n, <3>1 DEF Accepted
    <2> QED BY <2>1, <2>2
  <1>2. asserted' = Satisfying(Hards \union ActiveSofts)'
    BY <1>1, <1>a, <1>i DEF Satisfying
  <1>3. ASSUME NEW k \in NamesOf(rejected)
        PROVE  Satisfying(Hards \union {m \in Softs \ NamesOf(rejected) : m < k}
                                \union {k}) = {}
    <2> DEFINE j == Rank(k)
               M == {m \in Softs \ NamesOf(rejected) : m < k}
    <2>1. k \in Softs /\ j \in rejected /\ j \in 1..Len(softs_) /\ softs_[j] = k
      BY <1>l DEF NamesOf
    <2>2. ASSUME NEW x \in Accepted(j) PROVE x \in M
      <3>1. PICK m \in 1..(j - 1) \ rejected : x = softs_[m]
        BY <2>2 DEF Accepted
      <3>2. m \in 1..Len(softs_) /\ m < j
        BY <2>1, <3>1
      <3>3. x \in Softs /\ Rank(x) = m
        BY <1>l, <3>1, <3>2
      <3>4. x < k
        BY <1>l, <2>1, <3>1, <3>2
      <3> QED BY <3>1, <3>3, <3>4 DEF NamesOf
    <2>3. Hards \union Accepted(j) \union {k} \subseteq Hards \union M \union {k}
      BY <2>2
    <2>4. Satisfying(Hards \union Accepted(j) \union {k}) = {}
      BY <1>i, <2>1
    <2> HIDE DEF M, j
    <2>5. Satisfying(Hards \union M \union {k}) = {}
      BY <2>3, <2>4, SatisfyingAntitone
    <2> QED BY <2>5 DEF M
  <1>4. (\A k \in inactive_softs_ :
            Satisfying(Hards \union {m \in ActiveSofts : m < k} \union {k}) = {})'
    BY <1>3, <1>a DEF Satisfying
  <1> QED BY <1>2, <1>4, <1>i DEF ReadyInv

LEMMA BypassStep ==
    ASSUME IInv, Bypass
    PROVE  ReadyInv'
  <1>1. /\ part' = part /\ asserted' = asserted /\ bypass /\ bypass' = bypass
        /\ contradictions_' = contradictions_
    BY DEF Bypass
  <1>2. asserted = Satisfying(Hards) /\ contradictions_ = {}
    BY AllAsserted DEF Bypass, IInv, AssertInv
  <1>3. ActiveSofts' = {}
    BY <1>1 DEF ActiveSofts
  <1> QED BY <1>1, <1>2, <1>3, Static DEF ReadyInv, Satisfying

(* Everything that solve() may find satisfies ReadyInv as well.            *)
LEMMA ReadyKept ==
    ASSUME ReadyInv, pc \in {"prepare", "idle", "solve"},
           UNCHANGED <<part, bypass, asserted, contradictions_, inactive_softs_>>
    PROVE  ReadyInv'
  <1>1. ActiveSofts' = ActiveSofts
    BY Static DEF ActiveSofts
  <1> QED BY <1>1, Static DEF ReadyInv, Satisfying

LEMMA KnownStep == IInv /\ [Next]_vars => KnownInv'
  <1> SUFFICES ASSUME IInv, [Next]_vars, pc' # "assert" PROVE Known(Len(part) + 1)'
    BY DEF KnownInv
  <1>p. part' = part
    BY PartFixed
  <1>1. terminals_ \subseteq terminals_'
    BY DEF Next, vars, Construct, SolveLoop, MakeAssertion, MakeSoftAssertion, SkipCover,
         Bypass, AnalyseHards, AcceptSoft, RejectSoft, EndOfSofts, Prepare, Assign,
         Refuse, StartSolve, Solved, DropSuggestion, Failed
  <1>2. Known(Len(part) + 1)
    <2>1. CASE pc # "assert"
      BY <2>1 DEF IInv, KnownInv
    <2>2. CASE pc = "assert"
      <3>1. i > Len(part)
        BY <2>2 DEF Next, vars, Construct, SolveLoop, MakeAssertion, MakeSoftAssertion,
             SkipCover, Bypass, AnalyseHards, AcceptSoft, RejectSoft, EndOfSofts, Prepare,
             Assign, Refuse, StartSolve, Solved, DropSuggestion, Failed
      <3> QED BY <2>2, <3>1, AllAsserted
    <2> QED BY <2>1, <2>2
  <1> QED BY <1>p, <1>1, <1>2, Static DEF Known

(* CHECK(bdd_solver->solve()).                                             *)
LEMMA PrepareStep ==
    ASSUME IInv, Prepare
    PROVE  BddInv'
  <1> SUFFICES ASSUME contradictions_ = {}, NEW v \in BddVars PROVE BddValues(v) # {}
    BY DEF BddInv, Prepare
  <1>1. PICK a \in Satisfying(Hards \union ActiveSofts) : TRUE
    BY DEF IInv, ReadyInv, Prepare, CallInv
  <1> DEFINE K == {k \in SingleVariableConstraints(v) : part[k].simple}
  <1>2. K \subseteq Hards \union ActiveSofts
    BY DEF SingleVariableConstraints
  <1>3. a \in Satisfying(K)
    BY <1>1, <1>2, SatisfyingAntitone
  <1> QED BY <1>3 DEF BddValues

(***************************************************************************)
(* The answers of solve().                                                 *)
(***************************************************************************)
(* A model of the solver, with the old values for the variables the solver *)
(* has not met, is a solution.                                             *)
LEMMA SolvedStep ==
    ASSUME IInv, NEW a \in Models, Solved(a)
    PROVE  AnswerInv'
  <1> DEFINE b == [v \in Var |-> IF v \in Writes \ terminals_ THEN mem[v] ELSE a[v]]
             K == Hards \union ActiveSofts
  <1>p. /\ part' = part /\ part \in Partition /\ part \in Seq(Constraints)
        /\ bypass' = bypass /\ contradictions_' = contradictions_
        /\ inactive_softs_' = inactive_softs_ /\ pc = "solve" /\ ret' = "true"
        /\ mem \in [Cell -> Value]
        /\ mem' = [v \in Cell |-> IF v \in Writes \intersect terminals_ THEN a[v] ELSE mem[v]]
    BY DEF IInv, TypeOK, Solved, soft
  <1> USE <1>p, Static
  <1>1. a \in Satisfying(K) /\ a \in Assignment
    BY DEF IInv, ReadyInv, Models, Satisfying, Solutions
  <1>2. b \in Assignment
    BY <1>1 DEF Assignment, Writes, Cell
  <1>3. ASSUME NEW k \in K PROVE b \in part[k].sat
    <2>1. k \in Hards \union Softs /\ k \in 1..Len(part) /\ k < Len(part) + 1
      BY PlacesType DEF ActiveSofts
    <2>2. part[k].support \subseteq terminals_ /\ part[k].support \subseteq Var
      BY <2>1, PlacesType DEF IInv, KnownInv, Known
    <2>3. \A v \in part[k].support : a[v] = b[v]
      BY <2>2
    <2>4. a \in part[k].sat
      BY <1>1 DEF Satisfying, Solutions
    <2> HIDE DEF b
    <2> QED BY <1>1, <1>2, <2>1, <2>3, <2>4, PartitionAssumption
  <1>4. b \in Satisfying(K)
    BY <1>2, <1>3 DEF Satisfying, Solutions
  <1>5. \A v \in Reads : b[v] = mem'[v]
    <2> SUFFICES ASSUME NEW v \in Reads PROVE b[v] = mem'[v]
      OBVIOUS
    <2>1. v \in ReadVar /\ v \notin WriteVar /\ v \in Var /\ v \in Cell
      BY VarAssumption DEF Reads, Var, Cell
    <2>2. a[v] = mem[v]
      <3>1. assumptions_ = [w \in Reads |-> mem[w]] /\ Agrees(a, assumptions_)
        BY DEF IInv, CallInv, Models
      <3> QED BY <3>1 DEF Agrees
    <2> QED BY <2>1, <2>2 DEF Writes
  <1>6. \A v \in Writes : b[v] = mem'[v]
    BY DEF Writes, Var, Cell
  <1>7. K' = K
    BY DEF ActiveSofts
  <1> HIDE DEF b, K
  <1>8. b \in WithReads(Satisfying(K))'
    BY <1>4, <1>5, <1>7 DEF WithReads, Satisfying
  <1>9. SolutionValid'
    BY <1>6, <1>8 DEF SolutionValid, K
  <1> QED BY <1>9 DEF AnswerInv, FailureJustified

LEMMA FailedStep ==
    ASSUME IInv, Failed
    PROVE  AnswerInv'
  <1>p. /\ part' = part /\ mem' = mem /\ pc = "solve" /\ ret' = "false"
        /\ ActiveSofts' = ActiveSofts /\ Reads' = Reads /\ Hards' = Hards
    BY Static DEF Failed, soft, ActiveSofts
  <1>1. \A a \in asserted : ~Agrees(a, assumptions_)
    BY DEF Failed, Models, Agrees
  <1>2. assumptions_ = [v \in Reads |-> mem[v]]
    BY <1>p DEF IInv, CallInv
  <1>3. WithReads(asserted) = {}
    BY <1>1, <1>2 DEF WithReads, Agrees
  <1>4. asserted = Satisfying(Hards \union ActiveSofts)
    BY <1>p DEF IInv, ReadyInv
  <1>5. WithReads(Satisfying(Hards \union ActiveSofts))' = {}
    BY <1>p, <1>3, <1>4 DEF WithReads, Satisfying
  <1> QED BY <1>p, <1>5 DEF AnswerInv, SolutionValid, FailureJustified

LEMMA RefuseStep ==
    ASSUME IInv, Refuse
    PROVE  AnswerInv'
  <1>p. /\ part' = part /\ mem' = mem /\ pc = "idle" /\ ret' = "false"
        /\ ActiveSofts' = ActiveSofts /\ Reads' = Reads /\ Hards' = Hards
        /\ contradictions_ # {}
    BY Static DEF Refuse, soft, ActiveSofts
  <1>1. Satisfying(Hards \union ActiveSofts) = {}
    BY <1>p DEF IInv, ReadyInv
  <1>2. WithReads(Satisfying(Hards \union ActiveSofts))' = {}
    BY <1>p, <1>1 DEF WithReads, Satisfying
  <1> QED BY <1>p, <1>2 DEF AnswerInv, SolutionValid, FailureJustified

(* An answer stays right as long as nothing it depends on changes.         *)
LEMMA AnswerKept ==
    ASSUME AnswerInv, ret' = ret \/ ret' = "none",
           UNCHANGED <<part, bypass, contradictions_, inactive_softs_, mem>>
    PROVE  AnswerInv'
  <1>1. /\ ActiveSofts' = ActiveSofts /\ Reads' = Reads /\ Hards' = Hards
        /\ Writes' = Writes
    BY Static DEF ActiveSofts
  <1> QED BY <1>1 DEF AnswerInv, SolutionValid, FailureJustified, WithReads, Satisfying

LEMMA NoAnswer == ret' = "none" => AnswerInv'
  BY DEF AnswerInv, SolutionValid, FailureJustified

LEMMA NextIInv == IInv /\ [Next]_vars => IInv'
  <1> SUFFICES ASSUME IInv, [Next]_vars PROVE IInv'
    OBVIOUS
  <1>t. TypeOK'
    BY ConstructTypeOK, CallTypeOK
  <1>p. part' = part /\ bypass' = bypass /\ part' \in Partition
    BY PartFixed DEF IInv
  <1>k. KnownInv'
    BY KnownStep
  <1>i. AssertInv /\ SoftsInv /\ ReadyInv /\ CallInv /\ BddInv /\ AnswerInv
    BY DEF IInv
  <1> SUFFICES (AssertInv /\ SoftsInv /\ ReadyInv /\ CallInv /\ BddInv /\ AnswerInv)'
    BY <1>t, <1>p, <1>k DEF IInv
  <1>1. CASE MakeAssertion \/ MakeSoftAssertion \/ SkipCover
    <2>1. pc = "assert" /\ pc' = "assert" /\ ret' = ret
      BY <1>1 DEF MakeAssertion, MakeSoftAssertion, SkipCover
    <2>2. AssertInv'
      BY <1>1, AssertStep
    <2>3. AnswerInv'
      BY <1>i, <2>1, NoAnswer DEF CallInv
    <2> QED BY <1>i, <2>1, <2>2, <2>3 DEF SoftsInv, ReadyInv, CallInv, BddInv
  <1>2. CASE Bypass
    <2>1. /\ pc = "assert" /\ pc' = "idle" /\ ret' = ret /\ bypass
          /\ bdd_solvers_' = bdd_solvers_
      BY <1>2 DEF Bypass, rand
    <2>2. ReadyInv'
      BY <1>2, BypassStep
    <2>3. AnswerInv' /\ DOMAIN bdd_solvers_' = {}
      BY <1>i, <2>1, NoAnswer, NothingIsPartial DEF CallInv, AssertInv
    <2> QED BY <1>i, <2>1, <2>2, <2>3 DEF AssertInv, SoftsInv, CallInv, BddInv
  <1>3. CASE AnalyseHards
    <2>1. pc = "assert" /\ pc' \in {"softs", "prepare"} /\ ret' = ret /\ ~bypass
      BY <1>3 DEF AnalyseHards
    <2>2. SoftsInv' /\ ReadyInv'
      BY <1>3, AnalyseHardsStep
    <2>3. AnswerInv'
      BY <1>i, <2>1, NoAnswer DEF CallInv
    <2> QED BY <1>i, <1>p, <2>1, <2>2, <2>3 DEF AssertInv, CallInv, BddInv
  <1>4. CASE AcceptSoft \/ RejectSoft
    <2>1. pc = "softs" /\ pc' = "softs" /\ ret' = ret
      BY <1>4 DEF AcceptSoft, RejectSoft
    <2>2. SoftsInv'
      BY <1>4, SoftStep
    <2>3. AnswerInv'
      BY <1>i, <2>1, NoAnswer DEF CallInv
    <2> QED BY <1>i, <1>p, <2>1, <2>2, <2>3 DEF AssertInv, ReadyInv, CallInv, BddInv
  <1>5. CASE EndOfSofts
    <2>1. pc = "softs" /\ pc' = "prepare" /\ ret' = ret
      BY <1>5 DEF EndOfSofts
    <2>2. ReadyInv'
      BY <1>5, EndOfSoftsStep
    <2>3. AnswerInv'
      BY <1>i, <2>1, NoAnswer DEF CallInv
    <2> QED BY <1>i, <1>p, <2>1, <2>2, <2>3 DEF AssertInv, SoftsInv, CallInv, BddInv
  <1>6. CASE Prepare
    <2>1. /\ pc = "prepare" /\ pc' = "idle" /\ ret' = ret
          /\ UNCHANGED <<part, bypass, asserted, contradictions_, inactive_softs_>>
      BY <1>6 DEF Prepare, soft
    <2>2. ReadyInv'
      BY <1>i, <2>1, ReadyKept
    <2>3. AnswerInv'
      BY <1>i, <2>1, NoAnswer DEF CallInv
    <2>4. BddInv'
      BY <1>6, PrepareStep
    <2> QED BY <1>i, <2>1, <2>2, <2>3, <2>4 DEF AssertInv, SoftsInv, CallInv
  <1>7. CASE pc \in {"idle", "solve"} /\ pc' \in {"idle", "solve"}
             /\ UNCHANGED <<part, bypass, asserted, contradictions_, inactive_softs_,
                            bdd_solvers_>>
    <2>1. ReadyInv' /\ AssertInv' /\ SoftsInv' /\ BddInv'
      BY <1>i, <1>7, ReadyKept DEF AssertInv, SoftsInv, BddInv
    <2>2. ASSUME NEW v \in Cell, NEW x \in Value, Assign(v, x)
          PROVE  CallInv' /\ AnswerInv'
      BY <1>i, <2>2, NoAnswer DEF Assign, CallInv
    <2>3. ASSUME Refuse PROVE CallInv' /\ AnswerInv'
      BY <1>i, <2>3, RefuseStep DEF Refuse, CallInv
    <2>4. ASSUME NEW S \in Halves, NEW drawn \in Draws, StartSolve(S, drawn)
          PROVE  CallInv' /\ AnswerInv'
      BY <2>4, NoAnswer, Static DEF StartSolve, CallInv
    <2>5. ASSUME NEW a \in Models, Solved(a) PROVE CallInv' /\ AnswerInv'
      BY <2>5, SolvedStep DEF Solved, CallInv
    <2>6. ASSUME NEW v \in DOMAIN suggestions_, DropSuggestion(v)
          PROVE  CallInv' /\ AnswerInv'
      BY <1>i, <2>6, NoAnswer, Static DEF DropSuggestion, CallInv
    <2>7. ASSUME Failed PROVE CallInv' /\ AnswerInv'
      BY <2>7, FailedStep DEF Failed, CallInv
    <2>8. ASSUME UNCHANGED vars PROVE CallInv' /\ AnswerInv'
      BY <1>i, <2>8, AnswerKept, Static DEF vars, soft, call, CallInv
    <2>9. ~Construct
      BY <1>7 DEF Construct, MakeAssertion, MakeSoftAssertion, SkipCover, Bypass,
           AnalyseHards, AcceptSoft, RejectSoft, EndOfSofts, Prepare
    <2> QED BY <2>1, <2>2, <2>3, <2>4, <2>5, <2>6, <2>7, <2>8, <2>9 DEF Next, SolveLoop
  <1>8. CASE UNCHANGED vars
    <2>1. AnswerInv'
      BY <1>i, <1>8, AnswerKept DEF vars, soft
    <2>2. ReadyInv'
      <3>1. CASE pc \in {"prepare", "idle", "solve"}
        BY <1>i, <1>8, <3>1, ReadyKept DEF vars, soft
      <3>2. CASE pc \notin {"prepare", "idle", "solve"}
        BY <1>8, <3>2 DEF vars, ReadyInv
      <3> QED BY <3>1, <3>2
    <2>3. CallInv' /\ BddInv'
      BY <1>i, <1>8, Static DEF vars, call, rand, CallInv, BddInv
    <2>4. AssertInv'
      BY <1>i, <1>8, Static DEF vars, soft, rand, AssertInv, Listed, Known, Satisfying, Rank
    <2>5. SoftsInv'
      BY <1>i, <1>8, Static DEF vars, soft, SoftsInv, Listed, Accepted, Satisfying, Rank
    <2> QED BY <2>1, <2>2, <2>3, <2>4, <2>5
  <1>9. ASSUME [Next]_vars, ~Construct, ~UNCHANGED vars
        PROVE  pc \in {"idle", "solve"} /\ pc' \in {"idle", "solve"}
               /\ UNCHANGED <<part, bypass, asserted, contradictions_, inactive_softs_,
                              bdd_solvers_>>
    BY <1>9 DEF Next, SolveLoop, Assign, Refuse, StartSolve, Solved, DropSuggestion,
           Failed, soft, rand
  <1> QED BY <1>1, <1>2, <1>3, <1>4, <1>5, <1>6, <1>7, <1>8, <1>9 DEF Construct

LEMMA IInvAlways == Spec => []IInv
  BY InitIInv, NextIInv, PTL DEF Spec

(***************************************************************************)
(* The theorems.                                                           *)
(***************************************************************************)
(* The variables of the solver keep their types: in particular every       *)
(* assumption is about a read reference and every suggestion about a write *)
(* reference or a distribution of the partition.                           *)
THEOREM TypeCorrect == Spec => []TypeOK
  <1>1. IInv => TypeOK
    BY DEF IInv
  <1> QED BY <1>1, IInvAlways, PTL

(* Whenever solve() returns true, the memory of the user holds a solution  *)
(* of the hard constraints and of the soft constraints that are not        *)
(* reported as inactive, under the present values of the read references.  *)
THEOREM SolutionValidAlways == Spec => []SolutionValid
  <1>1. IInv => SolutionValid
    BY DEF IInv, AnswerInv
  <1> QED BY <1>1, IInvAlways, PTL

(* Whenever solve() returns false, there is no such solution.              *)
THEOREM FailureJustifiedAlways == Spec => []FailureJustified
  <1>1. IInv => FailureJustified
    BY DEF IInv, AnswerInv
  <1> QED BY <1>1, IInvAlways, PTL

(* CHECK(bdd_solver->solve()) in solve() never throws.                     *)
THEOREM BddSolversAnswerAlways == Spec => []BddSolversAnswer
  <1>1. IInv => BddSolversAnswer
    BY DEF IInv, BddInv, BddSolversAnswer
  <1> QED BY <1>1, IInvAlways, PTL

LEMMA GreedyIsBest == IInv => SoftsBest
  <1> SUFFICES ASSUME IInv, pc \in {"idle", "solve"}, ~bypass, contradictions_ = {}
               PROVE  SoftsBest
    BY DEF SoftsBest
  <1>t. part \in Seq(Constraints) /\ Len(part) \in Nat /\ Softs \subseteq 1..Len(part)
    BY PlacesType DEF IInv, TypeOK
  <1>a. ActiveSofts = Softs \ inactive_softs_
    BY DEF ActiveSofts
  <1>1. /\ Satisfying(Hards \union ActiveSofts) # {}
        /\ \A k \in inactive_softs_ :
              Satisfying(Hards \union {m \in ActiveSofts : m < k} \union {k}) = {}
    BY DEF IInv, ReadyInv
  <1>2. ASSUME NEW S \in SUBSET Softs, S # ActiveSofts, Satisfying(Hards \union S) # {}
        PROVE  \E k \in ActiveSofts \ S :
                   \A j \in 1..(k - 1) : j \in S <=> j \in ActiveSofts
    <2> DEFINE T == (S \ ActiveSofts) \union (ActiveSofts \ S)
    <2>1. T \in SUBSET (1..Len(part)) /\ T # {}
      BY <1>2, <1>t, <1>a
    <2> HIDE DEF T
    <2>2. PICK k \in T : \A m \in T : k <= m
      BY <1>t, <2>1, LeastPlace
    <2>3. \A j \in 1..(k - 1) : j \in S <=> j \in ActiveSofts
      BY <2>1, <2>2 DEF T
    <2>4. k \in ActiveSofts \ S
      <3> SUFFICES ASSUME k \in S, k \notin ActiveSofts PROVE FALSE
        BY DEF T
      <3>1. k \in inactive_softs_
        BY <1>a
      <3>2. {m \in ActiveSofts : m < k} \subseteq S
        <4>1. k \in 1..Len(part)
          BY <2>1, <2>2
        <4>2. \A m \in ActiveSofts : m < k => m \in 1..(k - 1)
          BY <1>a, <1>t, <4>1
        <4> QED BY <2>3, <4>2
      <3> DEFINE L == Hards \union {m \in ActiveSofts : m < k} \union {k}
                 M == Hards \union S
      <3>3. L \subseteq M /\ Satisfying(L) = {} /\ Satisfying(M) # {}
        BY <1>1, <1>2, <3>1, <3>2
      <3> HIDE DEF L, M
      <3> QED BY <3>3, SatisfyingAntitone
    <2> QED BY <2>3, <2>4
  <1> QED BY <1>1, <1>2 DEF SoftsBest

(* The greedy choice that analyseSofts() makes among the soft constraints  *)
(* is the best one in the order of the partition.                          *)
THEOREM SoftsBestAlways == Spec => []SoftsBest
  BY GreedyIsBest, IInvAlways, PTL

-----------------------------------------------------------------------------
(***************************************************************************)
(* analyze_conflicts, which the solver asks for contradictions, for every  *)
(* finite set of constraints and whichever of its subsets contradict       *)
(* themselves.                                                             *)
(***************************************************************************)
(* The inductive invariant.                                                *)
Frame == [enab : SUBSET Constraint, todo : SUBSET Constraint, conf : SUBSET Constraint]

Types ==
    /\ conflicts \subseteq SUBSET Constraint /\ {} \notin conflicts /\ Monotone(conflicts)
    /\ stack \in Seq(Frame)
    /\ results \subseteq SUBSET Constraint
    /\ phase \in {"start", "search", "done"}

(* A call under way: what it has agrees with what it still may use, and    *)
(* every constraint of conf is needed, even against those it has to visit. *)
Fruitful(e) ==
    /\ Satisfiable(e.conf \union e.enab)
    /\ \A k \in e.conf : Satisfiable((e.conf \ {k}) \union e.enab \union e.todo)
Frames == \A j \in 1..Len(stack) : Fruitful(stack[j])

Minimal(R) == ~Satisfiable(R) /\ \A k \in R : Satisfiable(R \ {k})
Reports == \A R \in results : Minimal(R)

(* The search does not come back empty-handed: the innermost call has a    *)
(* constraint to visit or something has been reported already.             *)
Found ==
    phase = "search" =>
        /\ ~Satisfiable(Constraint)
        /\ results # {} \/ (stack # <<>> /\ Top.todo # {})

(* Each constraint that the first answer leaves out is still to be visited *)
(* by the first call, or in what the innermost call extends, or reported.  *)
Pending(n) == Len(stack) > 1 /\ n \in Top.conf /\ Top.todo # {}
Root ==
    phase = "search" /\ stack # <<>> =>
        \A n \in Constraint \ stack[1].enab :
            n \in stack[1].todo \/ n \in UNION results \/ Pending(n)

Hit == \A S \in conflicts : S \intersect UNION results # {}
Ended ==
    /\ phase = "start" => stack = <<>> /\ results = {}
    /\ phase = "search" /\ stack = <<>> => Hit
    /\ phase = "done" => Hit /\ (results = {} <=> Satisfiable(Constraint))

AnalysisInv == Types /\ Frames /\ Reports /\ Found /\ Root /\ Ended

(***************************************************************************)
(* Facts about the sets of constraints.                                    *)
(***************************************************************************)
(* What agrees still agrees with less.                                     *)
LEMMA SatisfiableLess ==
    ASSUME Types, NEW S, NEW T \in SUBSET Constraint, S \subseteq T, Satisfiable(T)
    PROVE  Satisfiable(S)
  BY DEF Types, Satisfiable, Monotone

LEMMA TopFacts ==
    ASSUME Types, stack # <<>>
    PROVE  /\ Len(stack) \in Nat \ {0} /\ Top \in Frame
           /\ Below \in Seq(Frame) /\ Len(Below) = Len(stack) - 1
           /\ \A j \in 1..(Len(stack) - 1) : Below[j] = stack[j]
  <1>1. Len(stack) \in Nat /\ Len(stack) # 0 /\ \A j \in 1..Len(stack) : stack[j] \in Frame
    BY DEF Types
  <1>2. Below = [j \in 1..(Len(stack) - 1) |-> stack[j]]
    BY <1>1 DEF Below
  <1>3. Below \in [1..(Len(stack) - 1) -> Frame]
    BY <1>1, <1>2
  <1> QED BY <1>1, <1>2, <1>3 DEF Top

(* There is a next constraint to visit.                                    *)
LEMMA NextKeyFacts ==
    ASSUME Types, stack # <<>>, Top.todo # {}
    PROVE  NextKey \in Top.todo
  <1>1. Top.todo \subseteq Nat
    BY TopFacts, ConstraintAssumption DEF Frame
  <1>2. PICK n \in Top.todo : \A m \in Top.todo : ~(<<m, n>> \in OpToRel(<, Nat))
    BY <1>1, NatLessThanWellFounded, WFMin, Zenon
  <1>3. \A m \in Top.todo : ~(m < n)
    BY <1>1, <1>2 DEF OpToRel
  <1>4. \A m \in Top.todo : n <= m
    BY <1>1, <1>3
  <1> QED BY <1>4 DEF NextKey

(* A constraint that was left out is needed for what it is added to.       *)
LEMMA Extended ==
    ASSUME Types, NEW e \in Frame, Fruitful(e), NEW n \in e.todo
    PROVE  \A k \in e.conf \union {n} :
              /\ Satisfiable((e.conf \union {n}) \ {k})
              /\ Satisfiable(((e.conf \union {n}) \ {k}) \union e.enab)
  <1>1. ASSUME NEW k \in e.conf \union {n}
        PROVE  Satisfiable(((e.conf \union {n}) \ {k}) \union e.enab)
    <2>1. CASE k = n
      <3>1. e.conf \union e.enab \in SUBSET Constraint
        BY DEF Frame
      <3> QED BY <2>1, <3>1, SatisfiableLess DEF Fruitful
    <2>2. CASE k \in e.conf
      <3>1. (e.conf \ {k}) \union e.enab \union e.todo \in SUBSET Constraint
        BY DEF Frame
      <3>2. ((e.conf \union {n}) \ {k}) \union e.enab
              \subseteq (e.conf \ {k}) \union e.enab \union e.todo
        OBVIOUS
      <3> QED BY <2>2, <3>1, <3>2, SatisfiableLess DEF Fruitful
    <2> QED BY <2>1, <2>2
  <1>2. ASSUME NEW k \in e.conf \union {n} PROVE Satisfiable((e.conf \union {n}) \ {k})
    <2>1. ((e.conf \union {n}) \ {k}) \union e.enab \in SUBSET Constraint
      BY DEF Frame
    <2> QED BY <1>1, <2>1, SatisfiableLess
  <1> QED BY <1>1, <1>2

(* Fewer constraints left to visit do no harm.                             *)
LEMMA LessToDo ==
    ASSUME Types, NEW e \in Frame, Fruitful(e), NEW n
    PROVE  /\ [e EXCEPT !.todo = @ \ {n}] \in Frame
           /\ Fruitful([e EXCEPT !.todo = @ \ {n}])
  <1> DEFINE d == [e EXCEPT !.todo = @ \ {n}]
  <1>1. d \in Frame /\ d.enab = e.enab /\ d.conf = e.conf /\ d.todo \subseteq e.todo
    BY DEF Frame
  <1>2. ASSUME NEW k \in d.conf PROVE Satisfiable((d.conf \ {k}) \union d.enab \union d.todo)
    <2>1. (e.conf \ {k}) \union e.enab \union e.todo \in SUBSET Constraint
      BY DEF Frame
    <2> QED BY <1>1, <1>2, <2>1, SatisfiableLess DEF Fruitful
  <1> QED BY <1>1, <1>2 DEF Fruitful

LEMMA AppendFacts ==
    ASSUME NEW s \in Seq(Frame), NEW e \in Frame
    PROVE  /\ Append(s, e) \in Seq(Frame) /\ Append(s, e) # <<>>
           /\ Len(Append(s, e)) = Len(s) + 1
           /\ Append(s, e)[Len(s) + 1] = e
           /\ \A j \in 1..Len(s) : Append(s, e)[j] = s[j]
  OBVIOUS

(***************************************************************************)
(* Steps.                                                                  *)
(***************************************************************************)
LEMMA ConflictsKept ==
    ASSUME conflicts' = conflicts
    PROVE  /\ \A S : Satisfiable(S)' = Satisfiable(S)
           /\ \A R : Minimal(R)' = Minimal(R)
           /\ \A e : Fruitful(e)' = Fruitful(e)
  BY DEF Satisfiable, Minimal, Fruitful

LEMMA InitInv == AnalysisInit => AnalysisInv
  <1> SUFFICES ASSUME AnalysisInit PROVE AnalysisInv
    OBVIOUS
  <1> USE DEF AnalysisInit
  <1>1. Types
    BY DEF Types
  <1>2. Len(stack) = 0
    OBVIOUS
  <1> QED BY <1>1, <1>2 DEF AnalysisInv, Frames, Reports, Found, Root, Ended

(* The whole set agrees.                                                   *)
LEMMA StartAgreeing ==
    ASSUME AnalysisInv, phase = "start", Satisfiable(Constraint), phase' = "done",
           UNCHANGED <<conflicts, stack, results>>
    PROVE  AnalysisInv'
  <1>1. Types' /\ results = {} /\ stack = <<>> /\ Len(stack) = 0
    BY DEF AnalysisInv, Types, Ended
  <1>2. conflicts = {}
    BY DEF AnalysisInv, Types, Monotone, Satisfiable
  <1>3. Hit'
    BY <1>2 DEF Hit
  <1> QED BY <1>1, <1>3, ConflictsKept DEF AnalysisInv, Frames, Reports, Found, Root, Ended

(* There is one constraint, which contradicts itself.                      *)
LEMMA StartSingle ==
    ASSUME AnalysisInv, phase = "start", ~Satisfiable(Constraint), Cardinality(Constraint) = 1,
           phase' = "done", results' = {Constraint}, UNCHANGED <<conflicts, stack>>
    PROVE  AnalysisInv'
  <1>1. Types' /\ stack = <<>> /\ Len(stack) = 0
    BY DEF AnalysisInv, Types, Ended
  <1>2. PICK x : Constraint = {x}
    BY ConstraintAssumption, FS_Singleton
  <1>3. Satisfiable({}) /\ conflicts \subseteq SUBSET Constraint /\ {} \notin conflicts
    BY DEF AnalysisInv, Types, Satisfiable
  <1>4. Minimal(Constraint)
    BY <1>2, <1>3 DEF Minimal
  <1>5. Reports'
    BY <1>4, ConflictsKept DEF Reports
  <1>6. Hit'
    <2>1. UNION results' = Constraint /\ conflicts' = conflicts
      OBVIOUS
    <2>2. ASSUME NEW S \in conflicts PROVE S \intersect Constraint # {}
      <3>1. S \subseteq Constraint /\ S # {}
        BY <1>3
      <3> QED BY <3>1
    <2> QED BY <2>1, <2>2 DEF Hit
  <1>7. results' # {}
    OBVIOUS
  <1> QED BY <1>1, <1>5, <1>6, <1>7, ConflictsKept DEF AnalysisInv, Frames, Found, Root, Ended

(* The first call: conf is empty, and everything can be enabled.           *)
LEMMA StartSearch ==
    ASSUME AnalysisInv, phase = "start", ~Satisfiable(Constraint), phase' = "search",
           Search(<<>>, Constraint, {}), conflicts' = conflicts
    PROVE  AnalysisInv'
  <1>1. Types /\ Satisfiable({}) /\ results = {}
    BY DEF AnalysisInv, Types, Satisfiable, Ended
  <1>2. results' = results
    BY <1>1 DEF Search
  <1>3. PICK M \in Answers(Constraint, {}) :
          stack' = Append(<<>>, [enab |-> M, todo |-> Constraint \ M, conf |-> {}])
    BY <1>1 DEF Search
  <1> DEFINE e == [enab |-> M, todo |-> Constraint \ M, conf |-> {}]
  <1>4. M \subseteq Constraint /\ M # Constraint /\ Satisfiable({} \union M)
    BY DEF Answers
  <1>5. e \in Frame /\ e.enab = M /\ e.todo = Constraint \ M /\ e.conf = {}
    BY <1>4 DEF Frame
  <1> HIDE DEF e
  <1>6. /\ stack' \in Seq(Frame) /\ stack' # <<>> /\ Len(stack') = 1
        /\ stack'[1] = e /\ stack'[Len(stack')] = e
    BY <1>3, <1>5 DEF e
  <1>7. Fruitful(e)
    BY <1>4, <1>5 DEF Fruitful
  <1>8. Types'
    BY <1>1, <1>2, <1>6 DEF Types
  <1>9. Frames'
    <2>1. \A j \in 1..Len(stack') : stack'[j] = e
      BY <1>6
    <2> QED BY <1>7, <2>1, ConflictsKept DEF Frames
  <1>10. Reports' /\ Ended'
    BY <1>1, <1>2, <1>6 DEF Reports, Ended
  <1>11. Found'
    <2>1. e.todo # {}
      BY <1>4, <1>5
    <2> QED BY <1>6, <2>1, ConflictsKept DEF Found, Top
  <1>12. Root'
    BY <1>5, <1>6 DEF Root
  <1> QED BY <1>8, <1>9, <1>10, <1>11, <1>12 DEF AnalysisInv

(* The stack when the innermost call visits its next constraint.           *)
Visited == Append(Below, [Top EXCEPT !.todo = @ \ {NextKey}])

LEMMA VisitedFacts ==
    ASSUME Types, Frames, stack # <<>>, Top.todo # {}
    PROVE  /\ Visited \in Seq(Frame) /\ Visited # <<>> /\ Len(Visited) = Len(stack)
           /\ \A j \in 1..Len(Visited) : Fruitful(Visited[j])
           /\ Visited[1].enab = stack[1].enab
           /\ stack[1].todo \subseteq Visited[1].todo \union {NextKey}
           /\ NextKey \in Top.todo /\ NextKey \in Constraint
           /\ Top \in Frame /\ Fruitful(Top) /\ Len(stack) \in Nat \ {0}
  <1> DEFINE d == [Top EXCEPT !.todo = @ \ {NextKey}]
  <1>1. /\ Len(stack) \in Nat \ {0} /\ Top \in Frame
        /\ Below \in Seq(Frame) /\ Len(Below) = Len(stack) - 1
        /\ \A j \in 1..(Len(stack) - 1) : Below[j] = stack[j]
    BY TopFacts
  <1>2. Fruitful(Top)
    BY <1>1 DEF Frames, Top
  <1>3. d \in Frame /\ Fruitful(d)
    BY <1>1, <1>2, LessToDo
  <1>4. d.enab = Top.enab /\ Top.todo \subseteq d.todo \union {NextKey}
    BY <1>1 DEF Frame
  <1> HIDE DEF d
  <1>5. Visited = Append(Below, d)
    BY DEF Visited, d
  <1>6. /\ Visited \in Seq(Frame) /\ Visited # <<>> /\ Len(Visited) = Len(stack)
        /\ Visited[Len(stack)] = d
        /\ \A j \in 1..(Len(stack) - 1) : Visited[j] = stack[j]
    BY <1>1, <1>3, <1>5, AppendFacts
  <1>7. \A j \in 1..Len(Visited) : Fruitful(Visited[j])
    <2> SUFFICES ASSUME NEW j \in 1..Len(stack) PROVE Fruitful(Visited[j])
      BY <1>6
    <2>1. j = Len(stack) \/ j \in 1..(Len(stack) - 1)
      BY <1>1
    <2> QED BY <1>3, <1>6, <2>1 DEF Frames
  <1>8. NextKey \in Top.todo /\ NextKey \in Constraint
    BY <1>1, NextKeyFacts DEF Frame
  <1>9. Len(stack) > 1 => Visited[1] = stack[1]
    BY <1>1, <1>6
  <1>10. Len(stack) = 1 => Visited[1] = d /\ Top = stack[1]
    BY <1>6 DEF Top
  <1>11. /\ Visited[1].enab = stack[1].enab
         /\ stack[1].todo \subseteq Visited[1].todo \union {NextKey}
    <2>1. Len(stack) = 1 \/ Len(stack) > 1
      BY <1>1
    <2> QED BY <1>4, <1>9, <1>10, <2>1
  <1> QED BY <1>1, <1>2, <1>6, <1>7, <1>8, <1>11

LEMMA VisitReports ==
    ASSUME AnalysisInv, Visit, ~Satisfiable(Top.conf \union {NextKey})
    PROVE  AnalysisInv'
  <1> DEFINE R == Top.conf \union {NextKey}
  <1>1. /\ Types /\ Frames /\ phase = "search" /\ stack # <<>> /\ Top.todo # {}
        /\ conflicts' = conflicts /\ phase' = phase
    BY DEF AnalysisInv, Visit
  <1>2. results' = results \union {R} /\ stack' = Visited
    BY DEF Visit, Search, Visited
  <1>3. R \subseteq Constraint /\ NextKey \in R
    BY <1>1, VisitedFacts DEF Frame
  <1>4. Types'
    BY <1>1, <1>2, <1>3, VisitedFacts DEF Types
  <1>5. Frames'
    BY <1>1, <1>2, VisitedFacts, ConflictsKept DEF Frames
  <1>6. Reports'
    <2>1. Minimal(R)
      BY <1>1, VisitedFacts, Extended DEF Minimal
    <2> QED BY <1>1, <1>2, <2>1, ConflictsKept DEF AnalysisInv, Reports
  <1>7. Found' /\ Ended'
    <2>1. stack' # <<>> /\ results' # {}
      BY <1>1, <1>2, VisitedFacts
    <2> QED BY <1>1, <2>1, ConflictsKept DEF AnalysisInv, Found, Ended
  <1>8. Root'
    <2> SUFFICES ASSUME NEW n \in Constraint \ stack'[1].enab
                 PROVE  n \in stack'[1].todo \/ n \in UNION results'
      BY DEF Root
    <2>1. n \in Constraint \ stack[1].enab
      BY <1>1, <1>2, VisitedFacts
    <2>2. n \in stack[1].todo \/ n \in UNION results \/ Pending(n)
      BY <1>1, <2>1 DEF AnalysisInv, Root
    <2>3. CASE n \in stack[1].todo
      BY <1>1, <1>2, <1>3, <2>3, VisitedFacts
    <2>4. CASE n \in UNION results
      BY <1>2, <2>4
    <2>5. CASE Pending(n)
      BY <1>2, <2>5 DEF Pending
    <2> QED BY <2>2, <2>3, <2>4, <2>5
  <1> QED BY <1>4, <1>5, <1>6, <1>7, <1>8 DEF AnalysisInv

LEMMA VisitDescends ==
    ASSUME AnalysisInv, Visit, Satisfiable(Top.conf \union {NextKey})
    PROVE  AnalysisInv'
  <1> DEFINE R == Top.conf \union {NextKey}
  <1>1. /\ Types /\ Frames /\ phase = "search" /\ stack # <<>> /\ Top.todo # {}
        /\ conflicts' = conflicts /\ phase' = phase
    BY DEF AnalysisInv, Visit
  <1>2. results' = results
    BY DEF Visit, Search
  <1>3. PICK M \in Answers(Top.enab, R) :
          stack' = Append(Visited, [enab |-> M, todo |-> Top.enab \ M, conf |-> R])
    BY DEF Visit, Search, Visited
  <1> DEFINE e == [enab |-> M, todo |-> Top.enab \ M, conf |-> R]
  <1>4. M \subseteq Top.enab /\ M # Top.enab /\ Satisfiable(R \union M)
    BY DEF Answers
  <1>5. e \in Frame /\ e.enab = M /\ e.todo = Top.enab \ M /\ e.conf = R
    BY <1>1, <1>4, VisitedFacts DEF Frame
  <1>6. Fruitful(e)
    <2>1. e.enab \union e.todo = Top.enab
      BY <1>4, <1>5
    <2>2. \A k \in R : Satisfiable((R \ {k}) \union Top.enab)
      BY <1>1, VisitedFacts, Extended
    <2>3. ASSUME NEW k \in e.conf PROVE Satisfiable((e.conf \ {k}) \union e.enab \union e.todo)
      <3>1. (e.conf \ {k}) \union e.enab \union e.todo = (R \ {k}) \union Top.enab
        BY <1>5, <2>1
      <3> QED BY <1>5, <2>2, <2>3, <3>1
    <2>4. Satisfiable(e.conf \union e.enab)
      BY <1>4, <1>5
    <2> QED BY <2>3, <2>4 DEF Fruitful
  <1>7. e.todo # {} /\ NextKey \in e.conf /\ Top.conf \subseteq e.conf
    BY <1>4, <1>5
  <1> HIDE DEF e
  <1>8. /\ stack' \in Seq(Frame) /\ stack' # <<>> /\ Len(stack') = Len(stack) + 1
        /\ stack'[Len(stack) + 1] = e /\ stack'[1] = Visited[1]
        /\ \A j \in 1..Len(stack) : stack'[j] = Visited[j]
    BY <1>1, <1>3, <1>5, VisitedFacts, AppendFacts DEF e
  <1>9. Top' = e
    BY <1>8 DEF Top
  <1>10. Types'
    BY <1>1, <1>2, <1>8 DEF Types
  <1>11. Frames'
    <2> SUFFICES ASSUME NEW j \in 1..(Len(stack) + 1) PROVE Fruitful(stack'[j])
      BY <1>1, <1>8, ConflictsKept DEF Frames
    <2>1. j = Len(stack) + 1 \/ j \in 1..Len(stack)
      BY <1>1, VisitedFacts
    <2> QED BY <1>1, <1>6, <1>8, <2>1, VisitedFacts
  <1>12. Reports'
    BY <1>1, <1>2, ConflictsKept DEF AnalysisInv, Reports
  <1>13. Found' /\ Ended'
    BY <1>1, <1>7, <1>8, <1>9, ConflictsKept DEF AnalysisInv, Found, Ended
  <1>14. Root'
    <2>1. Len(stack') > 1
      BY <1>1, <1>8, VisitedFacts
    <2> SUFFICES ASSUME NEW n \in Constraint \ stack'[1].enab
                 PROVE  n \in stack'[1].todo \/ n \in UNION results' \/ n \in e.conf
      BY <1>7, <1>9, <2>1 DEF Root, Pending
    <2>2. n \in Constraint \ stack[1].enab
      BY <1>1, <1>8, VisitedFacts
    <2>3. n \in stack[1].todo \/ n \in UNION results \/ Pending(n)
      BY <1>1, <2>2 DEF AnalysisInv, Root
    <2>4. CASE n \in stack[1].todo
      BY <1>1, <1>7, <1>8, <2>4, VisitedFacts
    <2>5. CASE n \in UNION results
      BY <1>2, <2>5
    <2>6. CASE Pending(n)
      BY <1>7, <2>6 DEF Pending
    <2> QED BY <2>3, <2>4, <2>5, <2>6
  <1> QED BY <1>10, <1>11, <1>12, <1>13, <1>14 DEF AnalysisInv

LEMMA ReturnKeeps == AnalysisInv /\ Return => AnalysisInv'
  <1> SUFFICES ASSUME AnalysisInv, Return PROVE AnalysisInv'
    OBVIOUS
  <1>1. /\ Types /\ Frames /\ phase = "search" /\ stack # <<>> /\ Top.todo = {} /\ stack' = Below
        /\ UNCHANGED <<conflicts, results, phase>>
    BY DEF AnalysisInv, Return
  <1>2. /\ Len(stack) \in Nat \ {0} /\ Top \in Frame
        /\ Below \in Seq(Frame) /\ Len(Below) = Len(stack) - 1
        /\ \A j \in 1..(Len(stack) - 1) : Below[j] = stack[j]
    BY <1>1, TopFacts
  <1>3. results # {} /\ ~Satisfiable(Constraint)
    BY <1>1 DEF AnalysisInv, Found
  <1>4. Types'
    BY <1>1, <1>2 DEF Types
  <1>5. Frames' /\ Reports'
    BY <1>1, <1>2, ConflictsKept DEF AnalysisInv, Frames, Reports
  <1>6. Found'
    BY <1>1, <1>3, ConflictsKept DEF Found
  <1>7. \A n \in Constraint \ stack[1].enab : n \in stack[1].todo \/ n \in UNION results
    BY <1>1 DEF AnalysisInv, Root, Pending
  <1>8. Root'
    <2>1. CASE stack' = <<>>
      BY <2>1 DEF Root
    <2>2. CASE stack' # <<>>
      <3>1. stack'[1] = stack[1]
        <4>1. Len(Below) # 0
          BY <1>1, <1>2, <2>2
        <4> QED BY <1>1, <1>2, <4>1
      <3> QED BY <1>1, <1>7, <3>1 DEF Root
    <2> QED BY <2>1, <2>2
  <1>9. ASSUME stack' = <<>> PROVE Hit
    <2>1. Len(stack) = 1
      BY <1>1, <1>2, <1>9
    <2>2. stack[1] = Top /\ Top.enab \subseteq Constraint
      BY <1>2, <2>1 DEF Top, Frame
    <2>3. \A n \in Constraint \ Top.enab : n \in UNION results
      BY <1>1, <1>7, <2>2
    <2>4. Satisfiable(Top.conf \union Top.enab) /\ Top.conf \union Top.enab \in SUBSET Constraint
      BY <1>1, <1>2, <2>1, <2>2 DEF Frames, Fruitful, Frame
    <2>5. ASSUME NEW S \in conflicts PROVE S \intersect UNION results # {}
      <3>1. ~(S \subseteq Top.enab)
        BY <1>1, <2>4, SatisfiableLess DEF Satisfiable
      <3>2. S \subseteq Constraint
        BY <1>1 DEF Types
      <3> QED BY <2>3, <3>1, <3>2
    <2> QED BY <2>5 DEF Hit
  <1>10. Ended'
    BY <1>1, <1>9 DEF Ended, Hit
  <1> QED BY <1>4, <1>5, <1>6, <1>8, <1>10 DEF AnalysisInv

LEMMA FinishKeeps == AnalysisInv /\ Finish => AnalysisInv'
  <1> SUFFICES ASSUME AnalysisInv, Finish PROVE AnalysisInv'
    OBVIOUS
  <1>1. /\ Types /\ Frames /\ phase = "search" /\ stack = <<>> /\ phase' = "done"
        /\ UNCHANGED <<conflicts, stack, results>>
    BY DEF AnalysisInv, Finish
  <1>2. results # {} /\ ~Satisfiable(Constraint) /\ Hit
    BY <1>1 DEF AnalysisInv, Found, Ended
  <1>3. Types'
    BY <1>1 DEF Types
  <1>4. Frames' /\ Reports'
    BY <1>1, ConflictsKept DEF AnalysisInv, Frames, Reports
  <1>5. Ended'
    BY <1>1, <1>2, ConflictsKept DEF Ended, Hit
  <1> QED BY <1>1, <1>3, <1>4, <1>5 DEF AnalysisInv, Found, Root

(***************************************************************************)
(* The invariant, and what follows from it.                                *)
(***************************************************************************)
LEMMA NextKeeps == AnalysisInv /\ [AnalysisNext]_analysisVars => AnalysisInv'
  <1> SUFFICES ASSUME AnalysisInv, [AnalysisNext]_analysisVars PROVE AnalysisInv'
    OBVIOUS
  <1>1. CASE Start
    <2>1. phase = "start" /\ conflicts' = conflicts
      BY <1>1 DEF Start
    <2>2. CASE Satisfiable(Constraint)
      BY <1>1, <2>1, <2>2, StartAgreeing DEF Start
    <2>3. CASE ~Satisfiable(Constraint) /\ Cardinality(Constraint) = 1
      BY <1>1, <2>1, <2>3, StartSingle DEF Start
    <2>4. CASE ~Satisfiable(Constraint) /\ Cardinality(Constraint) # 1
      BY <1>1, <2>1, <2>4, StartSearch DEF Start
    <2> QED BY <2>2, <2>3, <2>4
  <1>2. CASE Visit
    BY <1>2, VisitReports, VisitDescends
  <1>3. CASE Return
    BY <1>3, ReturnKeeps
  <1>4. CASE Finish
    BY <1>4, FinishKeeps
  <1>5. CASE UNCHANGED analysisVars
    <2>1. UNCHANGED <<conflicts, stack, results, phase>>
      BY <1>5 DEF analysisVars
    <2>2. Types' /\ Root' /\ Found' /\ Ended'
      BY <2>1 DEF AnalysisInv, Types, Root, Found, Ended, Pending, Hit, Top, Satisfiable
    <2>3. Frames' /\ Reports'
      BY <2>1, ConflictsKept DEF AnalysisInv, Frames, Reports
    <2> QED BY <2>2, <2>3 DEF AnalysisInv
  <1> QED BY <1>1, <1>2, <1>3, <1>4, <1>5 DEF AnalysisNext

LEMMA AnalysisInvAlways == AnalysisSpec => []AnalysisInv
  BY InitInv, NextKeeps, PTL DEF AnalysisSpec

(* For every set of constraints and whatever contradicts in it: each set   *)
(* that analyze_conflicts reports is a contradiction no constraint of      *)
(* which can be spared, there is a report exactly if the constraints       *)
(* contradict one another, and no contradiction is without a constraint in *)
(* a report.  This is what VariableDefaultSolver takes analyze_conflicts   *)
(* to answer.                                                              *)
THEOREM ConflictsExactAlways == AnalysisSpec => []ConflictsExact
  <1>1. AnalysisInv => ConflictsExact
    BY DEF AnalysisInv, Reports, Minimal, Ended, Hit, ConflictsExact
  <1> QED BY <1>1, AnalysisInvAlways, PTL
=============================================================================
