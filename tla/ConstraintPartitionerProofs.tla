--------------------- MODULE ConstraintPartitionerProofs ---------------------
(***************************************************************************)
(* Proofs about ConstraintPartitioner, for any number of constraints,      *)
(* variables and managers.                                                 *)
(***************************************************************************)
EXTENDS ConstraintPartitioner, SequenceTheorems, WellFoundedInduction, TLAPS

Injective(s) == \A i, j \in 1..Len(s) : s[i] = s[j] => i = j
Descending(s) == \A i, j \in 1..Len(s) : i < j => s[i] > s[j]

(***************************************************************************)
(* Facts about lists.                                                      *)
(***************************************************************************)

(* What is in a list.                                                      *)
LEMMA ElementOfList ==
    ASSUME NEW S, NEW s \in Seq(S), NEW k \in 1..Len(s)
    PROVE  s[k] \in S
  OBVIOUS

(* push_back adds one element.                                             *)
LEMMA ElementsAppend ==
    ASSUME NEW S, NEW s \in Seq(S), NEW c \in S
    PROVE  Elements(Append(s, c)) = Elements(s) \union {c}
  <1>1. \A x : x \in Elements(Append(s, c)) => x \in Elements(s) \union {c}
    BY DEF Elements
  <1>2. \A x \in Elements(s) : x \in Elements(Append(s, c))
    BY DEF Elements
  <1>3. c \in Elements(Append(s, c))
    <2>1. Append(s, c)[Len(s) + 1] = c /\ Len(s) + 1 \in 1..Len(Append(s, c))
      OBVIOUS
    <2> QED BY <2>1 DEF Elements
  <1> QED BY <1>1, <1>2, <1>3

(* The head and the tail of a non-empty list have its elements.            *)
LEMMA ElementsHeadTail ==
    ASSUME NEW S, NEW s \in Seq(S), s # <<>>
    PROVE  /\ Elements(s) = {Head(s)} \union Elements(Tail(s))
           /\ Head(s) \in S
           /\ Tail(s) \in Seq(S)
  <1>1. Head(s) \in S /\ Tail(s) \in Seq(S) /\ Head(s) = s[1] /\ Len(s) \in Nat \ {0}
    OBVIOUS
  <1>2. \A x \in Elements(s) : x \in {Head(s)} \union Elements(Tail(s))
    <2> TAKE x \in Elements(s)
    <2>1. PICK i \in 1..Len(s) : s[i] = x
      BY DEF Elements
    <2>2. CASE i = 1
      BY <2>1, <2>2, <1>1
    <2>3. CASE i # 1
      <3>1. i - 1 \in 1..Len(Tail(s)) /\ Tail(s)[i - 1] = x
        BY <2>1, <2>3, <1>1
      <3> QED BY <3>1 DEF Elements
    <2> QED BY <2>2, <2>3
  <1>3. \A x \in Elements(Tail(s)) : x \in Elements(s)
    <2> TAKE x \in Elements(Tail(s))
    <2>1. PICK i \in 1..Len(Tail(s)) : Tail(s)[i] = x
      BY DEF Elements
    <2>2. i + 1 \in 1..Len(s) /\ s[i + 1] = x
      BY <2>1, <1>1
    <2> QED BY <2>2 DEF Elements
  <1>4. Head(s) \in Elements(s)
    BY <1>1 DEF Elements
  <1> QED BY <1>1, <1>2, <1>3, <1>4

(* Taking the head off a list without repetitions.                         *)
LEMMA InjectiveTail ==
    ASSUME NEW S, NEW s \in Seq(S), s # <<>>, Injective(s)
    PROVE  Injective(Tail(s)) /\ Head(s) \notin Elements(Tail(s))
  <1>1. /\ Len(s) \in Nat \ {0} /\ Len(Tail(s)) = Len(s) - 1 /\ Head(s) = s[1]
        /\ \A i \in 1..Len(Tail(s)) : Tail(s)[i] = s[i + 1]
    OBVIOUS
  <1> QED BY <1>1 DEF Injective, Elements

LEMMA InjectiveAppend ==
    ASSUME NEW S, NEW s \in Seq(S), NEW c \in S, Injective(s), c \notin Elements(s)
    PROVE  Injective(Append(s, c))
  BY DEF Injective, Elements

(* ConstraintPartition::add finds a place for the constraint.              *)
LEMMA InsertPlaceExists ==
    ASSUME NEW s \in Seq(Nat), NEW c \in Nat
    PROVE  /\ InsertPlace(s, c) \in 1..(Len(s) + 1)
           /\ \A j \in 1..(InsertPlace(s, c) - 1) : s[j] > c
           /\ InsertPlace(s, c) <= Len(s) => s[InsertPlace(s, c)] <= c
  <1> DEFINE T == {i \in 1..(Len(s) + 1) : i <= Len(s) => s[i] <= c}
  <1>1. Len(s) + 1 \in T /\ T \subseteq Nat
    OBVIOUS
  <1>2. PICK i \in T : \A y \in T : ~ (<<y, i>> \in OpToRel(<, Nat))
    BY <1>1, NatLessThanWellFounded, WFMin, Zenon
  <1>3. \A y \in T : ~(y < i)
    BY <1>1, <1>2 DEF OpToRel
  <1>4. \A j \in 1..(i - 1) : s[j] > c
    BY <1>3
  <1> QED BY <1>4 DEF InsertPlace

(* What InsertAt computes, element by element.                             *)
LEMMA InsertAtProperties ==
    ASSUME NEW S, NEW s \in Seq(S), NEW p \in 1..(Len(s) + 1), NEW c \in S
    PROVE  /\ InsertAt(s, p, c) \in Seq(S)
           /\ Len(InsertAt(s, p, c)) = Len(s) + 1
           /\ \A i \in 1..(p - 1) : InsertAt(s, p, c)[i] = s[i]
           /\ InsertAt(s, p, c)[p] = c
           /\ \A i \in (p + 1)..(Len(s) + 1) : InsertAt(s, p, c)[i] = s[i - 1]
  <1> DEFINE l == SubSeq(s, 1, p - 1)
             r == SubSeq(s, p, Len(s))
  <1>1. /\ l \in Seq(S) /\ Len(l) = p - 1
        /\ \A i \in 1..(p - 1) : l[i] = s[i]
    OBVIOUS
  <1>2. /\ r \in Seq(S) /\ Len(r) = Len(s) - p + 1
        /\ \A i \in 1..(Len(s) - p + 1) : r[i] = s[p + i - 1]
    OBVIOUS
  <1>3. <<c>> \in Seq(S) /\ Len(<<c>>) = 1 /\ <<c>>[1] = c
    OBVIOUS
  <1> DEFINE lc == l \o <<c>>
  <1>4. /\ lc \in Seq(S) /\ Len(lc) = p
        /\ \A i \in 1..(p - 1) : lc[i] = s[i]
        /\ lc[p] = c
    <2> HIDE DEF l
    <2> QED BY <1>1, <1>3
  <1>5. InsertAt(s, p, c) = lc \o r
    BY DEF InsertAt
  <1> HIDE DEF lc, r
  <1>6. /\ lc \o r \in Seq(S) /\ Len(lc \o r) = Len(s) + 1
        /\ \A i \in 1..p : (lc \o r)[i] = lc[i]
        /\ \A i \in (p + 1)..(Len(s) + 1) : (lc \o r)[i] = r[i - p]
    BY <1>2, <1>4
  <1>7. \A i \in (p + 1)..(Len(s) + 1) : r[i - p] = s[i - 1]
    BY <1>2
  <1> QED BY <1>4, <1>5, <1>6, <1>7

(* add() puts one constraint into the list and keeps the ids descending.   *)
LEMMA AddMemberProperties ==
    ASSUME NEW s \in Seq(Constraint), NEW c \in Constraint
    PROVE  /\ AddMember(s, c) \in Seq(Constraint)
           /\ Elements(AddMember(s, c)) = Elements(s) \union {c}
           /\ Descending(s) /\ c \notin Elements(s) => Descending(AddMember(s, c))
  <1> DEFINE p == InsertPlace(s, c)
             t == AddMember(s, c)
  <1>1. s \in Seq(Nat) /\ c \in Nat /\ Len(s) \in Nat
    <2>1. s \in Seq(Nat)
      BY ConstraintAssumption, SeqMonotonic, Zenon
    <2> QED BY <2>1, ConstraintAssumption
  <1>2. /\ p \in 1..(Len(s) + 1)
        /\ \A j \in 1..(p - 1) : s[j] > c
        /\ p <= Len(s) => s[p] <= c
    BY <1>1, InsertPlaceExists
  <1>3. /\ t \in Seq(Constraint) /\ Len(t) = Len(s) + 1
        /\ \A i \in 1..(p - 1) : t[i] = s[i]
        /\ t[p] = c
        /\ \A i \in (p + 1)..(Len(s) + 1) : t[i] = s[i - 1]
    <2>1. t = InsertAt(s, p, c)
      BY DEF AddMember
    <2> HIDE DEF p, t
    <2> QED BY <1>2, <2>1, InsertAtProperties
  <1> HIDE DEF p, t
  <1>4. Elements(t) = Elements(s) \union {c}
    <2>1. \A i \in 1..Len(t) : t[i] \in Elements(s) \union {c}
      <3> TAKE i \in 1..Len(t)
      <3>1. CASE i < p
        BY <3>1, <1>1, <1>2, <1>3 DEF Elements
      <3>2. CASE i = p
        BY <3>2, <1>3
      <3>3. CASE i > p
        <4>1. i - 1 \in 1..Len(s) /\ t[i] = s[i - 1]
          BY <3>3, <1>1, <1>2, <1>3
        <4> QED BY <4>1 DEF Elements
      <3> QED BY <3>1, <3>2, <3>3, <1>1, <1>2, <1>3
    <2>2. \A i \in 1..Len(s) : s[i] \in Elements(t)
      <3> TAKE i \in 1..Len(s)
      <3>1. CASE i < p
        BY <3>1, <1>1, <1>2, <1>3 DEF Elements
      <3>2. CASE ~(i < p)
        <4>1. i + 1 \in 1..Len(t) /\ t[i + 1] = s[i]
          BY <3>2, <1>1, <1>2, <1>3
        <4> QED BY <4>1 DEF Elements
      <3> QED BY <3>1, <3>2
    <2>3. c \in Elements(t)
      BY <1>1, <1>2, <1>3 DEF Elements
    <2> QED BY <2>1, <2>2, <2>3 DEF Elements
  <1>5. ASSUME Descending(s), c \notin Elements(s)
        PROVE  Descending(t)
    <2>1. \A i \in 1..Len(s) : s[i] \in Nat /\ s[i] # c
      BY <1>1, <1>5 DEF Elements
    <2>2. \A i \in p..Len(s) : s[i] < c
      BY <1>1, <1>2, <1>5, <2>1 DEF Descending
    <2> SUFFICES ASSUME NEW i \in 1..Len(t), NEW j \in 1..Len(t), i < j
                 PROVE  t[i] > t[j]
      BY DEF Descending
    <2>3. CASE j < p
      BY <1>1, <1>2, <1>3, <1>5, <2>3 DEF Descending
    <2>4. CASE j = p
      BY <1>1, <1>2, <1>3, <2>4
    <2>5. CASE j > p /\ i = p
      <3>1. t[i] = c /\ t[j] = s[j - 1] /\ s[j - 1] < c /\ s[j - 1] \in Nat
        BY <1>1, <1>2, <1>3, <2>1, <2>2, <2>5
      <3> QED BY <3>1, <1>1
    <2>6. CASE j > p /\ i < p
      <3>1. t[i] = s[i] /\ s[i] > c /\ t[j] = s[j - 1] /\ s[j - 1] < c
        BY <1>1, <1>2, <1>3, <2>2, <2>6
      <3> QED BY <3>1, <1>1, <1>3, <2>1, <2>6
    <2>7. CASE j > p /\ i > p
      <3>1. t[i] = s[i - 1] /\ t[j] = s[j - 1] /\ i - 1 < j - 1
            /\ i - 1 \in 1..Len(s) /\ j - 1 \in 1..Len(s)
        BY <1>1, <1>2, <1>3, <2>7
      <3> QED BY <3>1, <1>5 DEF Descending
    <2> QED BY <1>1, <1>2, <1>3, <2>3, <2>4, <2>5, <2>6, <2>7
  <1> QED BY <1>3, <1>4, <1>5 DEF t

(***************************************************************************)
(* The inductive invariant.                                                *)
(***************************************************************************)

(* Where the control is, which lists are empty.                            *)
ControlShape ==
    /\ pc # "merge" => todo = <<>>
    /\ pc # "scan" => skipped = <<>> /\ cp = EmptyPartition
    /\ pc \in {"gather", "merge"} => partitions = <<>>
    /\ pc = "done" => rest = <<>>

(* As long as a pass has added nothing, what it left behind shares no      *)
(* variable with the partition being grown.                                *)
PassInv ==
    pc = "scan" /\ ~changed =>
        \A c \in Elements(skipped) : cp.support \intersect SupportVars(c) = {}

(* No constraint is in two places.                                         *)
Distinct ==
    /\ Injective(todo)
    /\ Injective(rest)
    /\ Injective(skipped)
    /\ Elements(rest) \intersect Elements(skipped) = {}
    /\ (Elements(rest) \union Elements(skipped)) \intersect Members(cp) = {}
    /\ \A i \in 1..Len(partitions) :
          /\ Members(partitions[i]) \intersect
                (Elements(rest) \union Elements(skipped) \union Members(cp)) = {}
          /\ \A j \in 1..Len(partitions) :
                i # j => Members(partitions[i]) \intersect Members(partitions[j]) = {}

(* What has been gathered is in the list or in a partition.                *)
Accounted ==
    /\ Elements(todo) \subseteq UNION {Elements(Owned[m]) : m \in constr_mngs}
    /\ Gathered = Elements(rest) \union Elements(skipped) \union Members(cp)
                    \union UNION {Members(p) : p \in Elements(partitions)}

(* What every partition satisfies, finished or not.                        *)
GoodPartition(p) ==
    /\ p.support = UNION {SupportVars(c) : c \in Members(p)}
    /\ Descending(p.members)
    /\ Linked(Members(p))
    /\ \A v \in Var : Elements(p.single[v]) =
            {c \in Members(p) : IsHard(c) /\ SupportVars(c) = {v}}

AllGood == \A p \in Elements(partitions) \union {cp} : GoodPartition(p)

SepInv == TypeOK /\ ControlShape /\ PassInv /\ Separated

IInv == SepInv /\ Distinct /\ Accounted /\ AllGood

(***************************************************************************)
(* What add() does to a partition.                                         *)
(***************************************************************************)
LEMMA MembersElements == ASSUME NEW p PROVE Members(p) = Elements(p.members)
  BY DEF Members, Elements

LEMMA EmptyPartitionType ==
    /\ EmptyPartition \in PartitionType
    /\ EmptyPartition.members = <<>>
    /\ EmptyPartition.support = {}
    /\ \A v \in Var : EmptyPartition.single[v] = <<>>
    /\ Members(EmptyPartition) = {}
  <1>1. <<>> \in Seq(Constraint) /\ Len(<<>>) = 0
    OBVIOUS
  <1> QED BY <1>1 DEF EmptyPartition, PartitionType, Members

LEMMA AttrFields ==
    ASSUME attr \in [Constraint -> Attr], NEW c \in Constraint
    PROVE  SupportVars(c) \subseteq Var
  <1>1. attr[c] \in [support : SUBSET Var, kind : Kind, enabled : BOOLEAN]
    BY AttrAssumption
  <1> QED BY <1>1 DEF SupportVars

LEMMA AddProperties ==
    ASSUME attr \in [Constraint -> Attr], NEW p \in PartitionType,
           NEW c \in Constraint
    PROVE  /\ Add(p, c) \in PartitionType
           /\ Members(Add(p, c)) = Members(p) \union {c}
           /\ Add(p, c).support = p.support \union SupportVars(c)
           /\ Descending(p.members) /\ c \notin Members(p)
                => Descending(Add(p, c).members)
           /\ \A v \in Var : Elements(Add(p, c).single[v]) =
                  Elements(p.single[v]) \union
                    (IF IsHard(c) /\ SupportVars(c) = {v} THEN {c} ELSE {})
  <1>1. /\ p.members \in Seq(Constraint)
        /\ p.support \subseteq Var
        /\ p.single \in [Var -> Seq(Constraint)]
    BY DEF PartitionType
  <1>2. SupportVars(c) \subseteq Var
    BY AttrFields
  <1>3. /\ Add(p, c).members = AddMember(p.members, c)
        /\ Add(p, c).support = p.support \union SupportVars(c)
        /\ Add(p, c).single = AddSingle(p.single, c)
    BY DEF Add
  <1>4. /\ AddMember(p.members, c) \in Seq(Constraint)
        /\ Elements(AddMember(p.members, c)) = Elements(p.members) \union {c}
        /\ Descending(p.members) /\ c \notin Elements(p.members)
             => Descending(AddMember(p.members, c))
    BY <1>1, AddMemberProperties
  <1>5. /\ AddSingle(p.single, c) \in [Var -> Seq(Constraint)]
        /\ \A v \in Var : AddSingle(p.single, c)[v] =
              IF IsHard(c) /\ SupportVars(c) = {v}
              THEN Append(p.single[v], c) ELSE p.single[v]
    <2>1. \A v \in Var : /\ p.single[v] \in Seq(Constraint)
                         /\ Append(p.single[v], c) \in Seq(Constraint)
      BY <1>1
    <2> QED BY <2>1 DEF AddSingle
  <1>6. Add(p, c) \in PartitionType
    BY <1>1, <1>2, <1>4, <1>5 DEF Add, PartitionType
  <1>7. Members(Add(p, c)) = Members(p) \union {c}
    BY <1>3, <1>4, MembersElements
  <1>8. ASSUME NEW v \in Var
        PROVE  Elements(Add(p, c).single[v]) =
                  Elements(p.single[v]) \union
                    (IF IsHard(c) /\ SupportVars(c) = {v} THEN {c} ELSE {})
    <2>1. p.single[v] \in Seq(Constraint)
      BY <1>1
    <2>2. Elements(Append(p.single[v], c)) = Elements(p.single[v]) \union {c}
      BY <2>1, ElementsAppend
    <2> QED BY <1>3, <1>5, <2>2
  <1> QED BY <1>3, <1>4, <1>6, <1>7, <1>8, MembersElements

(***************************************************************************)
(* The types are kept.                                                     *)
(***************************************************************************)
LEMMA InitTypeOK == Init => TypeOK
  <1> SUFFICES ASSUME Init PROVE TypeOK
    OBVIOUS
  <1>1. <<>> \in Seq(Constraint) /\ <<>> \in Seq(PartitionType)
    OBVIOUS
  <1> QED BY <1>1, EmptyPartitionType DEF Init, TypeOK

LEMMA NextTypeOK == TypeOK /\ [Next]_vars => TypeOK'
  <1> SUFFICES ASSUME TypeOK, [Next]_vars PROVE TypeOK'
    OBVIOUS
  <1>0. <<>> \in Seq(Constraint) /\ <<>> \in Seq(PartitionType)
    OBVIOUS
  <1>1. CASE Reset
    BY <1>0, <1>1 DEF TypeOK, Reset
  <1>2. ASSUME NEW m \in Manager \ constr_mngs, MergeConstraints(m) PROVE TypeOK'
    <2>1. Owned[m] \in Seq(Constraint)
      BY OwnedAssumption
    <2> QED BY <2>1, <1>2 DEF TypeOK, MergeConstraints
  <1>3. CASE MergeOne
    <2>1. Head(todo) \in Constraint /\ Tail(todo) \in Seq(Constraint)
      BY <1>3, ElementsHeadTail DEF MergeOne, TypeOK
    <2>2. /\ Append(rest, Head(todo)) \in Seq(Constraint)
          /\ Append(vec_constraints, Head(todo)) \in Seq(Constraint)
      BY <2>1 DEF TypeOK
    <2> QED BY <2>1, <2>2, <1>3 DEF TypeOK, MergeOne
  <1>4. CASE MergeReturns
    BY <1>4 DEF TypeOK, MergeReturns
  <1>5. CASE CallPartition
    BY <1>5 DEF TypeOK, CallPartition
  <1>6. CASE SeedPartition
    <2>1. Head(rest) \in Constraint /\ Tail(rest) \in Seq(Constraint)
      BY <1>6, ElementsHeadTail DEF SeedPartition, TypeOK
    <2>2. Add(EmptyPartition, Head(rest)) \in PartitionType
      BY <2>1, AddProperties, EmptyPartitionType DEF TypeOK
    <2> QED BY <2>1, <2>2, <1>6 DEF TypeOK, SeedPartition
  <1>7. CASE Absorb
    <2>1. Head(rest) \in Constraint /\ Tail(rest) \in Seq(Constraint)
      BY <1>7, ElementsHeadTail DEF Absorb, TypeOK
    <2>2. Add(cp, Head(rest)) \in PartitionType
      BY <2>1, AddProperties DEF TypeOK
    <2> QED BY <2>1, <2>2, <1>7 DEF TypeOK, Absorb
  <1>8. CASE Skip
    <2>1. Head(rest) \in Constraint /\ Tail(rest) \in Seq(Constraint)
      BY <1>8, ElementsHeadTail DEF Skip, TypeOK
    <2>2. Append(skipped, Head(rest)) \in Seq(Constraint)
      BY <2>1 DEF TypeOK
    <2> QED BY <2>1, <2>2, <1>8 DEF TypeOK, Skip
  <1>9. CASE NextPass
    BY <1>0, <1>9 DEF TypeOK, NextPass
  <1>10. CASE ClosePartition
    <2>1. Append(partitions, cp) \in Seq(PartitionType)
      BY DEF TypeOK
    <2> QED BY <1>0, <2>1, <1>10, EmptyPartitionType DEF TypeOK, ClosePartition
  <1>11. CASE FinishPartition
    BY <1>11 DEF TypeOK, FinishPartition
  <1>12. CASE UNCHANGED vars
    BY <1>12 DEF TypeOK, vars
  <1> QED BY <1>1, <1>2, <1>3, <1>4, <1>5, <1>6, <1>7, <1>8, <1>9, <1>10, <1>11,
             <1>12 DEF Next, PartitionStep

(* Every list only ever holds constraints, every partition is well formed. *)
THEOREM TypeCorrect == Spec => []TypeOK
  BY InitTypeOK, NextTypeOK, PTL DEF Spec

(***************************************************************************)
(* Separation: what a finished partition mentions, nobody else mentions.   *)
(***************************************************************************)
LEMMA InitSepInv == Init => SepInv
  <1> SUFFICES ASSUME Init PROVE SepInv
    OBVIOUS
  <1>1. Len(<<>>) = 0
    OBVIOUS
  <1> QED BY <1>1, InitTypeOK DEF Init, SepInv, ControlShape, PassInv, Separated

(* The elements of the partitions after one more has been appended.        *)
LEMMA AppendIndices ==
    ASSUME NEW S, NEW s \in Seq(S), NEW p \in S, NEW i \in 1..Len(Append(s, p))
    PROVE  \/ i \in 1..Len(s) /\ Append(s, p)[i] = s[i]
           \/ i = Len(s) + 1 /\ Append(s, p)[i] = p
  OBVIOUS

LEMMA NextSepInv == SepInv /\ [Next]_vars => SepInv'
  <1> SUFFICES ASSUME SepInv, [Next]_vars PROVE (ControlShape /\ PassInv /\ Separated)'
    BY NextTypeOK DEF SepInv
  <1>t. TypeOK /\ TypeOK'
    BY NextTypeOK DEF SepInv
  <1>0. Len(<<>>) = 0 /\ Elements(<<>>) = {} /\ EmptyPartition.support = {}
    BY EmptyPartitionType DEF Elements
  <1>1. CASE Reset
    BY <1>0, <1>1 DEF SepInv, ControlShape, PassInv, Separated, Reset
  <1>2. ASSUME NEW m \in Manager \ constr_mngs, MergeConstraints(m)
        PROVE  (ControlShape /\ PassInv /\ Separated)'
    BY <1>0, <1>2 DEF SepInv, ControlShape, PassInv, Separated, MergeConstraints
  <1>3. CASE MergeOne
    BY <1>0, <1>3 DEF SepInv, ControlShape, PassInv, Separated, MergeOne
  <1>4. CASE MergeReturns
    BY <1>0, <1>4 DEF SepInv, ControlShape, PassInv, Separated, MergeReturns
  <1>5. CASE CallPartition
    BY <1>0, <1>5 DEF SepInv, ControlShape, PassInv, Separated, CallPartition
  <1>6. CASE SeedPartition
    <2> DEFINE c == Head(rest)
    <2>1. c \in Constraint /\ Elements(rest) = {c} \union Elements(Tail(rest))
      BY <1>6, <1>t, ElementsHeadTail DEF SeedPartition, TypeOK
    <2>2. cp'.support = SupportVars(c)
      <3>1. Add(EmptyPartition, c).support = EmptyPartition.support \union SupportVars(c)
        BY <1>t, <2>1, AddProperties, EmptyPartitionType DEF TypeOK
      <3> QED BY <1>6, <1>0, <3>1 DEF SeedPartition
    <2>3. skipped = <<>> /\ skipped' = <<>>
      BY <1>6 DEF SepInv, ControlShape, SeedPartition
    <2> HIDE DEF c
    <2>4. Separated'
      BY <1>6, <2>1, <2>2, <2>3 DEF SepInv, Separated, SeedPartition, SupportVars
    <2> QED BY <1>0, <1>6, <2>3, <2>4 DEF SepInv, ControlShape, PassInv, SeedPartition
  <1>7. CASE Absorb
    <2> DEFINE c == Head(rest)
    <2>1. c \in Constraint /\ Elements(rest) = {c} \union Elements(Tail(rest))
      BY <1>7, <1>t, ElementsHeadTail DEF Absorb, TypeOK
    <2>2. cp'.support = cp.support \union SupportVars(c)
      BY <1>7, <1>t, <2>1, AddProperties DEF Absorb, TypeOK
    <2> HIDE DEF c
    <2>3. Separated'
      BY <1>7, <2>1, <2>2 DEF SepInv, Separated, Absorb, SupportVars
    <2> QED BY <1>7, <2>3 DEF SepInv, ControlShape, PassInv, Absorb
  <1>8. CASE Skip
    <2> DEFINE c == Head(rest)
    <2>1. c \in Constraint /\ Elements(rest) = {c} \union Elements(Tail(rest))
      BY <1>8, <1>t, ElementsHeadTail DEF Skip, TypeOK
    <2>2. Elements(skipped') = Elements(skipped) \union {c}
      BY <1>8, <1>t, <2>1, ElementsAppend DEF Skip, TypeOK
    <2>3. cp.support \intersect SupportVars(c) = {}
      BY <1>8 DEF Skip
    <2> HIDE DEF c
    <2>4. Separated'
      BY <1>8, <2>1, <2>2 DEF SepInv, Separated, Skip, SupportVars
    <2>5. PassInv'
      BY <1>8, <2>2, <2>3 DEF SepInv, PassInv, Skip, SupportVars
    <2> QED BY <1>8, <2>4, <2>5 DEF SepInv, ControlShape, Skip
  <1>9. CASE NextPass
    BY <1>0, <1>9 DEF SepInv, ControlShape, PassInv, Separated, NextPass, SupportVars
  <1>10. CASE ClosePartition
    <2>1. \A c \in Elements(skipped) : cp.support \intersect SupportVars(c) = {}
      BY <1>10 DEF SepInv, PassInv, ClosePartition
    <2>2. /\ rest = <<>> /\ rest' = skipped /\ skipped' = <<>>
          /\ cp' = EmptyPartition /\ attr' = attr
          /\ partitions' = Append(partitions, cp)
      BY <1>10 DEF ClosePartition
    <2>3. Separated'
      <3> SUFFICES ASSUME NEW i \in 1..Len(partitions')
                   PROVE  /\ \A j \in 1..Len(partitions') :
                                i # j => partitions'[i].support
                                           \intersect partitions'[j].support = {}
                          /\ partitions'[i].support \intersect cp'.support = {}
                          /\ \A c \in Elements(skipped) :
                                partitions'[i].support \intersect SupportVars(c) = {}
        BY <1>0, <2>2 DEF Separated, SupportVars
      <3>1. \A j \in 1..Len(partitions') :
                 \/ j \in 1..Len(partitions) /\ partitions'[j] = partitions[j]
                 \/ j = Len(partitions) + 1 /\ partitions'[j] = cp
        BY <1>t, <2>2, AppendIndices DEF TypeOK
      <3>2. CASE i \in 1..Len(partitions) /\ partitions'[i] = partitions[i]
        BY <1>0, <2>2, <3>1, <3>2 DEF SepInv, Separated
      <3>3. CASE i = Len(partitions) + 1 /\ partitions'[i] = cp
        BY <1>0, <2>1, <2>2, <3>1, <3>3 DEF SepInv, Separated
      <3> QED BY <3>1, <3>2, <3>3
    <2> QED BY <1>10, <2>2, <2>3 DEF SepInv, ControlShape, PassInv, ClosePartition
  <1>11. CASE FinishPartition
    BY <1>0, <1>11 DEF SepInv, ControlShape, PassInv, Separated, FinishPartition,
                       SupportVars
  <1>12. CASE UNCHANGED vars
    BY <1>12 DEF SepInv, ControlShape, PassInv, Separated, vars, SupportVars
  <1> QED BY <1>1, <1>2, <1>3, <1>4, <1>5, <1>6, <1>7, <1>8, <1>9, <1>10, <1>11,
             <1>12 DEF Next, PartitionStep

(* Finished partitions have no variable in common with each other nor with *)
(* any constraint that partition() has still to place.                     *)
THEOREM SeparatedAlways == Spec => []Separated
  <1>1. Spec => []SepInv
    BY InitSepInv, NextSepInv, PTL DEF Spec
  <1>2. SepInv => Separated
    BY DEF SepInv
  <1> QED BY <1>1, <1>2, PTL

(***************************************************************************)
(* Every partition is connected, sorted and has an exact support set.      *)
(***************************************************************************)

(* A constraint that shares a variable with a member keeps the partition   *)
(* connected.                                                              *)
LEMMA LinkedAdd ==
    ASSUME NEW S, NEW c, Linked(S), NEW a \in S,
           SupportVars(a) \intersect SupportVars(c) # {}
    PROVE  Linked(S \union {c})
  <1> SUFFICES ASSUME NEW T \in SUBSET (S \union {c}), T # {}, T # S \union {c}
               PROVE  \E x \in T, y \in (S \union {c}) \ T :
                         SupportVars(x) \intersect SupportVars(y) # {}
    BY DEF Linked
  <1>1. CASE c \in S
    BY <1>1 DEF Linked
  <1>2. CASE c \notin S /\ T \intersect S = {}
    <2>1. c \in T /\ a \notin T
      BY <1>2
    <2> QED BY <2>1
  <1>3. CASE c \notin S /\ T \intersect S = S
    <2>1. a \in T /\ c \notin T
      BY <1>3
    <2> QED BY <2>1
  <1>4. CASE c \notin S /\ T \intersect S # {} /\ T \intersect S # S
    <2>1. T \intersect S \in SUBSET S
      OBVIOUS
    <2>2. PICK x \in T \intersect S, y \in S \ (T \intersect S) :
              SupportVars(x) \intersect SupportVars(y) # {}
      BY <1>4, <2>1 DEF Linked
    <2> QED BY <2>2
  <1> QED BY <1>1, <1>2, <1>3, <1>4

LEMMA GoodEmpty == GoodPartition(EmptyPartition)
  <1>1. Len(<<>>) = 0 /\ Elements(<<>>) = {}
    BY DEF Elements
  <1>2. Descending(<<>>)
    BY <1>1 DEF Descending
  <1> QED BY <1>1, <1>2, EmptyPartitionType DEF GoodPartition, Linked

(* The first member of a partition.                                        *)
LEMMA GoodSeed ==
    ASSUME attr \in [Constraint -> Attr], NEW c \in Constraint
    PROVE  GoodPartition(Add(EmptyPartition, c))
  <1> DEFINE p == EmptyPartition
             q == Add(p, c)
  <1>0. p \in PartitionType /\ GoodPartition(p) /\ Members(p) = {} /\ p.support = {}
    BY EmptyPartitionType, GoodEmpty
  <1> HIDE DEF p
  <1>1. /\ Members(q) = {c} /\ q.support = SupportVars(c)
        /\ Descending(q.members)
        /\ \A v \in Var : Elements(q.single[v]) =
              Elements(p.single[v]) \union
                (IF IsHard(c) /\ SupportVars(c) = {v} THEN {c} ELSE {})
    <2>1. Descending(p.members)
      BY <1>0 DEF GoodPartition
    <2> HIDE DEF q
    <2>2. /\ Members(q) = Members(p) \union {c}
          /\ q.support = p.support \union SupportVars(c)
          /\ Descending(p.members) /\ c \notin Members(p) => Descending(q.members)
          /\ \A v \in Var : Elements(q.single[v]) =
                Elements(p.single[v]) \union
                  (IF IsHard(c) /\ SupportVars(c) = {v} THEN {c} ELSE {})
      BY <1>0, AddProperties DEF q
    <2> QED BY <1>0, <2>1, <2>2
  <1>2. \A v \in Var : Elements(p.single[v]) = {}
    BY <1>0 DEF GoodPartition
  <1> HIDE DEF q
  <1>3. q.support = UNION {SupportVars(d) : d \in Members(q)}
    BY <1>1
  <1>4. Linked(Members(q))
    BY <1>1 DEF Linked
  <1>5. \A v \in Var : Elements(q.single[v]) =
            {d \in Members(q) : IsHard(d) /\ SupportVars(d) = {v}}
    BY <1>1, <1>2
  <1>6. GoodPartition(q)
    BY <1>1, <1>3, <1>4, <1>5 DEF GoodPartition
  <1> QED BY <1>6 DEF p, q

(* A further member.                                                       *)
LEMMA GoodAdd ==
    ASSUME attr \in [Constraint -> Attr], NEW p \in PartitionType,
           NEW c \in Constraint, GoodPartition(p), c \notin Members(p),
           p.support \intersect SupportVars(c) # {}
    PROVE  GoodPartition(Add(p, c))
  <1> DEFINE q == Add(p, c)
  <1>1. /\ Members(q) = Members(p) \union {c}
        /\ q.support = p.support \union SupportVars(c)
        /\ Descending(q.members)
        /\ \A v \in Var : Elements(q.single[v]) =
              Elements(p.single[v]) \union
                (IF IsHard(c) /\ SupportVars(c) = {v} THEN {c} ELSE {})
    BY AddProperties DEF GoodPartition
  <1> HIDE DEF q
  <1>2. p.support = UNION {SupportVars(d) : d \in Members(p)}
    BY DEF GoodPartition
  <1>3. q.support = UNION {SupportVars(d) : d \in Members(q)}
    BY <1>1, <1>2
  <1>4. Linked(Members(q))
    <2>1. PICK a \in Members(p) : SupportVars(a) \intersect SupportVars(c) # {}
      BY <1>2
    <2>2. Linked(Members(p))
      BY DEF GoodPartition
    <2> QED BY <1>1, <2>1, <2>2, LinkedAdd
  <1>5. \A v \in Var : Elements(q.single[v]) =
            {d \in Members(q) : IsHard(d) /\ SupportVars(d) = {v}}
    <2> TAKE v \in Var
    <2>1. Elements(p.single[v]) =
            {d \in Members(p) : IsHard(d) /\ SupportVars(d) = {v}}
      BY DEF GoodPartition
    <2>2. Elements(q.single[v]) = Elements(p.single[v]) \union
            (IF IsHard(c) /\ SupportVars(c) = {v} THEN {c} ELSE {})
      BY <1>1
    <2> QED BY <1>1, <2>1, <2>2
  <1>6. GoodPartition(q)
    BY <1>1, <1>3, <1>4, <1>5 DEF GoodPartition
  <1> QED BY <1>6 DEF q

(* A partition stays good while the attributes of constraints do not move. *)
LEMMA GoodUnchanged ==
    ASSUME attr' = attr, NEW p
    PROVE  GoodPartition(p) => GoodPartition(p)'
  <1>1. \A c : SupportVars(c)' = SupportVars(c) /\ IsHard(c)' = IsHard(c)
    BY DEF SupportVars, IsHard
  <1>2. Linked(Members(p)) => Linked(Members(p))'
    BY <1>1 DEF Linked
  <1>3. (UNION {SupportVars(c) : c \in Members(p)})'
           = UNION {SupportVars(c) : c \in Members(p)}
    BY <1>1
  <1>4. \A v \in Var : {c \in Members(p) : IsHard(c) /\ SupportVars(c) = {v}}'
           = {c \in Members(p) : IsHard(c) /\ SupportVars(c) = {v}}
    BY <1>1
  <1> QED BY <1>2, <1>3, <1>4 DEF GoodPartition

LEMMA InitIInv == Init => IInv
  <1> SUFFICES ASSUME Init PROVE Distinct /\ Accounted /\ AllGood
    BY InitSepInv DEF IInv
  <1>0. Len(<<>>) = 0 /\ Elements(<<>>) = {} /\ Injective(<<>>)
    BY DEF Elements, Injective
  <1>1. Distinct
    BY <1>0, EmptyPartitionType DEF Init, Distinct
  <1>2. Accounted
    BY <1>0, EmptyPartitionType DEF Init, Accounted, Gathered, Visited
  <1>3. AllGood
    BY <1>0, GoodEmpty DEF Init, AllGood
  <1> QED BY <1>1, <1>2, <1>3

LEMMA NextAllGood == IInv /\ [Next]_vars => AllGood'
  <1> SUFFICES ASSUME IInv, [Next]_vars PROVE AllGood'
    OBVIOUS
  <1>t. TypeOK /\ AllGood
    BY DEF IInv, SepInv
  <1>a. attr' = attr
    BY DEF Next, PartitionStep, Reset, MergeConstraints, MergeOne, MergeReturns,
           CallPartition, SeedPartition, Absorb, Skip, NextPass, ClosePartition,
           FinishPartition, vars
  <1> SUFFICES ASSUME NEW p \in Elements(partitions') \union {cp'}
               PROVE  GoodPartition(p)
    BY <1>a, GoodUnchanged DEF AllGood, Elements
  <1>1. CASE p \in Elements(partitions) \union {cp}
    BY <1>1, <1>t DEF AllGood
  <1>2. CASE p = EmptyPartition
    BY <1>2, GoodEmpty
  <1>3. CASE Reset
    <2>1. Elements(partitions') = {} /\ cp' = cp
      BY <1>3 DEF Reset, Elements
    <2> QED BY <2>1, <1>1
  <1>6. CASE SeedPartition
    <2>1. Head(rest) \in Constraint
      BY <1>6, <1>t, ElementsHeadTail DEF SeedPartition, TypeOK
    <2>2. GoodPartition(cp')
      BY <1>6, <1>t, <2>1, GoodSeed DEF SeedPartition, TypeOK
    <2> QED BY <1>6, <2>2, <1>1 DEF SeedPartition
  <1>7. CASE Absorb
    <2>1. Head(rest) \in Constraint /\ Head(rest) \in Elements(rest)
      BY <1>7, <1>t, ElementsHeadTail DEF Absorb, TypeOK
    <2>2. Head(rest) \notin Members(cp)
      BY <2>1 DEF IInv, Distinct
    <2>3. GoodPartition(cp)
      BY <1>t DEF AllGood
    <2>4. GoodPartition(cp')
      BY <1>7, <1>t, <2>1, <2>2, <2>3, GoodAdd DEF Absorb, TypeOK
    <2> QED BY <1>7, <2>4, <1>1 DEF Absorb
  <1>10. CASE ClosePartition
    <2>1. Elements(partitions') = Elements(partitions) \union {cp}
      BY <1>10, <1>t, ElementsAppend DEF ClosePartition, TypeOK
    <2> QED BY <1>10, <2>1, <1>1, <1>2 DEF ClosePartition
  <1>11. CASE UNCHANGED <<partitions, cp>>
    BY <1>11, <1>1
  <1> QED BY <1>3, <1>6, <1>7, <1>10, <1>11
      DEF Next, PartitionStep, MergeConstraints, MergeOne, MergeReturns,
          CallPartition, Skip, NextPass, FinishPartition, vars

(***************************************************************************)
(* No constraint is lost or duplicated.                                    *)
(***************************************************************************)

(* The constraints of the managers merged so far.                          *)
Merged == UNION {Elements(Owned[m]) : m \in constr_mngs}

(* A merge of a manager that has not been merged before visits none of the *)
(* constraints already visited.                                            *)
LEMMA OwnedApart ==
    ASSUME NEW m \in Manager, NEW n \in Manager, m # n
    PROVE  Elements(Owned[m]) \intersect Elements(Owned[n]) = {}
  BY OwnedAssumption DEF Elements

LEMMA NextDistinctMerge ==
    ASSUME IInv, NEW m \in Manager \ constr_mngs, MergeConstraints(m)
    PROVE  Distinct' /\ Accounted'
  <1>1. /\ todo = <<>> /\ todo' = Owned[m] /\ constr_mngs' = constr_mngs \union {m}
        /\ constr_mngs \subseteq Manager
        /\ UNCHANGED <<attr, rest, skipped, cp, partitions>>
    BY DEF MergeConstraints, IInv, SepInv, ControlShape, TypeOK
  <1>2. Injective(Owned[m])
    BY OwnedAssumption DEF Injective
  <1>3. Elements(<<>>) = {}
    BY DEF Elements
  <1>4. Merged' = Merged \union Elements(Owned[m])
    BY <1>1 DEF Merged
  <1>5. Merged \intersect Elements(Owned[m]) = {}
    BY <1>1, OwnedApart DEF Merged
  <1>6. Visited' = Visited
    BY <1>1, <1>3, <1>4, <1>5 DEF Visited, Merged
  <1>7. Gathered' = Gathered
    BY <1>1, <1>6 DEF Gathered, IsVector
  <1>8. Accounted'
    BY <1>1, <1>4, <1>7 DEF IInv, Accounted, Merged
  <1>9. Distinct'
    BY <1>1, <1>2 DEF IInv, Distinct
  <1> QED BY <1>8, <1>9

LEMMA NextDistinctMergeOne ==
    ASSUME IInv, MergeOne
    PROVE  Distinct' /\ Accounted'
  <1> DEFINE c == Head(todo)
             in == attr[c].enabled /\ ~IsVector(c)
  <1>t. TypeOK /\ Distinct /\ Accounted
    BY DEF IInv, SepInv
  <1>1. /\ todo # <<>> /\ todo' = Tail(todo) /\ skipped = <<>> /\ partitions = <<>>
        /\ cp = EmptyPartition
        /\ rest' = IF in THEN Append(rest, c) ELSE rest
        /\ UNCHANGED <<attr, constr_mngs, skipped, cp, partitions>>
    BY DEF MergeOne, IInv, SepInv, ControlShape
  <1>2. /\ c \in Constraint /\ Tail(todo) \in Seq(Constraint)
        /\ Elements(todo) = {c} \union Elements(Tail(todo))
        /\ Injective(Tail(todo)) /\ c \notin Elements(Tail(todo))
    BY <1>t, <1>1, ElementsHeadTail, InjectiveTail DEF TypeOK, Distinct
  <1>3. Elements(rest') = Elements(rest) \union (IF in THEN {c} ELSE {})
    BY <1>t, <1>1, <1>2, ElementsAppend DEF TypeOK
  <1> HIDE DEF c, in
  <1>4. Elements(<<>>) = {} /\ Len(<<>>) = 0
    BY DEF Elements
  <1>5. Gathered = Elements(rest)
    BY <1>t, <1>1, <1>4, EmptyPartitionType DEF Accounted
  <1>6. c \notin Visited /\ Visited' = Visited \union {c}
    BY <1>t, <1>1, <1>2 DEF Visited, Accounted
  <1>7. Gathered' = Gathered \union (IF in THEN {c} ELSE {})
    <2>1. attr' = attr
      BY <1>1
    <2>2. Gathered' = {d \in Visited \union {c} : attr[d].enabled /\ ~IsVector(d)}
      BY <1>6, <2>1 DEF Gathered, IsVector
    <2>3. Gathered = {d \in Visited : attr[d].enabled /\ ~IsVector(d)}
      BY DEF Gathered
    <2> QED BY <2>2, <2>3 DEF in
  <1>8. Injective(rest')
    <2>1. c \notin Elements(rest)
      BY <1>5, <1>6 DEF Gathered
    <2> QED BY <1>t, <1>1, <1>2, <2>1, InjectiveAppend DEF TypeOK, Distinct
  <1>9. Elements(skipped') = {} /\ Members(cp') = {} /\ Elements(partitions') = {}
    BY <1>1, <1>4, EmptyPartitionType
  <1>10. Elements(todo') \subseteq UNION {Elements(Owned[m]) : m \in constr_mngs}
    BY <1>t, <1>1, <1>2 DEF Accounted
  <1>11. Accounted'
    BY <1>1, <1>3, <1>5, <1>7, <1>9, <1>10 DEF Accounted
  <1>12. Distinct'
    BY <1>t, <1>1, <1>2, <1>4, <1>8, <1>9 DEF Distinct
  <1> QED BY <1>11, <1>12

(* Visited and Gathered are settled once the merges are over.              *)
LEMMA GatheredUnchanged ==
    ASSUME UNCHANGED <<attr, constr_mngs, todo>>
    PROVE  Gathered' = Gathered
  BY DEF Gathered, Visited, IsVector

LEMMA NextDistinctPartition ==
    ASSUME IInv, PartitionStep
    PROVE  Distinct' /\ Accounted'
  <1>t. TypeOK /\ Distinct /\ Accounted /\ ControlShape
    BY DEF IInv, SepInv
  <1>u. UNCHANGED <<attr, constr_mngs, todo>>
    BY DEF PartitionStep, SeedPartition, Absorb, Skip, NextPass, ClosePartition,
           FinishPartition
  <1>g. Gathered' = Gathered
    BY <1>u, GatheredUnchanged
  <1>0. Len(<<>>) = 0 /\ Elements(<<>>) = {} /\ Injective(<<>>)
        /\ Members(EmptyPartition) = {}
    BY EmptyPartitionType DEF Elements, Injective
  <1>h. ASSUME rest # <<>>
        PROVE  /\ Head(rest) \in Constraint /\ Tail(rest) \in Seq(Constraint)
               /\ Elements(rest) = {Head(rest)} \union Elements(Tail(rest))
               /\ Injective(Tail(rest)) /\ Head(rest) \notin Elements(Tail(rest))
    BY <1>h, <1>t, ElementsHeadTail, InjectiveTail DEF TypeOK, Distinct
  (* Head(rest) moves to cp.                                               *)
  <1>1. ASSUME SeedPartition \/ Absorb PROVE Distinct' /\ Accounted'
    <2>1. rest # <<>> /\ rest' = Tail(rest) /\ UNCHANGED <<skipped, partitions>>
      BY <1>1 DEF SeedPartition, Absorb
    <2>2. Members(cp') = Members(cp) \union {Head(rest)}
      <3>1. cp' = Add(cp, Head(rest))
        BY <1>1, <1>t DEF SeedPartition, Absorb, ControlShape
      <3> QED BY <3>1, <2>1, <1>h, <1>t, AddProperties DEF TypeOK
    <2>3. Accounted'
      BY <1>t, <1>u, <1>g, <1>h, <2>1, <2>2 DEF Accounted
    <2>4. Distinct'
      BY <1>t, <1>u, <1>h, <2>1, <2>2 DEF Distinct
    <2> QED BY <2>3, <2>4
  (* Head(rest) moves to skipped.                                          *)
  <1>2. ASSUME Skip PROVE Distinct' /\ Accounted'
    <2>1. /\ rest # <<>> /\ rest' = Tail(rest) /\ UNCHANGED <<cp, partitions>>
          /\ skipped' = Append(skipped, Head(rest))
      BY <1>2 DEF Skip
    <2>2. Elements(skipped') = Elements(skipped) \union {Head(rest)}
      BY <2>1, <1>h, <1>t, ElementsAppend DEF TypeOK
    <2>3. Injective(skipped')
      BY <2>1, <1>h, <1>t, InjectiveAppend DEF TypeOK, Distinct
    <2>4. Accounted'
      BY <1>t, <1>u, <1>g, <1>h, <2>1, <2>2 DEF Accounted
    <2>5. Distinct'
      BY <1>t, <1>u, <1>h, <2>1, <2>2, <2>3 DEF Distinct
    <2> QED BY <2>4, <2>5
  (* skipped becomes rest.                                                 *)
  <1>3. ASSUME NextPass PROVE Distinct' /\ Accounted'
    <2>1. rest = <<>> /\ rest' = skipped /\ skipped' = <<>> /\ UNCHANGED <<cp, partitions>>
      BY <1>3 DEF NextPass
    <2>2. Accounted'
      BY <1>0, <1>t, <1>u, <1>g, <2>1 DEF Accounted
    <2>3. Distinct'
      BY <1>0, <1>t, <1>u, <2>1 DEF Distinct
    <2> QED BY <2>2, <2>3
  (* skipped becomes rest, cp a finished partition.                        *)
  <1>4. ASSUME ClosePartition PROVE Distinct' /\ Accounted'
    <2>1. /\ rest = <<>> /\ rest' = skipped /\ skipped' = <<>> /\ cp' = EmptyPartition
          /\ partitions' = Append(partitions, cp)
      BY <1>4 DEF ClosePartition
    <2>2. Elements(partitions') = Elements(partitions) \union {cp}
      BY <2>1, <1>t, ElementsAppend DEF TypeOK
    <2>3. Accounted'
      BY <1>0, <1>t, <1>u, <1>g, <2>1, <2>2 DEF Accounted
    <2>4. \A i \in 1..Len(partitions') :
              \/ i \in 1..Len(partitions) /\ partitions'[i] = partitions[i]
              \/ i = Len(partitions) + 1 /\ partitions'[i] = cp
      BY <2>1, <1>t, AppendIndices DEF TypeOK
    <2>5. ASSUME NEW i \in 1..Len(partitions')
          PROVE  /\ Members(partitions'[i]) \intersect
                      (Elements(rest') \union Elements(skipped') \union Members(cp')) = {}
                 /\ \A j \in 1..Len(partitions') : i # j =>
                      Members(partitions'[i]) \intersect Members(partitions'[j]) = {}
      <3>1. CASE i \in 1..Len(partitions) /\ partitions'[i] = partitions[i]
        BY <1>0, <1>t, <2>1, <2>4, <3>1 DEF Distinct
      <3>2. CASE i = Len(partitions) + 1 /\ partitions'[i] = cp
        BY <1>0, <1>t, <2>1, <2>4, <3>2 DEF Distinct
      <3> QED BY <2>4, <3>1, <3>2
    <2>6. Distinct'
      BY <1>0, <1>t, <1>u, <2>1, <2>5 DEF Distinct
    <2> QED BY <2>3, <2>6
  <1>5. ASSUME FinishPartition PROVE Distinct' /\ Accounted'
    BY <1>t, <1>u, <1>g, <1>5 DEF FinishPartition, Distinct, Accounted
  <1> QED BY <1>1, <1>2, <1>3, <1>4, <1>5 DEF PartitionStep

LEMMA NextIInv == IInv /\ [Next]_vars => IInv'
  <1> SUFFICES ASSUME IInv, [Next]_vars PROVE Distinct' /\ Accounted'
    BY NextSepInv, NextAllGood DEF IInv
  <1>1. CASE Reset
    <2>1. /\ todo = <<>> /\ skipped = <<>> /\ cp = EmptyPartition
          /\ UNCHANGED <<todo, skipped, cp>>
          /\ rest' = <<>> /\ partitions' = <<>> /\ constr_mngs' = {}
      BY <1>1 DEF Reset, IInv, SepInv, ControlShape
    <2>2. Len(<<>>) = 0 /\ Elements(<<>>) = {} /\ Injective(<<>>)
          /\ Members(EmptyPartition) = {}
      BY EmptyPartitionType DEF Elements, Injective
    <2>3. Accounted'
      BY <2>1, <2>2 DEF Accounted, Gathered, Visited
    <2>4. Distinct'
      BY <2>1, <2>2 DEF Distinct
    <2> QED BY <2>3, <2>4
  <1>2. CASE UNCHANGED <<attr, constr_mngs, todo, rest, skipped, cp, partitions>>
    <2>1. Gathered' = Gathered
      BY <1>2, GatheredUnchanged
    <2> QED BY <1>2, <2>1 DEF IInv, Distinct, Accounted
  <1> QED BY <1>1, <1>2, NextDistinctMerge, NextDistinctMergeOne, NextDistinctPartition
      DEF Next, MergeReturns, CallPartition, vars

LEMMA IInvAlways == Spec => []IInv
  BY InitIInv, NextIInv, PTL DEF Spec

(* When partition() returns, each enabled constraint that was merged is in *)
(* exactly one partition, once.                                            *)
THEOREM ExactlyOnceAlways == Spec => []ExactlyOnce
  <1>1. IInv => ExactlyOnce
    <2> SUFFICES ASSUME IInv, pc = "done"
                 PROVE  /\ UNION {Members(p) : p \in Elements(partitions)} = Gathered
                        /\ \A i, j \in 1..Len(partitions) :
                              \A k \in 1..Len(partitions[i].members),
                                 l \in 1..Len(partitions[j].members) :
                                 partitions[i].members[k] = partitions[j].members[l]
                                     => i = j /\ k = l
      BY DEF ExactlyOnce
    <2>1. rest = <<>> /\ skipped = <<>> /\ cp = EmptyPartition
      BY DEF IInv, SepInv, ControlShape
    <2>2. UNION {Members(p) : p \in Elements(partitions)} = Gathered
      <3>1. Elements(<<>>) = {}
        BY DEF Elements
      <3> QED BY <2>1, <3>1, EmptyPartitionType DEF IInv, Accounted
    <2>3. ASSUME NEW i \in 1..Len(partitions), NEW j \in 1..Len(partitions),
                 NEW k \in 1..Len(partitions[i].members),
                 NEW l \in 1..Len(partitions[j].members),
                 partitions[i].members[k] = partitions[j].members[l]
          PROVE  i = j /\ k = l
      <3>1. /\ partitions[i].members[k] \in Members(partitions[i])
            /\ partitions[j].members[l] \in Members(partitions[j])
        BY DEF Members
      <3>2. i = j
        BY <2>3, <3>1 DEF IInv, Distinct
      <3>3. /\ partitions[i].members \in Seq(Constraint)
            /\ Descending(partitions[i].members)
        <4>1. partitions[i] \in PartitionType
          BY DEF IInv, SepInv, TypeOK
        <4>2. partitions[i] \in Elements(partitions)
          BY DEF Elements
        <4>3. GoodPartition(partitions[i])
          BY <4>2 DEF IInv, AllGood
        <4> QED BY <4>1, <4>3 DEF PartitionType, GoodPartition
      <3>4. /\ partitions[i].members[k] \in Nat
            /\ partitions[i].members[l] \in Nat
        <4>1. l \in 1..Len(partitions[i].members)
          BY <3>2
        <4>2. /\ partitions[i].members[k] \in Constraint
              /\ partitions[i].members[l] \in Constraint
          BY <3>3, <4>1, ElementOfList
        <4> QED BY <4>2, ConstraintAssumption
      <3> QED BY <2>3, <3>2, <3>3, <3>4 DEF Descending
    <2> QED BY <2>2, <2>3
  <1> QED BY <1>1, IInvAlways, PTL

(* The support set of each partition, finished or growing, is the union of *)
(* those of its members, so a solver copies every variable it has to solve *)
(* for.                                                                    *)
THEOREM SupportExactAlways == Spec => []SupportExact
  <1>1. IInv => SupportExact
    BY DEF IInv, AllGood, GoodPartition, SupportExact
  <1> QED BY <1>1, IInvAlways, PTL

(* The constraints of each partition are in strictly descending order of   *)
(* their ids, the order in which soft constraints get their priority.      *)
THEOREM DescendingIdsAlways == Spec => []DescendingIds
  <1>1. IInv => DescendingIds
    BY DEF IInv, AllGood, GoodPartition, Descending, DescendingIds
  <1> QED BY <1>1, IInvAlways, PTL

(* No partition falls into two parts without a common variable.            *)
THEOREM NotSplittableAlways == Spec => []NotSplittable
  <1>1. IInv => NotSplittable
    BY DEF IInv, AllGood, GoodPartition, NotSplittable
  <1> QED BY <1>1, IInvAlways, PTL

(* The single variable map holds exactly the hard members on one variable. *)
THEOREM SingleMapExactAlways == Spec => []SingleMapExact
  <1>1. IInv => SingleMapExact
    BY DEF IInv, AllGood, GoodPartition, SingleMapExact
  <1> QED BY <1>1, IInvAlways, PTL
==============================================================================
