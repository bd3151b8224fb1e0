------------------------ MODULE ConstraintPartitioner ------------------------
(***************************************************************************)
(* The constraint partitioner of a CRAVE generator: the enabled            *)
(* constraints of one or more constraint managers are gathered in a list   *)
(* and split into partitions such that constraints of different            *)
(* partitions share no variable, so that every partition can be handed to  *)
(* a solver of its own.                                                    *)
(*                                                                         *)
(* A constraint is identified with its id (new_constraint_id()), a number  *)
(* that grows with every constraint created in the program.  The list      *)
(* constraints_ that maximizePartition() walks with the iterator ite is    *)
(* kept as the pair (skipped, rest): skipped is what the current pass has  *)
(* left behind, rest starts at ite.  lc->erase(ite) drops the head of      *)
(* rest, ++ite moves it to the end of skipped.                             *)
(***************************************************************************)
EXTENDS Naturals, Sequences, SequencesExt

CONSTANTS
    Constraint,  \* ids of the constraints of the program
    Var,         \* ids of the random variables
    Attr,        \* the combinations of attributes a constraint may have
    Manager,     \* the constraint managers that are merged
    Owned        \* Owned[m]: the list mng.constraints_ of manager m

Kind == {"hard", "soft", "cover", "vector"}

ASSUME ConstraintAssumption == Constraint \subseteq Nat
ASSUME AttrAssumption ==
    Attr \subseteq [support : SUBSET Var, kind : Kind, enabled : BOOLEAN]
ASSUME OwnedAssumption ==
    /\ Owned \in [Manager -> Seq(Constraint)]
    /\ \A m \in Manager : \A i, j \in 1..Len(Owned[m]) :
          Owned[m][i] = Owned[m][j] => i = j
    /\ \A m, n \in Manager : \A i \in 1..Len(Owned[m]), j \in 1..Len(Owned[n]) :
          Owned[m][i] = Owned[n][j] => m = n

VARIABLES
    attr,             \* the attributes of each constraint, fixed by its creation
    constr_mngs,      \* managers merged since the last reset
    todo,             \* constraints of the manager being merged not yet visited
    skipped,          \* constraints_ before the iterator
    rest,             \* constraints_ from the iterator on
    vec_constraints,  \* gathered vector constraints
    partitions,       \* finished partitions
    cp,               \* partition that maximizePartition() is growing
    changed,          \* has the current pass added a constraint to cp?
    pc                \* control point of the caller and of partition()

vars == <<attr, constr_mngs, todo, skipped, rest, vec_constraints, partitions,
          cp, changed, pc>>

SupportVars(c) == attr[c].support
IsVector(c) == attr[c].kind = "vector"
IsHard(c) == attr[c].kind = "hard"

(***************************************************************************)
(* ConstraintPartition.                                                    *)
(***************************************************************************)
EmptyPartition ==
    [members |-> <<>>, support |-> {}, single |-> [v \in Var |-> <<>>]]

(* The first place of the list whose constraint has no greater id.         *)
InsertPlace(s, c) ==
    CHOOSE i \in 1..(Len(s) + 1) :
        /\ \A j \in 1..(i - 1) : s[j] > c
        /\ i <= Len(s) => s[i] <= c

(* Mutant: push_back, without looking for the place.                       *)
AddMemberAtEnd(s, c) == Append(s, c)

AddMember(s, c) == InsertAt(s, InsertPlace(s, c), c)

(* singleVariableConstraintMap_ collects the hard constraints on exactly   *)
(* one variable.                                                           *)
AddSingle(single, c) ==
    [v \in Var |-> IF IsHard(c) /\ SupportVars(c) = {v}
                   THEN Append(single[v], c) ELSE single[v]]

(* ConstraintPartition::add together with the union of the support sets    *)
(* that the partitioner performs at both calls of it.                      *)
Add(p, c) ==
    [members |-> AddMember(p.members, c),
     support |-> p.support \union SupportVars(c),
     single  |-> AddSingle(p.single, c)]

(***************************************************************************)
(* The operations of ConstraintPartitioner.                                *)
(***************************************************************************)
Init ==
    /\ attr \in [Constraint -> Attr]
    /\ constr_mngs = {}
    /\ todo = <<>>
    /\ skipped = <<>>
    /\ rest = <<>>
    /\ vec_constraints = <<>>
    /\ partitions = <<>>
    /\ cp = EmptyPartition
    /\ changed = FALSE
    /\ pc = "gather"

Reset ==
    /\ pc \in {"gather", "done"}
    /\ constr_mngs' = {}
    /\ rest' = <<>>
    /\ vec_constraints' = <<>>
    /\ partitions' = <<>>
    /\ pc' = "gather"
    /\ UNCHANGED <<attr, todo, skipped, cp, changed>>

(* mergeConstraints walks the list of a manager and copies the enabled     *)
(* constraints, the vector constraints to a list of their own.             *)
MergeConstraints(m) ==
    /\ pc = "gather"
    /\ constr_mngs' = constr_mngs \union {m}
    /\ todo' = Owned[m]
    /\ pc' = "merge"
    /\ UNCHANGED <<attr, skipped, rest, vec_constraints, partitions, cp, changed>>

(* Mutant: disabled constraints are copied too.                            *)
MergeOneDisabledToo ==
    /\ pc = "merge"
    /\ todo # <<>>
    /\ todo' = Tail(todo)
    /\ LET c == Head(todo) IN
          /\ rest' = IF ~IsVector(c) THEN Append(rest, c) ELSE rest
          /\ vec_constraints' = IF IsVector(c) THEN Append(vec_constraints, c)
                                ELSE vec_constraints
    /\ UNCHANGED <<attr, constr_mngs, skipped, partitions, cp, changed, pc>>

MergeOne ==
    /\ pc = "merge"
    /\ todo # <<>>
    /\ todo' = Tail(todo)
    /\ LET c == Head(todo) IN
          /\ rest' = IF attr[c].enabled /\ ~IsVector(c)
                     THEN Append(rest, c) ELSE rest
          /\ vec_constraints' = IF attr[c].enabled /\ IsVector(c)
                                THEN Append(vec_constraints, c)
                                ELSE vec_constraints
    /\ UNCHANGED <<attr, constr_mngs, skipped, partitions, cp, changed, pc>>

MergeReturns ==
    /\ pc = "merge"
    /\ todo = <<>>
    /\ pc' = "gather"
    /\ UNCHANGED <<attr, constr_mngs, todo, skipped, rest, vec_constraints,
                   partitions, cp, changed>>

(* The call of partition() by Generator::rebuild.                          *)
CallPartition ==
    /\ pc = "gather"
    /\ pc' = "outer"
    /\ UNCHANGED <<attr, constr_mngs, todo, skipped, rest, vec_constraints,
                   partitions, cp, changed>>

(* while (!constraints_.empty()): take the first constraint as the seed of *)
(* a new partition and begin the first pass over the others.               *)
SeedPartition ==
    /\ pc = "outer"
    /\ rest # <<>>
    /\ cp' = Add(EmptyPartition, Head(rest))
    /\ rest' = Tail(rest)
    /\ changed' = FALSE
    /\ pc' = "scan"
    /\ UNCHANGED <<attr, constr_mngs, todo, skipped, vec_constraints, partitions>>

FinishPartition ==
    /\ pc = "outer"
    /\ rest = <<>>
    /\ pc' = "done"
    /\ UNCHANGED <<attr, constr_mngs, todo, skipped, rest, vec_constraints,
                   partitions, cp, changed>>

(* Mutant: the intersection of the support sets is not tested.             *)
AbsorbAlways ==
    /\ pc = "scan"
    /\ rest # <<>>
    /\ cp' = Add(cp, Head(rest))
    /\ rest' = Tail(rest)
    /\ changed' = TRUE
    /\ UNCHANGED <<attr, constr_mngs, todo, skipped, vec_constraints, partitions, pc>>

(* The constraint at ite shares a variable with cp: move it to cp.         *)
Absorb ==
    /\ pc = "scan"
    /\ rest # <<>>
    /\ cp.support \intersect SupportVars(Head(rest)) # {}
    /\ cp' = Add(cp, Head(rest))
    /\ rest' = Tail(rest)
    /\ changed' = TRUE
    /\ UNCHANGED <<attr, constr_mngs, todo, skipped, vec_constraints, partitions, pc>>

(* The constraint at ite shares none: leave it in the list.                *)
Skip ==
    /\ pc = "scan"
    /\ rest # <<>>
    /\ cp.support \intersect SupportVars(Head(rest)) = {}
    /\ skipped' = Append(skipped, Head(rest))
    /\ rest' = Tail(rest)
    /\ UNCHANGED <<attr, constr_mngs, todo, vec_constraints, partitions, cp, changed,
                   pc>>

(* Mutant: changed is not reset before the next pass.                      *)
NextPassWithoutReset ==
    /\ pc = "scan"
    /\ rest = <<>>
    /\ changed
    /\ rest' = skipped
    /\ skipped' = <<>>
    /\ UNCHANGED <<attr, constr_mngs, todo, vec_constraints, partitions, cp, changed, pc>>

(* A pass that added something is followed by another one.                 *)
NextPass ==
    /\ pc = "scan"
    /\ rest = <<>>
    /\ changed
    /\ rest' = skipped
    /\ skipped' = <<>>
    /\ changed' = FALSE
    /\ UNCHANGED <<attr, constr_mngs, todo, vec_constraints, partitions, cp, pc>>

(* Mutant: one pass over the list is all there is.                         *)
CloseAfterOnePass ==
    /\ pc = "scan"
    /\ rest = <<>>
    /\ partitions' = Append(partitions, cp)
    /\ cp' = EmptyPartition
    /\ rest' = skipped
    /\ skipped' = <<>>
    /\ pc' = "outer"
    /\ UNCHANGED <<attr, constr_mngs, todo, vec_constraints, changed>>

(* A pass that added nothing ends maximizePartition(); the partition is    *)
(* appended to partitions_.                                                *)
ClosePartition ==
    /\ pc = "scan"
    /\ rest = <<>>
    /\ ~changed
    /\ partitions' = Append(partitions, cp)
    /\ cp' = EmptyPartition
    /\ rest' = skipped
    /\ skipped' = <<>>
    /\ pc' = "outer"
    /\ UNCHANGED <<attr, constr_mngs, todo, vec_constraints, changed>>

(* The steps of partition(); they run to completion once it is called.     *)
PartitionStep ==
    \/ SeedPartition
    \/ Absorb
    \/ Skip
    \/ NextPass
    \/ ClosePartition
    \/ FinishPartition

(* A generator merges every manager of an object tree at most once between *)
(* two resets.                                                             *)
Next ==
    \/ Reset
    \/ \E m \in Manager \ constr_mngs : MergeConstraints(m)
    \/ MergeOne
    \/ MergeReturns
    \/ CallPartition
    \/ PartitionStep

Spec == Init /\ [][Next]_vars

FairSpec == Spec /\ WF_vars(PartitionStep)
------------------------------------------------------------------------------
(***************************************************************************)
(* Properties.                                                             *)
(***************************************************************************)
Members(p) == {p.members[i] : i \in 1..Len(p.members)}
Elements(s) == {s[i] : i \in 1..Len(s)}

PartitionType ==
    [members : Seq(Constraint), support : SUBSET Var,
     single : [Var -> Seq(Constraint)]]

(* The state stays within the types of the C++ members.                    *)
TypeOK ==
    /\ attr \in [Constraint -> Attr]
    /\ constr_mngs \in SUBSET Manager
    /\ todo \in Seq(Constraint)
    /\ skipped \in Seq(Constraint)
    /\ rest \in Seq(Constraint)
    /\ vec_constraints \in Seq(Constraint)
    /\ partitions \in Seq(PartitionType)
    /\ cp \in PartitionType
    /\ changed \in BOOLEAN
    /\ pc \in {"gather", "merge", "outer", "scan", "done"}

(* Neither a constraint still in the list, nor one of the partition being  *)
(* grown, mentions a variable of a finished partition, and two finished    *)
(* partitions have no variable in common: each of them can be solved       *)
(* without looking at the others.                                          *)
Separated ==
    \A i \in 1..Len(partitions) :
        /\ \A j \in 1..Len(partitions) :
              i # j => partitions[i].support \intersect partitions[j].support = {}
        /\ partitions[i].support \intersect cp.support = {}
        /\ \A c \in Elements(rest) \union Elements(skipped) :
              partitions[i].support \intersect SupportVars(c) = {}

(* The support set of a partition is the union of the support sets of its  *)
(* members: VariableSolver copies exactly the variables and references of  *)
(* that set, so a variable missing from it would never be solved for.      *)
SupportExact ==
    \A p \in Elements(partitions) \union {cp} :
        p.support = UNION {SupportVars(c) : c \in Members(p)}

(* The constraints visited by the merges so far.                           *)
Visited ==
    (UNION {Elements(Owned[m]) : m \in constr_mngs}) \ Elements(todo)

(* Every enabled non-vector constraint of a merged manager is in exactly   *)
(* one partition, once, when partition() returns, and nothing else is.     *)
Gathered == {c \in Visited : attr[c].enabled /\ ~IsVector(c)}

ExactlyOnce ==
    pc = "done" =>
        /\ UNION {Members(p) : p \in Elements(partitions)} = Gathered
        /\ \A i, j \in 1..Len(partitions) :
              \A k \in 1..Len(partitions[i].members),
                 l \in 1..Len(partitions[j].members) :
                 partitions[i].members[k] = partitions[j].members[l]
                     => i = j /\ k = l

(* A partition does not fall into two parts without a common variable: a   *)
(* coarser split would be correct too but would undo the point of          *)
(* partitioning.                                                           *)
Linked(S) ==
    \A T \in SUBSET S :
        T # {} /\ T # S =>
            \E a \in T, b \in S \ T :
                SupportVars(a) \intersect SupportVars(b) # {}

NotSplittable ==
    \A p \in Elements(partitions) \union {cp} : Linked(Members(p))

(* Within a partition the constraints are in descending order of their     *)
(* ids, whatever the order in which managers were merged and constraints   *)
(* absorbed: the soft constraints are tried in this order, so the youngest *)
(* soft constraint has the highest priority.                               *)
DescendingIds ==
    \A p \in Elements(partitions) \union {cp} :
        \A i, j \in 1..Len(p.members) :
            i < j => p.members[i] > p.members[j]

(* The map from which the BDD solvers are built lists, for every variable, *)
(* exactly the hard members of the partition whose only variable it is.    *)
SingleMapExact ==
    \A p \in Elements(partitions) \union {cp} : \A v \in Var :
        Elements(p.single[v]) =
            {c \in Members(p) : IsHard(c) /\ SupportVars(c) = {v}}

(* partition() returns.                                                    *)
PartitionReturns == pc = "outer" ~> pc = "done"
==============================================================================
