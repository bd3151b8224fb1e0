-------------------------- MODULE VariableCoverage --------------------------
(***************************************************************************)
(* Coverage-driven generation: rand_obj::next_cov(), Generator::nextCov()  *)
(* and the coverage solvers.  A call looks, in every partition, for the    *)
(* first cover constraint that has not been hit and can be satisfied       *)
(* together with the hard constraints of the partition.  If no partition   *)
(* finds one the generator is covered and generates like next() from then  *)
(* on.                                                                     *)
(*                                                                         *)
(* As in VariableDefaultSolver the formula of a constraint is the set of   *)
(* the assignments that satisfy it.                                        *)
(***************************************************************************)
EXTENDS Naturals, Sequences, FiniteSets

CONSTANTS
    WriteVar,   \* variables bound to a memory cell of the user
    ReadVar,    \* variables that stand for reference(x)
    Value,      \* values of a variable
    Name,       \* names of constraints, unique only within one constraint manager
    HasVec,     \* has the generator vectors, whose generation may fail?
    Program     \* the lists of partitions the generator may have been built for

Var == WriteVar \union ReadVar
Assignment == [Var -> Value]
Constraints ==
    [kind : {"hard", "soft", "cover"}, name : Name, support : SUBSET Var,
     sat : SUBSET Assignment]

ASSUME VarAssumption == WriteVar \intersect ReadVar = {}
ASSUME VecAssumption == HasVec \in BOOLEAN
(* A formula depends on its support only, and the partitioner separates    *)
(* the partitions.                                                         *)
ASSUME ProgramAssumption ==
    \A ps \in Program :
        /\ ps \in Seq(Seq(Constraints))
        /\ \A p \in 1..Len(ps) : \A j \in 1..Len(ps[p]) : \A a, b \in Assignment :
              (\A v \in ps[p][j].support : a[v] = b[v])
                  => (a \in ps[p][j].sat <=> b \in ps[p][j].sat)
        /\ \A p, q \in 1..Len(ps) :
              \A j \in 1..Len(ps[p]), l \in 1..Len(ps[q]) :
                  ps[p][j].support \intersect ps[q][l].support # {} => p = q

VARIABLES
    parts,        \* the partitions
    covered_set,  \* covered_set[p]: names of the covered constraints of partition p
    terminals,    \* terminals[p]: variables the solver of partition p has met
    covered_,     \* Generator::covered_
    mem,          \* the memory cells
    k, c, res,    \* the solver and the place the call is at; res of solve()
    hit,          \* pairs (partition, place) that the call has covered
    answers,      \* calls answered by a hit since the last resetCoverage()
    pc, ret

vars == <<parts, covered_set, terminals, covered_, mem, k, c, res, hit, answers, pc, ret>>

Parts == 1..Len(parts)
Of(p, kind) == {j \in 1..Len(parts[p]) : parts[p][j].kind = kind}
Support(p) == UNION {parts[p][j].support : j \in 1..Len(parts[p])}
Known(p) == UNION {parts[p][j].support : j \in Of(p, "hard")}
Solutions(p) == {a \in Assignment : \A j \in Of(p, "hard") : a \in parts[p][j].sat}
WithReads(p) == {a \in Solutions(p) : \A v \in ReadVar \intersect Support(p) : a[v] = mem[v]}
Hitting(p, j) == WithReads(p) \intersect parts[p][j].sat

Init ==
    /\ parts \in Program
    /\ covered_set = [p \in Parts |-> {}]
    /\ terminals = [p \in Parts |-> Known(p)]
    /\ covered_ = FALSE
    /\ mem \in [Var -> Value]
    /\ k = 1 /\ c = 1 /\ res = FALSE
    /\ hit = {}
    /\ answers = 0
    /\ pc = "idle"
    /\ ret = "none"

(* The coverage solvers are made anew.                                     *)
ResetCoverage ==
    /\ pc = "idle"
    /\ covered_' = FALSE
    /\ covered_set' = [p \in Parts |-> {}]
    /\ terminals' = [p \in Parts |-> Known(p)]
    /\ answers' = 0
    /\ ret' = "none"
    /\ UNCHANGED <<parts, mem, k, c, res, hit, pc>>

(* The program of the user assigns what reference() refers to.             *)
Assign(v, x) ==
    /\ pc = "idle"
    /\ mem' = [mem EXCEPT ![v] = x]
    /\ ret' = "none"
    /\ UNCHANGED <<parts, covered_set, terminals, covered_, k, c, res, hit, answers, pc>>

(* next_cov() of a rand_obj first gives random values m to its variables;  *)
(* nextCov() of a generator that is used alone leaves them.                *)
NextCov(m) ==
    /\ pc = "idle"
    /\ mem' = [v \in Var |-> IF v \in WriteVar THEN m[v] ELSE mem[v]]
    /\ k' = 1 /\ c' = 1 /\ res' = FALSE
    /\ hit' = {}
    /\ pc' = IF covered_ THEN "next" ELSE "cover"
    /\ ret' = "none"
    /\ UNCHANGED <<parts, covered_set, terminals, covered_, answers>>
-----------------------------------------------------------------------------
(***************************************************************************)
(* VariableCoverageSolver::solve() of the solvers, one after the other.    *)
(***************************************************************************)
AtConstraint == pc = "cover" /\ k \in Parts /\ c \in 1..Len(parts[k])

Uncovered == parts[k][c].kind = "cover" /\ parts[k][c].name \notin covered_set[k]
Met == terminals[k] \union parts[k][c].support \union (ReadVar \intersect Support(k))

Skip ==
    /\ AtConstraint
    /\ ~Uncovered
    /\ c' = c + 1
    /\ UNCHANGED <<parts, covered_set, terminals, covered_, mem, k, res, hit, answers,
                   pc, ret>>

(* Mutant: the solver gives up at the first cover constraint that cannot   *)
(* be hit.                                                                 *)
MissAndStop ==
    /\ AtConstraint
    /\ Uncovered
    /\ Hitting(k, c) = {}
    /\ terminals' = [terminals EXCEPT ![k] = Met]
    /\ k' = k + 1 /\ c' = 1
    /\ UNCHANGED <<parts, covered_set, covered_, mem, res, hit, answers, pc, ret>>

Miss ==
    /\ AtConstraint
    /\ Uncovered
    /\ Hitting(k, c) = {}
    /\ terminals' = [terminals EXCEPT ![k] = Met]
    /\ c' = c + 1
    /\ UNCHANGED <<parts, covered_set, covered_, mem, k, res, hit, answers, pc, ret>>

(* Mutants: the constraint is not entered in covered_set_; the values are  *)
(* not read back.                                                          *)
HitUnnoted(a) ==
    /\ AtConstraint
    /\ Uncovered
    /\ mem' = [v \in Var |-> IF v \in WriteVar \intersect Support(k) \intersect Met
                             THEN a[v] ELSE mem[v]]
    /\ terminals' = [terminals EXCEPT ![k] = Met]
    /\ hit' = hit \union {<<k, c>>}
    /\ res' = TRUE
    /\ k' = k + 1 /\ c' = 1
    /\ UNCHANGED <<parts, covered_set, covered_, answers, pc, ret>>

HitKnownOnly(a) ==
    /\ AtConstraint
    /\ Uncovered
    /\ covered_set' = [covered_set EXCEPT ![k] = @ \union {parts[k][c].name}]
    /\ mem' = [v \in Var |-> IF v \in WriteVar \intersect Known(k) THEN a[v] ELSE mem[v]]
    /\ terminals' = [terminals EXCEPT ![k] = Met]
    /\ hit' = hit \union {<<k, c>>}
    /\ res' = TRUE
    /\ k' = k + 1 /\ c' = 1
    /\ UNCHANGED <<parts, covered_, answers, pc, ret>>

Hit(a) ==
    /\ AtConstraint
    /\ Uncovered
    /\ covered_set' = [covered_set EXCEPT ![k] = @ \union {parts[k][c].name}]
    /\ mem' = [v \in Var |-> IF v \in WriteVar \intersect Support(k) \intersect Met
                             THEN a[v] ELSE mem[v]]
    /\ terminals' = [terminals EXCEPT ![k] = Met]
    /\ hit' = hit \union {<<k, c>>}
    /\ res' = TRUE
    /\ k' = k + 1 /\ c' = 1
    /\ UNCHANGED <<parts, covered_, answers, pc, ret>>

NoHit ==
    /\ pc = "cover"
    /\ k \in Parts
    /\ c > Len(parts[k])
    /\ k' = k + 1 /\ c' = 1
    /\ UNCHANGED <<parts, covered_set, terminals, covered_, mem, res, hit, answers, pc, ret>>
-----------------------------------------------------------------------------
(***************************************************************************)
(* The rest of Generator::nextCov().                                       *)
(***************************************************************************)
Covered ==
    /\ \/ pc = "cover" /\ k \notin Parts /\ ~res
       \/ pc = "vectors" /\ HasVec
    /\ covered_' = TRUE
    /\ pc' = "next"
    /\ UNCHANGED <<parts, covered_set, terminals, mem, k, c, res, hit, answers, ret>>

GenerateVectors ==
    /\ pc = "cover"
    /\ k \notin Parts
    /\ res
    /\ pc' = "vectors"
    /\ UNCHANGED <<parts, covered_set, terminals, covered_, mem, k, c, res, hit, answers,
                   ret>>

ReturnHit ==
    /\ pc = "vectors"
    /\ answers' = answers + 1
    /\ pc' = "idle"
    /\ ret' = "hit"
    /\ UNCHANGED <<parts, covered_set, terminals, covered_, mem, k, c, res, hit>>

(* next(), as VariableGenerator and VariableDefaultSolver describe it: the *)
(* first n partitions are solved, the next one fails because of its hard   *)
(* constraints or of soft constraints it has accepted; if all are solved   *)
(* the answer depends on the vectors.                                      *)
ReturnNext(n, a, ok) ==
    /\ pc = "next"
    /\ \A p \in 1..n : a \in WithReads(p)
    /\ n < Len(parts) => ~ok /\ (WithReads(n + 1) = {} \/ Of(n + 1, "soft") # {})
    /\ n = Len(parts) /\ ~HasVec => ok
    /\ mem' = [v \in Var |-> IF v \in WriteVar /\ \E p \in 1..n : v \in Support(p)
                             THEN a[v] ELSE mem[v]]
    /\ pc' = "idle"
    /\ ret' = IF ok THEN "next" ELSE "false"
    /\ UNCHANGED <<parts, covered_set, terminals, covered_, k, c, res, hit, answers>>

Next ==
    \/ ResetCoverage
    \/ \E v \in ReadVar, x \in Value : Assign(v, x)
    \/ \E m \in [WriteVar -> Value] : NextCov(m)
    \/ Skip
    \/ Miss
    \/ AtConstraint /\ \E a \in Hitting(k, c) : Hit(a)
    \/ NoHit
    \/ Covered
    \/ GenerateVectors
    \/ ReturnHit
    \/ \E n \in 0..Len(parts), a \in Assignment, ok \in BOOLEAN : ReturnNext(n, a, ok)

Spec == Init /\ [][Next]_vars
-----------------------------------------------------------------------------
(* The state has its types; a solver notes only names of cover constraints *)
(* and knows only variables of its partition.                              *)
TypeOK ==
    /\ covered_set \in [Parts -> SUBSET Name]
    /\ \A p \in Parts : covered_set[p] \subseteq {parts[p][j].name : j \in Of(p, "cover")}
    /\ terminals \in [Parts -> SUBSET Var]
    /\ \A p \in Parts : terminals[p] \subseteq Support(p)
    /\ covered_ \in BOOLEAN
    /\ mem \in [Var -> Value]
    /\ k \in 1..(Len(parts) + 1)
    /\ c \in Nat
    /\ res \in BOOLEAN
    /\ hit \subseteq Parts \X Nat
    /\ answers \in Nat
    /\ pc \in {"idle", "cover", "vectors", "next"}
    /\ ret \in {"none", "hit", "next", "false"}

(* When nextCov() returns because cover constraints have been hit, the     *)
(* memory of the user satisfies each of them and all hard constraints of   *)
(* its partition, under the present values of the read references: no      *)
(* later solver of the same call destroys what an earlier one has found.   *)
HitsReal ==
    ret = "hit" =>
        /\ hit # {}
        /\ \A h \in hit : mem \in Hitting(h[1], h[2])

(* Every hit counts once: between two resets there are not more answers    *)
(* by a hit than cover constraints, so a user who calls next_cov() until   *)
(* isCovered() gets to an end.                                             *)
CoverageEnds ==
    answers <= Cardinality(UNION {{p} \X Of(p, "cover") : p \in Parts})

(* The generator declares itself covered only when no cover constraint     *)
(* whose name is still missing can be hit under the present values of the  *)
(* read references, or when the vectors could not be generated.            *)
CoveredJustified ==
    [][~covered_ /\ covered_' /\ pc = "cover" =>
          \A p \in Parts : \A j \in Of(p, "cover") :
              parts[p][j].name \notin covered_set[p] => Hitting(p, j) = {}]_vars
=============================================================================
