----------------------- MODULE VariableDefaultSolver -----------------------
(***************************************************************************)
(* The solver of one constraint partition, used by Generator::next().  The *)
(* constructor asserts the hard constraints, looks for contradictions      *)
(* among them, accepts as many soft constraints as it can in the order of  *)
(* the partition, and prepares the randomization (BDD solvers, variables   *)
(* that keep their random value).  solve() turns the current values of the *)
(* read references into assumptions, adds suggestions, and drops           *)
(* suggestions one by one until the solver finds a solution.               *)
(*                                                                         *)
(* The formula of a constraint is the set of the assignments that satisfy  *)
(* it, and the metaSMT solver is represented by the set of the assignments *)
(* that satisfy everything asserted so far: it answers yes when that set,  *)
(* cut down by the assumptions of the call, is not empty, and any member   *)
(* may be its model.  An assumption and a suggestion equate one variable   *)
(* with one value, and no variable is in two of them: assumptions and      *)
(* suggestions are partial functions from variables to values.             *)
(***************************************************************************)
EXTENDS Naturals, Sequences, FiniteSets

CONSTANTS
    WriteVar,   \* variables bound to a memory cell of the user (write_references)
    ReadVar,    \* variables that stand for reference(x) (read_references)
    DistVar,    \* auxiliary variables of dist() and inside() (dist_references)
    DistOf,     \* DistOf[d]: the variable that d distributes (dist_ref_to_var_map)
    DistValue,  \* DistValue[d]: the values the distribution of d can draw
    Value,      \* values of a variable
    Zero,       \* the value read from an empty string
    HasCudd,    \* FactorySolver<CUDD>::isDefined()
    Partition   \* the constraint partitions a solver may be created for

Var == WriteVar \union ReadVar \union DistVar
Cell == WriteVar \union ReadVar
Assignment == [Var -> Value]
Constraints ==
    [kind : {"hard", "soft", "cover"}, support : SUBSET Var,
     sat : SUBSET Assignment,
     simple : BOOLEAN]   \* 0 < complexity() < complexity_limit_for_bdd

ASSUME VarAssumption ==
    /\ WriteVar \intersect ReadVar = {}
    /\ DistVar \intersect Cell = {}
    /\ IsFiniteSet(WriteVar)
ASSUME ValueAssumption == Zero \in Value
ASSUME DistAssumption ==
    /\ DistOf \in [DistVar -> WriteVar]
    /\ DistValue \in [DistVar -> SUBSET Value]
    /\ \A d \in DistVar : DistValue[d] # {}
ASSUME CuddAssumption == HasCudd \in BOOLEAN
(* A formula depends on the variables of its support only.                 *)
ASSUME PartitionAssumption ==
    /\ Partition \subseteq Seq(Constraints)
    /\ \A p \in Partition : \A k \in 1..Len(p) : \A a, b \in Assignment :
          (\A v \in p[k].support : a[v] = b[v]) => (a \in p[k].sat <=> b \in p[k].sat)

VARIABLES
    part,            \* constr_pttn_
    bypass,          \* bypass_constraint_analysis when the solver was created
    asserted,        \* assignments that satisfy the assertions of solver_
    softs_,          \* places in part of the pending soft assertions
    rejected,        \* result of metaSMTVisitor::analyseSofts()
    contradictions_, \* sets of places in part
    inactive_softs_, \* places in part
    bdd_solvers_,    \* bdd_solvers_[v]: values the BDD solver of v may return
    random_refs,     \* variables of random_write_refs_
    terminals_,      \* variables solver_ has met
    assumptions_,
    suggestions_,
    mem,             \* the memory cells of write and read references
    i,               \* index of the loop of the constructor that is running
    pc, ret          \* control point; the last answer of solve()

soft == <<softs_, rejected, inactive_softs_>>
rand == <<bdd_solvers_, random_refs>>
call == <<assumptions_, suggestions_>>
vars == <<part, bypass, asserted, soft, contradictions_, rand, terminals_, call,
          mem, i, pc, ret>>

Places == 1..Len(part)
Hards == {k \in Places : part[k].kind = "hard"}
Softs == {k \in Places : part[k].kind = "soft"}
Support == UNION {part[k].support : k \in Places}
Writes == WriteVar \intersect Support
Reads == ReadVar \intersect Support
Dists == DistVar \intersect Support

(* The assignments that satisfy the constraints at the places K of p.      *)
Solutions(p, K) == {a \in Assignment : \A k \in K : a \in p[k].sat}
Satisfying(K) == Solutions(part, K)
Agrees(a, f) == \A v \in DOMAIN f : a[v] = f[v]

(* The models of solver_ under the assumptions of the call.                *)
Models == {a \in asserted : Agrees(a, assumptions_) /\ Agrees(a, suggestions_)}

Nothing == [v \in {} |-> Zero]

(* A solver is created for a partition.                                    *)
Init ==
    /\ part \in Partition
    /\ bypass \in BOOLEAN
    /\ asserted = Assignment
    /\ softs_ = <<>>
    /\ rejected = {}
    /\ contradictions_ = {}
    /\ inactive_softs_ = {}
    /\ bdd_solvers_ = Nothing
    /\ random_refs = {}
    /\ terminals_ = {}
    /\ assumptions_ = Nothing
    /\ suggestions_ = Nothing
    /\ mem \in [Cell -> Value]
    /\ i = 1
    /\ pc = "assert"
    /\ ret = "none"
-----------------------------------------------------------------------------
(***************************************************************************)
(* The constructor.                                                        *)
(***************************************************************************)
MakeAssertion ==
    /\ pc = "assert"
    /\ i \in Places
    /\ part[i].kind = "hard"
    /\ asserted' = asserted \intersect part[i].sat
    /\ terminals_' = terminals_ \union part[i].support
    /\ i' = i + 1
    /\ UNCHANGED <<part, bypass, soft, contradictions_, rand, call, mem, pc, ret>>

MakeSoftAssertion ==
    /\ pc = "assert"
    /\ i \in Places
    /\ part[i].kind = "soft"
    /\ softs_' = Append(softs_, i)
    /\ terminals_' = terminals_ \union part[i].support
    /\ i' = i + 1
    /\ UNCHANGED <<part, bypass, asserted, rejected, inactive_softs_, contradictions_,
                   rand, call, mem, pc, ret>>

(* The default solver ignores cover constraints.                           *)
SkipCover ==
    /\ pc = "assert"
    /\ i \in Places
    /\ part[i].kind = "cover"
    /\ i' = i + 1
    /\ UNCHANGED <<part, bypass, asserted, soft, contradictions_, rand, terminals_,
                   call, mem, pc, ret>>

Bypass ==
    /\ pc = "assert"
    /\ i > Len(part)
    /\ bypass
    /\ pc' = "idle"
    /\ UNCHANGED <<part, bypass, asserted, soft, contradictions_, rand, terminals_,
                   call, mem, i, ret>>

(* The minimal sets of constraints that cannot be satisfied together.      *)
MinimalConflicts(K) ==
    {C \in SUBSET K : Satisfying(C) = {} /\ \A c \in C : Satisfying(C \ {c}) # {}}

(* metaSMT::analyze_conflicts: some of them, and one at least if there is  *)
(* one (module ContradictionAnalysis models the search itself).            *)
AnalyzeConflicts(K) ==
    {R \in SUBSET MinimalConflicts(K) : R = {} <=> MinimalConflicts(K) = {}}

(* The soft constraints are analysed only if the hard ones agree.          *)
AnalyseHards ==
    /\ pc = "assert"
    /\ i > Len(part)
    /\ ~bypass
    /\ contradictions_' \in AnalyzeConflicts(Hards)
    /\ pc' = IF contradictions_' = {} THEN "softs" ELSE "prepare"
    /\ i' = 1
    /\ UNCHANGED <<part, bypass, asserted, soft, rand, terminals_, call, mem, ret>>

AcceptSoft ==
    /\ pc = "softs"
    /\ i \in 1..Len(softs_)
    /\ asserted \intersect part[softs_[i]].sat # {}
    /\ asserted' = asserted \intersect part[softs_[i]].sat
    /\ i' = i + 1
    /\ UNCHANGED <<part, bypass, soft, contradictions_, rand, terminals_, call, mem,
                   pc, ret>>

RejectSoft ==
    /\ pc = "softs"
    /\ i \in 1..Len(softs_)
    /\ asserted \intersect part[softs_[i]].sat = {}
    /\ rejected' = rejected \union {i}
    /\ i' = i + 1
    /\ UNCHANGED <<part, bypass, asserted, softs_, inactive_softs_, contradictions_,
                   rand, terminals_, call, mem, pc, ret>>

(* The place k of the partition is the Rank(k)-th soft constraint.         *)
SoftsUpTo(p, k) == Cardinality({j \in 1..k : p[j].kind = "soft"})
Rank(k) == SoftsUpTo(part, k)

(* Mutant: all constraints are counted, not only the soft ones.            *)
NamesOfAll(ranks) == Softs \intersect ranks

(* The constraints that an ascending list of indices of soft constraints   *)
(* stands for, counting the soft constraints while walking the partition.  *)
NamesOf(ranks) == {k \in Softs : Rank(k) \in ranks}

EndOfSofts ==
    /\ pc = "softs"
    /\ i > Len(softs_)
    /\ softs_' = <<>>
    /\ inactive_softs_' = NamesOf(rejected)
    /\ pc' = "prepare"
    /\ UNCHANGED <<part, bypass, asserted, rejected, contradictions_, rand, terminals_,
                   call, mem, i, ret>>

(* Mutant: the map has the soft constraints, too.                          *)
SingleVariableConstraintsAny(v) == {k \in Places : part[k].support = {v}}

(* singleVariableConstraintMap().                                          *)
SingleVariableConstraints(v) == {k \in Hards : part[k].support = {v}}

(* What the BDD solver of v may return.  If none of its constraints is     *)
(* asserted the solver does not know v and read() leaves the string empty. *)
BddValues(v) ==
    LET K == {k \in SingleVariableConstraints(v) : part[k].simple}
    IN IF K = {} THEN {Zero} ELSE {a[v] : a \in Satisfying(K)}

VarsWithDist == {DistOf[d] : d \in Dists}

BddVars == IF HasCudd
           THEN {v \in Writes \ VarsWithDist : SingleVariableConstraints(v) # {}}
           ELSE {}

Prepare ==
    /\ pc = "prepare"
    /\ bdd_solvers_' = [v \in BddVars |-> BddValues(v)]
    /\ LET known == VarsWithDist \union BddVars
       IN random_refs' = IF 2 * Cardinality(known) > Cardinality(Writes) THEN {}
                         ELSE Writes \ known
    /\ pc' = "idle"
    /\ UNCHANGED <<part, bypass, asserted, soft, contradictions_, terminals_, call,
                   mem, i, ret>>
-----------------------------------------------------------------------------
(***************************************************************************)
(* Between two calls: gen_base_children() gives random values to the       *)
(* variables, the program of the user assigns what reference() refers to.  *)
(***************************************************************************)
Assign(v, x) ==
    /\ pc = "idle"
    /\ mem' = [mem EXCEPT ![v] = x]
    /\ ret' = "none"
    /\ UNCHANGED <<part, bypass, asserted, soft, contradictions_, rand, terminals_,
                   call, i, pc>>

(***************************************************************************)
(* solve().                                                                *)
(***************************************************************************)
Refuse ==
    /\ pc = "idle"
    /\ contradictions_ # {}
    /\ ret' = "false"
    /\ UNCHANGED <<part, bypass, asserted, soft, contradictions_, rand, terminals_,
                   call, mem, i, pc>>

(* Half of the variables without distribution keep their random value.     *)
Halves == {S \in SUBSET random_refs :
              Cardinality(S) = (Cardinality(random_refs) + 1) \div 2}

(* The cells S and the values drawn by the BDD solvers and distributions.  *)
Suggestions(S, drawn) ==
    [v \in S \union DOMAIN drawn |-> IF v \in S THEN mem[v] ELSE drawn[v]]

Draws == {f \in [DOMAIN bdd_solvers_ \union Dists -> Value] :
             \A v \in DOMAIN f :
                 f[v] \in (IF v \in DistVar THEN DistValue[v] ELSE bdd_solvers_[v])}

(* Mutant: the read references are forgotten.                              *)
StartSolveWithoutReads(S, drawn) ==
    /\ pc = "idle"
    /\ contradictions_ = {}
    /\ suggestions_' = Suggestions(S, drawn)
    /\ terminals_' = terminals_ \union DOMAIN suggestions_'
    /\ pc' = "solve"
    /\ ret' = "none"
    /\ UNCHANGED <<part, bypass, asserted, soft, contradictions_, rand, mem, i,
                   assumptions_>>

(* CHECK(bdd_solver->solve()) would throw if a BDD solver had no value to  *)
(* draw: see BddSolversAnswer.                                             *)
StartSolve(S, drawn) ==
    /\ pc = "idle"
    /\ contradictions_ = {}
    /\ assumptions_' = [v \in Reads |-> mem[v]]
    /\ suggestions_' = Suggestions(S, drawn)
    /\ terminals_' = terminals_ \union DOMAIN assumptions_' \union DOMAIN suggestions_'
    /\ pc' = "solve"
    /\ ret' = "none"
    /\ UNCHANGED <<part, bypass, asserted, soft, contradictions_, rand, mem, i>>

(* A variable that solver_ has not met keeps its value.                    *)
Solved(a) ==
    /\ pc = "solve"
    /\ mem' = [v \in Cell |-> IF v \in Writes \intersect terminals_ THEN a[v] ELSE mem[v]]
    /\ assumptions_' = Nothing
    /\ suggestions_' = Nothing
    /\ pc' = "idle"
    /\ ret' = "true"
    /\ UNCHANGED <<part, bypass, asserted, soft, contradictions_, rand, terminals_, i>>

(* Mutant: the selected suggestion is swapped to the end, not removed.     *)
DropNoSuggestion(v) ==
    /\ pc = "solve"
    /\ Models = {}
    /\ UNCHANGED vars

DropSuggestion(v) ==
    /\ pc = "solve"
    /\ Models = {}
    /\ suggestions_' = [w \in DOMAIN suggestions_ \ {v} |-> suggestions_[w]]
    /\ UNCHANGED <<part, bypass, asserted, soft, contradictions_, rand, terminals_,
                   assumptions_, mem, i, pc, ret>>

(* Mutant: the loop is left while there are suggestions.                   *)
FailedAtOnce ==
    /\ pc = "solve"
    /\ Models = {}
    /\ assumptions_' = Nothing
    /\ suggestions_' = Nothing
    /\ pc' = "idle"
    /\ ret' = "false"
    /\ UNCHANGED <<part, bypass, asserted, soft, contradictions_, rand, terminals_,
                   mem, i>>

Failed ==
    /\ pc = "solve"
    /\ Models = {}
    /\ DOMAIN suggestions_ = {}
    /\ assumptions_' = Nothing
    /\ suggestions_' = Nothing
    /\ pc' = "idle"
    /\ ret' = "false"
    /\ UNCHANGED <<part, bypass, asserted, soft, contradictions_, rand, terminals_,
                   mem, i>>

Construct ==
    \/ MakeAssertion
    \/ MakeSoftAssertion
    \/ SkipCover
    \/ Bypass
    \/ AnalyseHards
    \/ AcceptSoft
    \/ RejectSoft
    \/ EndOfSofts
    \/ Prepare

SolveLoop ==
    \/ \E a \in Models : Solved(a)
    \/ \E v \in DOMAIN suggestions_ : DropSuggestion(v)
    \/ Failed

Next ==
    \/ Construct
    \/ \E v \in Cell, x \in Value : Assign(v, x)
    \/ Refuse
    \/ \E S \in Halves, drawn \in Draws : StartSolve(S, drawn)
    \/ SolveLoop

Spec == Init /\ [][Next]_vars

(* A constructor and a call of solve() that have begun run to their end.   *)
FairSpec == Spec /\ WF_vars(Construct) /\ WF_vars(SolveLoop)
-----------------------------------------------------------------------------
PartialFunctions(D, R) == UNION {[E -> R] : E \in SUBSET D}

(* The state has the types of the members: every list mentions only        *)
(* constraints and variables of the partition the solver was made for.     *)
TypeOK ==
    /\ part \in Seq(Constraints)
    /\ bypass \in BOOLEAN
    /\ asserted \subseteq Assignment
    /\ softs_ \in Seq(Softs)
    /\ rejected \subseteq 1..Len(part)
    /\ contradictions_ \subseteq SUBSET Hards
    /\ inactive_softs_ \subseteq Softs
    /\ bdd_solvers_ \in PartialFunctions(Writes, SUBSET Value)
    /\ random_refs \subseteq Writes
    /\ terminals_ \subseteq Support
    /\ assumptions_ \in PartialFunctions(Reads, Value)
    /\ suggestions_ \in PartialFunctions(Writes \union Dists, Value)
    /\ mem \in [Cell -> Value]
    /\ i \in 1..(Len(part) + 1)
    /\ pc \in {"assert", "softs", "prepare", "idle", "solve"}
    /\ ret \in {"none", "true", "false"}

(* The soft constraints that a solution has to satisfy.                    *)
ActiveSofts ==
    IF bypass \/ contradictions_ # {} THEN {} ELSE Softs \ inactive_softs_

(* The assignments in which the read references have their present values. *)
WithReads(A) == {a \in A : \A v \in Reads : a[v] = mem[v]}

(* When solve() has returned true, the memory cells of the write           *)
(* references are part of an assignment that satisfies every hard          *)
(* constraint and every soft constraint not listed in inactive_softs_,     *)
(* under the values that the read references have now.  Neither the        *)
(* suggestions, nor the values of earlier calls, nor variables that        *)
(* solver_ has never met may spoil it.                                     *)
SolutionValid ==
    ret = "true" =>
        \E a \in WithReads(Satisfying(Hards \union ActiveSofts)) :
            \A v \in Writes : a[v] = mem[v]

(* When solve() has returned false there is no such assignment: no         *)
(* suggestion (BDD value, distribution, random value) and nothing left     *)
(* from an earlier call makes the solver give up.                          *)
FailureJustified ==
    ret = "false" => WithReads(Satisfying(Hards \union ActiveSofts)) = {}

(* The soft constraints that stay active are the best choice: they can be  *)
(* satisfied together with the hard constraints, and whatever other        *)
(* satisfiable choice there is, the first constraint of the partition in   *)
(* which the two differ is one of theirs (the priority of the soft         *)
(* constraints of the language e, comment of analyseSofts()).              *)
SoftsBest ==
    pc \in {"idle", "solve"} /\ ~bypass /\ contradictions_ = {} =>
        /\ Satisfying(Hards \union ActiveSofts) # {}
        /\ \A S \in SUBSET Softs :
              S # ActiveSofts /\ Satisfying(Hards \union S) # {} =>
                  \E k \in ActiveSofts \ S :
                      \A j \in 1..(k - 1) : j \in S <=> j \in ActiveSofts

(* A solver that has found no contradiction has a value to draw in each of *)
(* its BDD solvers: CHECK(bdd_solver->solve()) never throws ("otherwise,   *)
(* contradiction must have been found!").                                  *)
BddSolversAnswer ==
    pc = "idle" /\ contradictions_ = {} =>
        \A v \in DOMAIN bdd_solvers_ : bdd_solvers_[v] # {}

(* Every call of solve() returns: each turn of the loop has one suggestion *)
(* less.                                                                   *)
SolveReturns == pc = "solve" ~> pc = "idle"
=============================================================================
