------------------------------- MODULE Solver -------------------------------
(***************************************************************************)
(* DirectSolver_Context over any of metaSMT's back ends: formulas are      *)
(* built from variables, asserted and assumed, a solution is looked for    *)
(* and its values are read.  A program has one back end (kind) throughout. *)
(* An answer is read before anything else is built or asserted, as crave   *)
(* does: the libraries keep no model beyond that.                          *)
(***************************************************************************)
EXTENDS SatSolver, BddSolver, SmtBackends

CONSTANTS
    Backends,     \* the back ends that are tried: <<kind, SAT library or "none">>
    Tags,         \* the operations that are tried
    MaxOps,       \* number of operations on formulas
    MaxCommands   \* number of assertions and assumptions

SmtKinds == {"Z3", "STP", "CVC4", "Yices2", "Yices2OneShot", "Boolector"}
SatKinds == {"SAT_Clause", "SAT_Aiger"}
BddKinds == {"CUDD_Context", "CUDD_Distributed"}

(* The variables are numbered in the order in which the context meets them.*)
ASSUME SolverAssumption == MaxOps \in Nat /\ MaxCommands \in Nat /\ Var \subseteq Nat
ASSUME BackendsAssumption ==
    /\ Tags \subseteq {"true", "false", "not", "ite"} \union PredicateTag \union EqualityTag
    /\ Backends \subseteq (SmtKinds \union BddKinds) \X {"none"} \union SatKinds \X SatLibrary

VARIABLES
    kind, library,   \* the back end, and the SAT library below it
    _variables,      \* results of the variables met
    meaning,         \* meaning[k]: the assignments that satisfy formula k
    results,         \* results[k]: result_type of formula k
    backend,         \* the state of the back end
    model,           \* what the library keeps after solve()
    answer, values,
    asserted, possible, solutions,   \* history, as AbstractSolver has it
    commands                         \* number of commands given

vars == <<kind, library, _variables, meaning, results, backend, model, answer, values,
          asserted, possible, solutions, commands>>

-----------------------------------------------------------------------------
(* The bit-vector back ends: level 1 of the library's stack has the        *)
(* assertions, level 2 is pushed for the assumptions of a call.  CVC4 and  *)
(* Yices2 hold both back (asserts, assumes), Z3 and STP the assumptions,   *)
(* Boolector has the library do it (native).  held: there are assumptions, *)
(* even if they say nothing; known: the library has found that level 1     *)
(* cannot be satisfied.                                                    *)
SmtInit ==
    [level1 |-> One, level2 |-> One, isPushed |-> FALSE, asserts |-> One, assumes |-> One,
     held |-> FALSE, native |-> One, known |-> FALSE]
Deferred == {"CVC4", "Yices2", "Yices2OneShot"}

SmtAssert(k, s, f) ==
    IF k \in Deferred THEN [s EXCEPT !.asserts = @ \intersect f]
    ELSE [s EXCEPT !.level1 = @ \intersect f]
SmtAssume(k, s, f) ==
    IF k = "Boolector" THEN [s EXCEPT !.native = @ \intersect f]
    ELSE [s EXCEPT !.assumes = @ \intersect f, !.held = TRUE]

(* A formula of a library is known by what satisfies it.                   *)
SmtOp(k, tag, args) ==
    LET table == IF k = "Yices2OneShot" THEN "Yices2" ELSE k
    IN  IF tag \in PredicateTag \union EqualityTag
        THEN {a \in Assignment : PredicateOp(table, tag, a \in args[1], a \in args[2])}
        ELSE BddOp(SmtInit, tag, args)

(* removeOldAssumptions(), or a new context.                               *)
RemoveOld(k, s) ==
    CASE k = "Yices2OneShot" -> [s EXCEPT !.level1 = One]
      [] s.isPushed -> [s EXCEPT !.level2 = One, !.isPushed = FALSE]
      [] OTHER -> s
(* Mutant: the assertions go to the level that is popped.                  *)
PushAssertionsLate(k, s) ==
    [s EXCEPT !.level2 = @ \intersect s.asserts, !.asserts = IF k = "Yices2OneShot" THEN @ ELSE One]
PushAssertions(k, s) ==
    [s EXCEPT !.level1 = @ \intersect s.asserts, !.asserts = IF k = "Yices2OneShot" THEN @ ELSE One]
PushAssumptions(k, s) ==
    CASE k = "Yices2OneShot" ->
           [s EXCEPT !.level1 = @ \intersect s.assumes, !.assumes = One, !.held = FALSE]
      [] k = "Yices2" /\ ~s.held -> s
      [] OTHER -> [s EXCEPT !.level2 = s.assumes, !.isPushed = TRUE, !.assumes = One, !.held = FALSE]
Flushed(k, s) == PushAssertions(k, RemoveOld(k, s))
Deferring(k, s) == PushAssumptions(k, Flushed(k, s))

(* What the library is asked to satisfy, and what is left afterwards.      *)
SmtAsked(k, s) ==
    IF k \in Deferred THEN LET d == Deferring(k, s) IN d.level1 \intersect d.level2
    ELSE s.level1 \intersect s.assumes \intersect s.native
SmtSolved(k, s) ==
    IF k \in Deferred
    THEN LET d == Deferring(k, s)
         IN  [d EXCEPT !.known = k = "Yices2" /\ ~d.isPushed /\ d.level1 = {}]
    ELSE [s EXCEPT !.assumes = One, !.held = FALSE, !.native = One]

(* yices_push() fails on a context that it knows to be unsatisfiable, from *)
(* a check without assumptions or already from the assertions: solve()     *)
(* then throws, and the assumptions are still held.                        *)
MayRefuse(k, s) == k = "Yices2" /\ s.held /\ Flushed(k, s).level1 = {}
MustRefuse(k, s) == MayRefuse(k, s) /\ s.known
Refused(k, s) == [Flushed(k, s) EXCEPT !.known = TRUE]

-----------------------------------------------------------------------------
(* The operations of a back end, by its kind.                              *)
BackendInit(k, lib) ==
    CASE k \in SmtKinds -> SmtInit
      [] k = "SAT_Clause" -> ClauseInit(lib)
      [] k = "SAT_Aiger" -> AigerInit(lib)
      [] k \in BddKinds -> BddInit
NewVariable(k, s, v) ==
    CASE k \in SmtKinds -> Built(s, {a \in Assignment : a[v]})
      [] k = "SAT_Clause" -> ClauseVar(s)
      [] k = "SAT_Aiger" -> AigerVar(s)
      [] k \in BddKinds -> BddVar(s, v)
Operation(k, lib, s, tag, args) ==
    CASE k = "SAT_Clause" -> ClauseOp(lib, s, tag, args)
      [] k = "SAT_Aiger" -> AigerOp(s, tag, args)
      [] k \in SmtKinds -> Built(s, SmtOp(k, tag, args))
      [] k \in BddKinds -> Built(s, BddOp(s, tag, args))
BackendAssert(k, lib, s, r) ==
    CASE k \in SmtKinds -> SmtAssert(k, s, r)
      [] k = "SAT_Clause" -> AssertLit(lib, s, r)
      [] k = "SAT_Aiger" -> [s EXCEPT !.assertions = @ \union {r}]
      [] k \in BddKinds -> BddAssert(s, r)
BackendAssume(k, lib, s, r) ==
    CASE k \in SmtKinds -> SmtAssume(k, s, r)
      [] k = "SAT_Clause" -> AssumeLit(lib, s, r)
      [] k = "SAT_Aiger" -> [s EXCEPT !.assumptions = @ \union {r}]
      [] k \in BddKinds -> BddAssume(s, r)

(* The models of the library, one of which it keeps.                       *)
Found(k, lib, s) ==
    CASE k \in SmtKinds -> SmtAsked(k, s)
      [] k = "SAT_Clause" -> SatModels(lib, s)
      [] k = "SAT_Aiger" -> AigerModels(lib, s)
      [] k \in BddKinds -> BddSolutions(k, s)
BackendSolved(k, lib, s) ==
    CASE k \in SmtKinds -> SmtSolved(k, s)
      [] k = "SAT_Clause" -> SatSolved(lib, s)
      [] k = "SAT_Aiger" -> AigerSolved(lib, s)
      [] k \in BddKinds -> BddSolved(k, s)

(* A predicate is read as 0, 1 or X.                                       *)
Tribool(b) == IF b THEN "1" ELSE "0"
BackendRead(k, m, v, r) ==
    CASE k \in SmtKinds -> Tribool(m[v])
      [] k = "SAT_Clause" -> Tribool(LitValue(m, r))
      [] k = "SAT_Aiger" -> Tribool(LitValue(m, SatLit(r)))
      [] k \in BddKinds -> IF v \in DOMAIN m THEN Tribool(m[v]) ELSE "X"

-----------------------------------------------------------------------------
NoModel == <<>>
Init ==
    /\ \E b \in Backends : kind = b[1] /\ library = b[2]
    /\ _variables = [v \in {} |-> 0]
    /\ meaning = <<>>
    /\ results = <<>>
    /\ backend = BackendInit(kind, library)
    /\ model = NoModel
    /\ answer = "none"
    /\ values = <<>>
    /\ asserted = Assignment
    /\ possible = Assignment
    /\ solutions = {}
    /\ commands = 0

Forget == answer' = "none" /\ values' = <<>> /\ solutions' = {} /\ model' = NoModel

Append2(built, f) ==
    /\ backend' = built.s
    /\ results' = Append(results, built.result)
    /\ meaning' = Append(meaning, f)

(* The terminal v, when it is not among _variables; otherwise the result   *)
(* that it has there is used again and nothing changes.                    *)
Variable(v) ==
    /\ v \notin DOMAIN _variables
    /\ \A w \in Var : w < v => w \in DOMAIN _variables
    /\ LET built == NewVariable(kind, backend, v)
       IN  /\ _variables' = [w \in DOMAIN _variables \union {v} |->
                                IF w = v THEN built.result ELSE _variables[w]]
           /\ Append2(built, {a \in Assignment : a[v]})
    /\ Forget
    /\ UNCHANGED <<kind, library, asserted, possible, commands>>

(* What the formula means, by SMT-LIB.                                     *)
Holds(tag, x, y, z) ==
    CASE tag = "true" -> TRUE         [] tag = "false" -> FALSE
      [] tag = "not" -> ~x            [] tag = "ite" -> (IF x THEN y ELSE z)
      [] tag = "and" -> x /\ y        [] tag = "nand" -> ~(x /\ y)
      [] tag = "or" -> x \/ y         [] tag = "nor" -> ~(x \/ y)
      [] tag \in {"xor", "nequal", "distinct"} -> x # y
      [] tag \in {"xnor", "equal"} -> x = y
      [] tag = "implies" -> (x => y)
Arity(tag) == CASE tag \in {"true", "false"} -> 0 [] tag = "not" -> 1 [] tag = "ite" -> 3 [] OTHER -> 2
MeaningOf(tag, args) ==
    {a \in Assignment : LET at(i) == i <= Len(args) /\ a \in meaning[args[i]]
                        IN  Holds(tag, at(1), at(2), at(3))}

(* Different operands, in one order if the order does not matter.          *)
Operands(tag) ==
    {args \in [1..Arity(tag) -> DOMAIN meaning] :
        /\ IsInjective(args)
        /\ Arity(tag) = 2 /\ tag # "implies" => args[1] < args[2]}

Apply(tag, args) ==
    /\ Len(meaning) - Cardinality(DOMAIN _variables) < MaxOps
    /\ Append2(Operation(kind, library, backend, tag, [i \in DOMAIN args |-> results[args[i]]]),
               MeaningOf(tag, args))
    /\ Forget
    /\ UNCHANGED <<kind, library, _variables, asserted, possible, commands>>

Assertion(k) ==
    /\ commands < MaxCommands
    /\ backend' = BackendAssert(kind, library, backend, results[k])
    /\ asserted' = asserted \intersect meaning[k]
    /\ possible' = possible \intersect meaning[k]
    /\ commands' = commands + 1
    /\ Forget
    /\ UNCHANGED <<kind, library, _variables, meaning, results>>

Assumption(k) ==
    /\ commands < MaxCommands
    /\ backend' = BackendAssume(kind, library, backend, results[k])
    /\ possible' = possible \intersect meaning[k]
    /\ commands' = commands + 1
    /\ Forget
    /\ UNCHANGED <<kind, library, _variables, meaning, results, asserted>>

SolveSat(m) ==
    /\ model' = m
    /\ answer' = "sat"
    /\ solutions' = possible
    /\ backend' = BackendSolved(kind, library, backend)
    /\ possible' = asserted
    /\ values' = <<>>
    /\ UNCHANGED <<kind, library, _variables, meaning, results, asserted, commands>>

SolveUnsat ==
    /\ Found(kind, library, backend) = {}
    /\ ~MustRefuse(kind, backend)
    /\ model' = NoModel
    /\ answer' = "unsat"
    /\ solutions' = possible
    /\ backend' = BackendSolved(kind, library, backend)
    /\ possible' = asserted
    /\ values' = <<>>
    /\ UNCHANGED <<kind, library, _variables, meaning, results, asserted, commands>>

SolveThrows ==
    /\ MayRefuse(kind, backend)
    /\ backend' = Refused(kind, backend)
    /\ answer' = "error"
    /\ values' = <<>>
    /\ solutions' = {}
    /\ model' = NoModel
    /\ UNCHANGED <<kind, library, _variables, meaning, results, asserted, possible, commands>>

(* read_value of every variable: one that was never met is X.              *)
ReadValues ==
    /\ answer = "sat"
    /\ values = <<>>
    /\ values' = [v \in Var |-> IF v \in DOMAIN _variables
                                THEN BackendRead(kind, model, v, _variables[v]) ELSE "X"]
    /\ UNCHANGED <<kind, library, _variables, meaning, results, backend, model, answer,
                   asserted, possible, solutions, commands>>

Next ==
    \/ \E v \in Var : Variable(v)
    \/ \E tag \in Tags : \E args \in Operands(tag) : Apply(tag, args)
    \/ \E k \in DOMAIN meaning : Assertion(k)
    \/ \E k \in DOMAIN meaning : Assumption(k)
    \/ \E m \in Found(kind, library, backend) : SolveSat(m)
    \/ SolveUnsat
    \/ SolveThrows
    \/ ReadValues

Spec == Init /\ [][Next]_vars

-----------------------------------------------------------------------------
Promise == INSTANCE AbstractSolver WITH refusable <- kind = "Yices2" /\ backend.held

(* Every back end keeps the promise: what is asserted holds in every later *)
(* call, what is assumed in the next one only, however the back end holds  *)
(* them back, repeats or flushes them; solve() finds a solution if there   *)
(* is one, and the values read satisfy what was asked, whatever an X is    *)
(* taken for.  Yices2 alone may throw instead of answering, and only if    *)
(* the assertions contradict one another and an assumption is pending,     *)
(* which then stays pending.                                               *)
SolverKeepsPromise == Promise!Spec

Completions(cube) == {a \in Assignment : \A v \in DOMAIN cube : a[v] = cube[v]}
Drawn == UNION {Completions(c) : c \in BddSolutions(kind, backend)}

(* CUDD_Distributed can draw every solution and nothing else while its     *)
(* counts are those of the variables that there are (test dist_Nand).      *)
FreshCountsDrawAll ==
    kind = "CUDD_Distributed" /\ Recount(backend).counted = Len(backend.order) =>
        Drawn = Complete(backend)
=============================================================================
