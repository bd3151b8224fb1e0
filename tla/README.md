# TLA+ models of CRAVE

CRAVE is a C++ library for constrained random generation. A program declares
classes with random variables and constraints; `next()` gives the variables
random values that satisfy the constraints, `next_cov()` values that also hit
cover constraints. The library splits the constraints into independent
partitions, hands each one to an SMT or BDD solver through metaSMT, and writes
the answers back to the memory of the user. Paths below are relative to
`crave/src/`.

## Inventory

| component | state | operations | what makes it correct |
|---|---|---|---|
| constraint manager (`lib/ConstraintManager.cpp`) | list of named constraints, `changed_` | make, enable, disable | every change is noticed by whoever caches |
| partitioner (`lib/ConstraintPartitioner.cpp`, `ConstraintPartition.cpp`) | list of gathered constraints, partitions with support sets, `single_variable_constraint_map_` | merge, partition, reset | separate, complete, minimal, ordered partitions; termination |
| randomized objects (`lib/ConstrainedRandom.cpp`) | tree of objects, `rebuild_`, a `Generator` each | construct, add child, enable, disable, `next`, `next_cov`, `request_rebuild` | a randomization uses the constraints of this moment, of the whole subtree |
| generator (`lib/Generator.cpp`) | partitioner, variable, coverage and vector generators, `covered_` | `reset`, `merge`, `rebuild`, `next`, `nextCov`, `resetCoverage` | its caches agree with its manager |
| solver of a partition (`lib/VariableDefaultSolver.cpp`) | assertions, accepted and rejected soft constraints, contradictions, BDD solvers | constructor (analysis), `solve` | right answers in both directions; best soft constraints; termination |
| variable generators (`lib/VariableGeneratorType.cpp`, `VariableGeneratorMT.cpp`) | solvers, `result_` shared by threads | `reset`, `solve` | the answer is the conjunction of the solvers' answers, whatever the interleaving |
| coverage solvers (`lib/VariableCoverageSolver.cpp`, `VariableCoverageGenerator.cpp`) | `covered_set_` | `solve`, `reset` | hits are real, counted once, coverage ends |
| vector generator (`lib/VectorGenerator.cpp`) | solver and element variables per vector | `reset`, `solve` | size and elements satisfy the constraints |
| choice of the back end (`lib/metaSMTNodeVisitor.cpp`) | `solver_type_`, shared by all | `setSolverType`, `getNewInstance` | all solvers of a `reset()` have one back end that the build has |
| metaSMT visitor (`lib/metaSMTNodeVisitorImpl.hpp`) | terminals, softs, assumptions, suggestions | assert, soft-assert, assume, suggest, `solve`, `read` | the bit-vectors mean what the author of the constraint wrote |
| expressions and their visitors (`crave/ir`, `lib/*Visitor.cpp`) | syntax trees | fix widths, support sets, complexity, replace, evaluate | the visitors agree on widths and values |
| metaSMT (`../metaSMT/src/metaSMT`): `BitBlast`, cardinality encodings, contradiction analysis | | build circuits, analyse | circuits compute the arithmetic of SMT-LIB; minimal conflicts |
| back ends of metaSMT (`backend/`) | clauses, assumptions, BDDs, counts | formulas, `assertion`, `assumption`, `solve`, `read_value` | each of them keeps one promise |
| distributions (`crave/frontend/Distribution.hpp`, `WeightedRange.hpp`) | weighted ranges | add range, draw | disjoint ranges, draws by weight |
| random variables and references (`crave/frontend`) | memory cells | read, assign result, `gen_values` | conversions keep the value |
| seed manager, settings, initialization (`lib/RandomSeedManager.cpp`, `SettingType.cpp`, `ConstrainedRandomInit.cpp`) | seed, generator, two sections in a file | `init`, load, save, `set_global_seed`, `set_solver_backend` | the seed on record is the one in use |
| evaluator, functional coverage (`lib/EvalVisitor.cpp`, `experimental/Coverage*.hpp`) | assignments, bins, runs of transitions | `sample`, `covered`, `uncovered_as_list` | a bin counts exactly its samples |
| objects and sequence items (`lib/experimental/Object.cpp`, `SequenceItem.cpp`) | tree, names, generator cache | construct, destroy, switch, edit, `randomize`, `goal` | names apart, caches current |
| rule graph (`lib/experimental/ConstrainedRandomGraph.cpp`, `GraphVisitor.cpp`) | nodes, linked graph, path | assign, `root`, draw | every sentence of the grammar executed and covered |
| Graphviz output of constraints, logging, SystemC type traits, `RandObjGenerator`, examples, vendored code | | | output only, or not of this project |

How they interact. `rand_obj::next()` first rebuilds if `rebuild_` is set:
it collects the managers and vectors of the whole tree below
(`gather_constraints`) and lets the generator partition them. `Generator::next()`
rebuilds on its own account if `changed_` of its manager is set, then calls the
variable generator, one solver per partition, and then the vector generator
with the sizes just found. `nextCov()` asks the coverage solvers first and falls
back to `next()` for good once nothing is left to hit. All of this happens in
the caller's thread except `VariableGeneratorMT`, which starts a thread per
solver.

What is hard: two flags and a cache per object in a tree; a partition that grows
by repeated passes; soft constraints chosen once and kept while read references
change; suggestions that may have to be given up; unsynchronized sharing of
`result_`; coverage state across calls; vectors whose size changes between
calls; a factory asked by several threads; back ends that hold assertions and
assumptions back in different ways; widths and signs that every visitor extends
by its own rule; a call inside an assert. The list `hazards` in `PROJECT.json`
has them at their lines.

## Modules

From the constraint manager to the vector generator formulas are not modelled as
syntax: a constraint is a record with its kind, its support and the set `sat` of
assignments that satisfy it. Solvers are
represented by sets of assignments; the answer of a solver is "is the set
empty" and any member can be its model. Values and names are small sets. What a
formula means is the subject of `ConstraintSemantics`, what a solver does with
it that of `Solver`.

* `ConstraintPartitioner`: `mergeConstraints()` visits one constraint per step,
  `maximizePartition()` is a loop of steps: `SeedPartition`, `Absorb`, `Skip`,
  `NextPass`, `ClosePartition`. `Add` is `ConstraintPartition::add()` with the
  sorted insertion and the map for the BDD solvers. The list being walked is
  kept as what lies before and after the iterator.
* `RandObjTree`, `RandObjAbstract`, `RandObj`: the shape of the program, the
  promise ("each randomization solves exactly what is enabled below the object
  now") and the code with `rebuild_`, `changed_` and the caches. A call is one
  step, since the code is sequential. `last` records what the solvers were asked.
* `VariableDefaultSolver`: the constructor step by step (assert, analyse,
  accept or reject a soft constraint, prepare) and `solve()` with its loop.
  `AnalyzeConflicts` and `Models` stand for metaSMT and are external.
* `PartitionedSolve`, `VariableGenerator`, `VariableGeneratorMT`: the promise of
  a variable generator and its two implementations. In the second one the
  threads of construction and of solving interleave with the main thread at
  every access to `result_`, which is uninitialized at first.
* `Session`, `Generators`: the factory of solvers step by step, since every
  creation thread runs through it; the settings file as a map with two sections,
  `init()` and the calls that set seed and back end. `Generators` composes them
  with both variable generators: `enable_multithreading()` replaces one by the
  other, settings change between the calls.
* `VariableCoverage`: `next_cov()` from the random assignment at its beginning
  through every coverage solver to the vectors and the return. `covered_set_`
  holds names, as in the code, and names are unique only within one manager.
* `VectorGenerator`: the second half of `Generator::next()`. Foreach
  constraints have subscript offsets; each element variable is one bit wide
  until a foreach has accessed it, and keeps the width it has when the solver
  first meets it. A formula over different widths stops the program (`Abort`,
  external: the backends do not accept it). `Size` is what the variable
  generator may find.
* `Expression`, `ExpressionVisitors`, `ConstraintSemantics`:
  expressions as trees of records; `FixWidth`, `SupportSet`, `Complexity` and
  `Replace` are the visitors, `Translate` is the metaSMT visitor under an
  assignment. Complexities are added and multiplied in a word of
  `ComplexityBits` bits, as the code does in an `unsigned int`. `ConstraintSemantics` takes one expression and one assignment per
  behaviour, and states the reference: `Exact`, the value over the integers, and
  whether it is plain (no value leaves its type, no divisor is 0).
* `BitBlast`, `SmtBackends`: circuits on sequences of bits, cardinality encodings, and
  what the five wrappers of bit-vector libraries hand to their library, whose
  functions are taken from SMT-LIB (external). `ContradictionAnalysis` is the
  recursive search of `analyze_conflicts` with its stack.
* `SatSolver`, `BddSolver`, `Solver`, `AbstractSolver`: `DirectSolver_Context` over each
  back end, from formulas to values read, and the promise of metaSMT as an
  abstract specification. A SAT library decides clauses, a BDD is the set of its
  solutions with an order of levels. `SolveThrows` is a `solve()` that Yices2 leaves by an
  exception, because `yices_push()` fails on a context known to be unsatisfiable; the
  library knows it after a check without assumptions, and may notice it when the
  assertions are made. `AbstractSolver` has `Refuse` for it. The other errors of
  `Yices2.hpp` (`yices_pop()`, `yices_assert_formula()`) do not occur: what is popped was pushed,
  and formulas are well-formed.
* `ObjectHierarchy`, `Distribution`, `SequenceItem`: construction member by member on
  the stack of names, destruction, copies; ranges over a type of `TypeBits` bits;
  and items that build a generator from the constraints below them. `above` is the
  object with those around it, the path that `request_rebuild()` climbs through
  `parent_`.
* `RuleGraph`: assignment of grammar expressions, linking, the unfolded graph, the
  depth-first search with its loop per path, and the drawing. `NDEBUG` says
  whether assertions are compiled.
* `Expression`, `Covergroup`: functional coverage of the
  experimental API. Here expressions are evaluated: as the sequence of steps that
  `EvalVisitor` makes on its stack, with the assignment that an equality may
  leave in the map. Words are `Bits` wide. `SampleBin` and `SampleTransition` are
  `calcHit()` of the two kinds of bins, `TakeSample` is `sample()`. `samples` and
  `since` are history that only the properties read. `GroupCovered` and
  `UncoveredAsList` are `covered()` and the list of open goals. What a transition means is
  stated independently, as a labelling of samples (`MatchEnds`). A chain is
  complete before it is sampled, and a cross is not crossed again.

`MC*` modules give the constants values. Definitions whose comment begins with
"Mutant" are wrong variants of the one that follows; each property is known to
fail for one of them.

The modules meet at their assumptions: `ListAssumption` of the variable
generators (each partition once) is `ExactlyOnce`; the separation in
`ProgramAssumption` of `VariableCoverage` is `Separated`; the place of a soft
constraint in a partition of `VariableDefaultSolver` stands for its priority
because of `DescendingIds`.

### How programs are assumed to use the library

`RandObj` leaves out three uses for objects that have children, a parent or
vectors, because the code then forgets constraints until the next
`request_rebuild()`: constraints declared after the constructor
(`LateAssumption`), `enable_multithreading()` (`RebuildAlone`), and enabling a
constraint through the generator instead of the object (`Standalone`). The tests
and examples declare constraints in constructors and use the other calls on
single objects.

## Runs

| run | module / cfg | checks |
|---|---|---|
| `partitioner` | `MCConstraintPartitioner` | four constraints in two managers with interleaved ids, every combination of 12 attributes: `Separated`, `ExactlyOnce`, `NotSplittable`, `DescendingIds`, `PartitionReturns` |
| `rand_obj` | `MCRandObj` | a chain of three objects with a constraint and a vector at its end, and a single object extended after its constructor and used through its generator: `UpToDate`, refinement of `RandObjAbstract` |
| `default_solver` | `MCVariableDefaultSolver` | every connected partition of up to four constraints of a pool of nine: answers right in both directions, soft constraints, BDD solvers, `SolveReturns` |
| `generators` | `MCGenerators` | three, two or no partitions, two settings, two settings files: refinement of `PartitionedSolve` in every interleaving, `SolversFresh`, `BackendChosen`, `SeedReported`, `CallsReturn` |
| `coverage` | `MCVariableCoverage` | `HitsReal`, `CoverageEnds`, `CoveredJustified` for four programs of two partitions |
| `vectors` | `MCVectorGenerator` | sizes 0 to 3, foreach with neighbours, unique, soft constraints, a constrained, a constrained non-member and an unconstrained vector, and lists in which an element stays one bit wide or in no formula: `VectorsValid`, `FailureJustified` |
| `covergroup` | `MCCovergroup` | `SimpleHits` and `CoveredExact`: up to two bins in two coverpoints and a cross, two samples; `TransitionHits`: pairs of node types with 1, 1 to 2 or 2 repetitions, overlapping conditions, chains of one and three nodes, five samples |
| `semantics` | `MCConstraintSemantics` | words of up to four bits (`TheoryExact`, `ValuesReadBack`), expressions over two operands of three types (`ConstraintsExact`, `ComplexityBounds`), foreach over up to three elements (`ForeachExact`), every set of contradictions among four constraints (`ConflictsExact`) |
| `solvers` | `MCSolver` | 12 back ends, three variables, an operation and two commands between calls of `solve()`: refinement of `AbstractSolver`, `FreshCountsDrawAll` |
| `rules` | `MCRuleGraph` | four rules with shared, nested and looping right-hand sides, two graphs executed or drawn, two bound objects: `GraphMeansGrammar`, `EveryPathCovers`, `RootEnds` |
| `rules_release` | `MCRuleGraph`, `MCRuleGraphRelease.cfg` | violated: see findings |
| `items` | `MCSequenceItem` | an item with an item inside, declared up to two times, lists of up to two expressions, four registered distributions, a copy, a type of three bits: `HierarchySound`, `BuiltIsCurrent`, `UserDistributionAlone`, `DrawsExact` |

Bounds. Four constraints over three variables are the smallest instance in which
a pass leaves a constraint behind that a later one connects, with a constraint
over for the next partition. A chain of three is the smallest tree in which a
change must pass over an object in between that has been randomized meanwhile.
The pool of constraints has for each kind one that conflicts with another of a
different kind, under one value of the read reference and under both. Three
threads give a failure before, between and after two successes. Vectors of up
to three elements have two ends and an inner element, and three elements are
the fewest that cannot all differ in one bit. Two nodes of at most two
repetitions are completed, interrupted and overlapped within five samples; two
samples are the fewest in which a value of the evaluator can be out of date.
Two words of different widths and signs meet every rule of extension; native
integers are three bits wide (`NativeBits`), so that words exceed them, and
complexities two bits (`ComplexityBits`), so that most fit and 2 + 2 or 2 * 2 wraps
to 0. Two
commands and an operation between two calls of `solve()` are enough for an
assertion or assumption to be held back, dropped or repeated by a back end. Two
executions of a graph are the fewest in which one can disturb the other. The
bounds are `maxSamples`, `maxBins`, `addUntil` (a bin starts with the first or the
second sample), `MaxOps`, `MaxCommands`, `MaxSettings`, `MaxRoots`, `MaxObjects`, `MaxList`,
`MaxDists`, `MaxCopies`, `MaxWidth`, `MaxIndex` and `MaxPredicates`; all other state spaces
are finite by themselves.

Deadlock is checked in all runs but those that stop: `vectors`, where `Abort` ends
the program, `rules`, which ends with a refused assignment or a loop, `semantics`,
where a behaviour is one case, and `covergroup`, `solvers` and `items`, which stop at
their bounds.

Fairness. `FairSpec` of `ConstraintPartitioner` and `VariableDefaultSolver` says
that a call that has begun goes on, which sequential code does; `RuleGraph` says
the same of `root()`, and takes from `CoverageEnds` that an object that is asked
again and again hits all of its cover constraints. `FairGeneratorSpec` says in
addition that the operating system schedules the threads; `GeneratorSpec`, of
which the theorems speak, assumes nothing of them. Nothing is assumed of
the user's calls.

### Findings

* `rules_release`: `Rule::gen()` calls `next_cov()` as the argument of an assert, and
  `RuleContext.hpp:53` evaluates an assignment inside of one. The default build
  type is Release, without assertions: then a path with a bound object is
  repeated for ever.

More deviations are in the models or next to them, and the passing runs are given
programs that do not meet them, as the tests of the repository are:

* soft constraints are accepted once, without the read references, and asserted
  for good; a later value of a reference can make `solve()` fail because of a
  soft constraint (`metaSMTNodeVisitorImpl.hpp:624`);
* `next_cov()` overwrites all variables with random values; a partition with
  nothing left to hit keeps them, against the comment that "the last solutions
  will be reused" (`VariableCoverageGenerator.cpp:47`);
* `readVector()` writes nothing if an element is in no formula (a foreach over
  neighbours in a vector of one element), and the answer is ignored: the vector
  keeps the size of an earlier call (`VectorGenerator.cpp:56`);
* unique without a foreach before it works on one-bit elements and fails for
  three or more of them (`VectorGenerator.cpp:75`, `ReplaceVisitor.cpp:345`);
* evaluating `inside()` leaves its temporary variable assigned, so that a bin made
  with it is hit only by the value sampled first (`EvalVisitor.cpp:179`);
* the evaluator never takes a `bitslice()` for known (`EvalVisitor.cpp:345`); a
  bin that uses it is never hit;
* a consecutive repetition that follows a nonconsecutive one keeps its count over
  an interruption (`CoverageBins.hpp:327`): with the chain 1[=1] => 0[*2] the samples
  1, 0, 2, 0 are a hit;
* the quotient of a signed and an unsigned number is a bit wider than
  `FixWidthVisitor` records (`metaSMTNodeVisitorImpl.hpp:496`);
* `BitBlast` and the bit-vector libraries differ for a division by 0 and for the
  remainder by a negative number (`BitBlast.hpp:1042`);
* with Yices2, `solve()` with an assumption throws once the assertions contradict one
  another (`Yices2.hpp:420`), where the other back ends answer false.
  `VariableDefaultSolver` does not come to it, since it looks for contradictions with a
  solver of its own and then refuses to solve (`VariableDefaultSolver.cpp:114`), unless
  `bypass_constraint_analysis` is set; `VariableCoverageSolver`
  (`VariableCoverageSolver.cpp:36`) and `VectorSolver` (`VectorGenerator.cpp:54`) assert
  without an analysis and may. The models of these three take the answer false, and so
  do not stand for Yices2 in this one situation;
* a complexity is computed in 32 bits and may wrap, even to 0, which stands for no
  estimate (`ComplexityEstimationVisitor.cpp:102`, `:112`), hence the premise of
  `ComplexityBounds`. It only decides whether a constraint is given to a BDD solver as
  well; `VariableDefaultSolver` leaves this open (`simple`), and its properties hold either way;
* ranges of a distribution that have the same left end are not taken to overlap
  (`WeightedRange.hpp:77`), and a range over all values of its type has the weight 0;
  hence the premise of the last part of `DrawsExact`;
* CUDD_Distributed counts solutions for the variables that there were when the
  formula was last changed (`CUDD_Distributed.hpp:49`): a variable created later
  makes the draws miss solutions, hence the premise of `FreshCountsDrawAll`;
* names of back ends are compared as they are, so that "z3", as the README of the
  repository writes it, is ignored (`metaSMTNodeVisitor.cpp:103`); a seed set
  after `init()` is not on record, hence the premise of `SeedReported`;
* `crosscheck_constraints()` drops a default distribution for good, for an inactive
  constraint of the user too (`SequenceItem.cpp:54`), and `goal()` before the first
  `randomize()` meets a null pointer (`SequenceItem.cpp:81`).

## Proofs

For every set of constraints, variables, objects and values, not only the small
ones of the runs. Each proof module extends its component and has an inductive
invariant `IInv` with `Init => IInv` and `IInv /\ [Next]_vars => IInv'`, one step
per action.

* `ConstraintPartitionerProofs`: `TypeOK`, the safety properties of the run, and
  `SupportExact` and `SingleMapExact`, which are not in the run. `Separated` is
  not inductive: one needs that a pass that has added nothing has left behind
  only constraints without a common variable (`PassInv`). `ExactlyOnce` needs
  that no constraint is in two of the lists (`Distinct`) and none is lost
  (`Accounted`). `GoodPartition` collects what `add()` keeps. Assumed: ids are
  numbers, a constraint has one manager (`OwnedAssumption`).
* `RandObjProofs`: type correctness, `UpToDate`, `ChangeIsAnnounced`, and that
  `RandObj` implements `RandObjAbstract`, for every tree. `UpToDate` is
  strengthened by the list that `resetCoverage()` rebuilds from (`AllInOrder`),
  by parents being constructed first (`ObjsClosed`), and needs
  `ChangeIsAnnounced` itself: the rebuild of `Generator::next()` is right only
  for objects without parts. Assumed: `ShapeAssumption`, `LateAssumption`.
* `VariableDefaultSolverProofs`: types, `SolutionValid`, `FailureJustified`,
  `BddSolversAnswer` and `SoftsBest`. The invariant follows the constructor:
  what is asserted at each place (`AssertInv`, `SoftsInv`, `ReadyInv`), that every
  variable of a hard or soft constraint has a terminal (`KnownInv`), that the
  assumptions are the present reads (`CallInv`). `GreedyIsBest` shows that taking
  soft constraints one by one gives the lexicographically best choice. Assumed:
  formulas depend on their support only, and metaSMT's `analyze_conflicts` reports
  minimal conflicts, and one at least if there is one. The same module proves that
  of the search itself (`ConflictsExact` of `ContradictionAnalysis`), for every finite
  set of constraints and every family of contradictions that is closed upwards. Both
  directions need what the frames of the recursion have in common: each agrees
  with what it may still use, and no constraint of its conflict can be spared, even
  against those it has yet to visit (`Fruitful`); the innermost call has something to
  visit or something was reported (`Found`); a constraint that the first answer left
  out is to be visited, being extended or reported (`Root`).
* `SolverProofs`: all back ends but one, over each SAT library, implement
  `AbstractSolver` (`KeepsPromise`), for any variables, operations, assertions and
  assumptions in any order, and any number of calls of `solve()`. The invariant
  says how the state of a back end stands for the sets of assignments asserted and
  possible (`StandsFor`). For clauses: every asserted assignment extends to a model
  of the clauses, although gates have added variables, and a model gives every
  literal handed out the meaning of its formula, the pending assumptions
  included (`Sound`); the buffer of Lingeling counts with the clauses. For Aiger:
  clauses are those of gates of the circuit, a gate marked as evaluated was handed
  over, and a cone needs no clause outside of it (`Handed`). For the SMT libraries:
  which of the two levels or of the held back assertions has what (`SmtOK`). Yices2 may
  throw instead of answering; the theorem says that it does so only if the assertions
  contradict one another and an assumption is pending, and that what was asserted
  and assumed is kept (`SmtRefusedOK`). For
  BDDs: a path of the diagram decides the variables it needs, whatever the others
  are (`BddOK`). Reading a variable that was never met gives X, which is harmless
  only because formulas say nothing about variables that were not met
  (`Supports`). `CUDD_Distributed` is left out, because the promise then rests on
  numbers of solutions in a machine word, and beyond its width need not hold.
* `GeneratorsProofs`: both variable generators, and changes from one to the other,
  implement `PartitionedSolve` (`PromiseKept`), and `SolversFresh`, `BackendChosen` and
  `SeedReported`, for any number of partitions, hence of threads, and any build. Two
  invariants: `GeneratorInv` says what each thread may have left behind at each
  point (`Creation`, `Solving`). `result_` is written without a lock, and the answer is
  right because a thread writes only false, and only after its solver failed. The
  shared `solver_type_` is written by several threads, and harmlessly so because it
  only ever holds the type asked for, nothing, or the one type that all of them
  select (`May`). `SessionInv` relates the settings file to the seed in use. Assumed:
  the build has a back end (`BuiltAssumption`), a settings file has a seed and a name
  of a back end (`FilesAssumption`), each partition is once in the list
  (`ListAssumption`, which is `ExactlyOnce`).
* `VariableCoverageProofs`: types, `HitsReal`, `CoverageEnds`, `CoveredJustified`.
  `HitsReal` needs that partitions do not share variables, so that a later solver of
  the same call cannot undo a hit in memory (`HitsKept`), and that a solver knows the
  variables of its hard constraints (`KnownMet`). `CoverageEnds` follows from a count:
  each call answered by a hit has noted a name that was not there
  (`AnswersCounted`). Assumed: `VarAssumption`, `ProgramAssumption` (formulas depend on
  their support, the partitions are `Separated`).
* `VectorGeneratorProofs`: types, `VectorsValid`, `FailureJustified`, for any number of
  vectors of any size. A vector that was dealt with must remain valid while the
  others are solved (`DoneValid`), although each element gets its width on the way
  (`DoneWide`). Both properties are about vectors of which some foreach names every
  element (`Named`): for others `readVector()` may write nothing (see above). Assumed:
  a one-bit value is a value (`NarrowAssumption`), sizes are numbers, and subscripts
  and ranges of constraints are well-formed (`ListsAssumption`).
* `SequenceItemProofs`: `HierarchySound`, `BuiltIsCurrent`, `UserDistributionAlone` and
  `DrawsExact`, for all classes, trees of any depth and any number of
  objects and distributions. Destruction takes whole branches with it because the
  objects around an object are alive and form a chain (`Around`). That no generator
  meets one name twice is not inductive: members with the same declared name get
  numbers below the parent's counter (`Counted`), so siblings have different names
  (`NamesApart`), so full names differ within each object declared outside of
  constructors (`FullApart`), though not between two of them. `BuiltIsCurrent` needs
  that what is under construction, hence any object with new members, was never
  randomized (`Constructing`). `UserDistributionAlone` needs that no two constraints
  share an auxiliary variable (`Numbers`): only then are the default distribution and
  another one two entries of `dist_ref_to_var_map_`, which
  `crosscheck_constraints()` counts. `DrawsExact` is inductive by itself; the work is in the
  distributions: the accumulated weights are the ends of adjacent intervals
  (`AccumGrows`), and the numbers that select a range are exactly its interval
  (`DrawnByWeight`). Assumed: classes and lists are well-formed
  (`DeclaredAssumption`, `TextsAssumption`, `ClassAssumption`), constructors do not throw
  for overlapping ranges and the weights of one distribution add up to less than
  2^64 (`DistributionsAssumption`; beyond that `accumWeight_` wraps and the draws are
  wrong), and, in `ClassAssumption`, no member is declared under a name that ends in
  a number. That is a limit of the library: beside two members `con`, the second of
  which it names `con1`, a member declared as `con1` clashes, and `randomize()` would
  throw.

Only model-checked: liveness (`PartitionReturns`, `SolveReturns`, `CallsReturn`,
`RootEnds`), which is out of the prover's reach; what rests on recursive operators
over trees, bits and paths (`semantics` but for `ConflictsExact`, `rules`,
`covergroup`), which would need induction over data; and `CUDD_Distributed` in
`solvers`, with `FreshCountsDrawAll`, which would need it for the counts. The
accumulated weights and the paths of a BDD could be proved about all the same: the
recursion is over numbers, the model has a recursive function or a set of
numbers, and the proof takes the smallest one for which a statement fails.

## Not modelled

* Graphviz output of constraints, logging, `report()` and `RandObjGenerator`, which
  prints classes for benchmarks: pure output.
* SystemC: type traits have no state; the random generators per process are
  objects of a kernel that is not in the repository.
* The XML of the settings file, of which only keys and values are modelled.
* Arrays, uninterpreted functions, and the expression and graph contexts of
  metaSMT, which CRAVE does not use; the solver libraries (external).
* Copying of `rand_obj`, scalars in vector constraints, vectors and arrays of
  objects in the experimental API, exceptions of the evaluator for vectors.
* The ubus example, which stands on UVM for SystemC, and vendored headers.

## Plan

Done: the core from constraints to values, the back ends, the semantics of
expressions, settings, functional coverage, items and the rule graph. Left:

1. Unrestricted use of `RandObj` (late constraints in composed objects).
2. Scalars in vector constraints.
