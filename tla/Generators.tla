----------------------------- MODULE Generators -----------------------------
(***************************************************************************)
(* The variable generator of a Generator through its life: sequential      *)
(* until enable_multithreading() deletes it and makes a multithreaded one, *)
(* which builds solvers of its own for the partitions found then.  Every   *)
(* solver asks the factory for a back end, which the program's settings    *)
(* select; settings change between the calls of the generator.             *)
(***************************************************************************)
EXTENDS VariableGeneratorMT, Session

VARIABLES
    multithreaded,   \* the class of *var_gen_
    asked            \* solver_type_ when the last reset() began (history)

Sequential == INSTANCE VariableGenerator WITH k <- next

threadVars == <<result_, thread>>
sessionVars == <<factoryVars, settingVars, multithreaded, asked>>
generatorVars == <<vars, sessionVars>>

GeneratorInit ==
    /\ Init /\ FactoryInit /\ SessionInit
    /\ multithreaded = FALSE
    /\ asked = "UNDEFINED"

(* Every thread of reset() calls the factory.                              *)
AskFactory(n) ==
    /\ call' = [j \in 1..n |-> Entered]
    /\ asked' = solver_type_
    /\ UNCHANGED <<solver_type_, settingVars>>

(* enable_multithreading(): a new generator, whose result_ is not          *)
(* initialized, is reset with the present partitions.                      *)
EnableMultithreading(ps) ==
    /\ pc = "idle"
    /\ multithreaded' = TRUE
    /\ partitions' = ps
    /\ solvers_' = [j \in 1..Len(ps) |-> NoSolver]
    /\ result_' \in BOOLEAN
    /\ thread' = NoThreads(Len(ps))
    /\ outcome' = [j \in 1..Len(ps) |-> "none"]
    /\ next' = 1 /\ pc' = "create" /\ ret' = "none"
    /\ AskFactory(Len(ps))

(* The solvers are made one after the other: the first one settles the     *)
(* type for all.                                                           *)
SequentialReset(ps) ==
    /\ ~ multithreaded /\ Sequential!Reset(ps)
    /\ call' = [j \in 1..Len(ps) |-> Made(Selected(solver_type_))]
    /\ solver_type_' = IF ps = <<>> THEN solver_type_ ELSE Selected(solver_type_)
    /\ asked' = solver_type_
    /\ UNCHANGED <<threadVars, multithreaded, settingVars>>

SequentialStep ==
    /\ ~ multithreaded
    /\ \/ Sequential!BeginSolve
       \/ Sequential!SolverSucceeds
       \/ Sequential!SolverFails
       \/ Sequential!Return
    /\ UNCHANGED <<threadVars, sessionVars>>

ThreadedReset(ps) ==
    multithreaded /\ BeginReset(ps) /\ AskFactory(Len(ps)) /\ UNCHANGED multithreaded

ThreadedSolve == multithreaded /\ BeginSolve /\ UNCHANGED sessionVars

ThreadedMainStep == multithreaded /\ MainStep /\ UNCHANGED sessionVars

(* A thread that creates a solver first goes through the factory.          *)
ThreadMakes(j) ==
    /\ thread[j] = "create" /\ FactoryStep(j)
    /\ UNCHANGED <<vars, settingVars, multithreaded, asked>>

ThreadWorks(j) ==
    /\ thread[j] = "create" => call[j].at = "made"
    /\ ThreadStep(j)
    /\ UNCHANGED sessionVars

AnyThreadStep == multithreaded /\ \E j \in Index : ThreadMakes(j) \/ ThreadWorks(j)

(* The main thread changes settings when no call of the generator runs.    *)
ChangeSettings == pc = "idle" /\ SettingStep /\ UNCHANGED <<vars, multithreaded, asked>>

GeneratorNext ==
    \/ \E ps \in PartitionList : EnableMultithreading(ps)
    \/ \E ps \in PartitionList : SequentialReset(ps)
    \/ SequentialStep
    \/ \E ps \in PartitionList : ThreadedReset(ps)
    \/ ThreadedSolve
    \/ ThreadedMainStep
    \/ AnyThreadStep
    \/ ChangeSettings

GeneratorSpec == GeneratorInit /\ [][GeneratorNext]_generatorVars

(* A call that has begun goes on, and the system schedules every thread.   *)
FairGeneratorSpec ==
    /\ GeneratorSpec
    /\ WF_generatorVars(SequentialStep /\ pc # "idle")
    /\ WF_generatorVars(ThreadedMainStep)
    /\ WF_generatorVars(AnyThreadStep)

-----------------------------------------------------------------------------
AsSet(s) == {s[j] : j \in 1..Len(s)}

Promise == INSTANCE PartitionedSolve WITH
    Builds <- {AsSet(ps) : ps \in PartitionList},
    partitions <- AsSet(partitions),
    solved <- Answered("true"),
    failed <- Answered("false"),
    busy <- pc \in {"solve", "join", "failed"}

(* Both generators keep the promise of PartitionedSolve: although result_  *)
(* is shared between threads without a lock, the answer is true exactly if *)
(* every partition of the last reset() has been solved in this call, and   *)
(* no solver of an earlier reset(), or of the generator that               *)
(* enable_multithreading() replaced, is asked or works on afterwards.      *)
KeepsPromise == Promise!Spec

(* While solve() runs, and between the calls, every solver belongs to the  *)
(* partition of the same index of the last reset(): no thread of reset()   *)
(* is late, and neither resize() nor the change of the generator leaves a  *)
(* solver of former partitions behind.                                     *)
SolversFresh == pc # "create" => solvers_ = partitions

(* All solvers of a reset() have the same back end, the one that was       *)
(* selected then if the build has it and else the first one it has: the    *)
(* threads that write solver_type_ without a lock neither hand out a back  *)
(* end that is missing nor leave a mixture behind.                         *)
BackendChosen ==
    pc # "create" => \A j \in Index : call[j] = Made(Selected(asked))

(* reset() and solve() return: the main thread never waits for a thread    *)
(* that was not started or does not end.                                   *)
CallsReturn == pc # "idle" ~> pc = "idle"
=============================================================================
