-------------------------- MODULE GeneratorsProofs --------------------------
(***************************************************************************)
(* Proofs about Generators, for any number of partitions, and so of        *)
(* threads, any build of metaSMT and any settings of the program.          *)
(***************************************************************************)
EXTENDS Generators, SequenceTheorems, TLAPS

(***************************************************************************)
(* The inductive invariant.                                                *)
(***************************************************************************)
TypeOrNone == SolverType \union {"UNDEFINED"}

Types ==
    /\ partitions \in PartitionList \union {<<>>}
    /\ solvers_ \in Seq(Partition \union {NoSolver})
    /\ Len(solvers_) = Len(partitions)
    /\ result_ \in BOOLEAN
    /\ next \in Nat
    /\ multithreaded \in BOOLEAN
    /\ multithreaded =>
          /\ thread \in [Index -> {"none", "create", "start", "solve", "write", "done"}]
          /\ outcome \in [Index -> {"none", "true", "false"}]
          /\ pc \in {"idle", "create", "solve", "join"}
    /\ ~ multithreaded =>
          /\ outcome \in Seq({"true", "false"})
          /\ pc \in {"idle", "solve", "failed"}
    /\ solver_type_ \in TypeOrNone
    /\ asked \in TypeOrNone
    /\ call \in [Index -> [at : {"enter", "switch", "made"}, type : TypeOrNone]]

(* What the static member of the factory can be while the threads of a     *)
(* reset() read and write it: the type asked for if the build has it, and  *)
(* otherwise also nothing or the type that is going to be selected.        *)
May(type) ==
    IF IsDefined(asked) THEN type = asked ELSE type \in {asked, "UNDEFINED", FirstDefined}

(* reset() with threads: what a thread that is done has left behind.       *)
Creation ==
    pc = "create" =>
        /\ multithreaded
        /\ May(solver_type_)
        /\ \A j \in Index :
              /\ thread[j] \in {"none", "create", "done"}
              /\ thread[j] = "none" => j >= next
              /\ thread[j] = "done" => solvers_[j] = partitions[j] /\ call[j].at = "made"
              /\ outcome[j] = "none"
              /\ call[j].at = "switch" => May(call[j].type)
              /\ call[j].at = "made" => call[j] = Made(Selected(asked))

(* solve() with threads: result_ is false only if some solver has failed,  *)
(* and a thread that ends without success leaves result_ false.            *)
Solving ==
    multithreaded /\ pc \in {"solve", "join"} =>
        /\ \A j \in Index :
              /\ thread[j] # "create"
              /\ thread[j] = "none" <=> j >= next
              /\ thread[j] \in {"none", "start", "solve"} => outcome[j] = "none"
              /\ thread[j] = "write" => outcome[j] = "false"
              /\ thread[j] = "done" => outcome[j] = "true" \/ ~ result_
        /\ ~ result_ => \E j \in Index : outcome[j] = "false"
        /\ pc = "join" /\ result_ => next \notin Index
        /\ next >= 1

(* Between the calls no thread is left.                                    *)
Joined == multithreaded /\ pc = "idle" => Finished

(* solve() without threads: the answers come in the order of the solvers.  *)
InTurn ==
    ~ multithreaded =>
        /\ Len(outcome) <= Len(solvers_)
        /\ pc = "solve" => /\ next = Len(outcome) + 1
                           /\ \A j \in 1..Len(outcome) : outcome[j] = "true"
        /\ pc = "failed" => \E j \in 1..Len(outcome) : outcome[j] = "false"

GeneratorInv == Types /\ Creation /\ Solving /\ Joined /\ InTurn /\ SolversFresh /\ BackendChosen

(* The settings: a file keeps its sections, and the seed that is reported  *)
(* is that of the generator.                                               *)
SessionInv ==
    /\ files = [name \in ConfigName |-> files[name]]
    /\ \A name \in ConfigName :
          files[name] = [crave |-> files[name].crave, logger |-> files[name].logger]
    /\ config_file_name \in ConfigName
    /\ reported # Missing => reported \in ConfigName
    /\ seed_ = default_rng_
    /\ SeedReported

(***************************************************************************)
(* Facts about the constants and the operators.                            *)
(***************************************************************************)

(* A vector that is given by its elements.                                 *)
LEMMA VectorOf ==
    ASSUME NEW S, NEW n \in Nat, NEW f \in [1..n -> S]
    PROVE  f \in Seq(S) /\ Len(f) = n
  OBVIOUS

(* Each partition is handed over once.                                     *)
LEMMA ListFacts ==
    ASSUME NEW ps \in PartitionList \union {<<>>}
    PROVE  /\ ps \in Seq(Partition)
           /\ Len(ps) \in Nat
           /\ \A j, l \in 1..Len(ps) : ps[j] = ps[l] => j = l
  <1>1. CASE ps = <<>>
    BY <1>1
  <1>2. CASE ps \in PartitionList
    BY <1>2, ListAssumption
  <1> QED BY <1>1, <1>2

LEMMA TypesAreNames ==
    /\ DOMAIN SolverTypes = 1..7
    /\ Len(SolverTypes) = 7
    /\ "UNDEFINED" \notin SolverType
  BY DEF SolverTypes, SolverType

(* The factory finds a back end, whatever the build has.                   *)
LEMMA FirstIsDefined == FirstDefined \in Built
  <1> DEFINE P(n) == /\ IsDefined(SolverTypes[n])
                     /\ \A m \in 1..(n - 1) : ~ IsDefined(SolverTypes[m])
  <1>1. \E n \in 1..7 : IsDefined(SolverTypes[n])
    BY BuiltAssumption, TypesAreNames DEF SolverType, IsDefined
  <1>2. \E n \in 1..7 : P(n)
    BY <1>1
  <1>3. P(CHOOSE n \in 1..7 : P(n))
    BY <1>2
  <1> QED BY <1>3, TypesAreNames DEF FirstDefined, IsDefined

LEMMA FactoryTypes ==
    /\ FirstDefined \in SolverType
    /\ ~ IsDefined("UNDEFINED")
    /\ \A type \in TypeOrNone : Selected(type) \in SolverType /\ IsDefined(Selected(type))
  BY FirstIsDefined, BuiltAssumption, TypesAreNames DEF IsDefined, Selected, TypeOrNone

(***************************************************************************)
(* Every step keeps the invariant.                                         *)
(***************************************************************************)
LEMMA InitInv == GeneratorInit => GeneratorInv
  <1> SUFFICES ASSUME GeneratorInit PROVE GeneratorInv
    OBVIOUS
  <1> USE DEF GeneratorInit, Init, FactoryInit
  <1>1. Types
    <2>1. Index = {} /\ Len(solvers_) = 0
      BY DEF Index
    <2>2. call \in [Index -> [at : {"enter", "switch", "made"}, type : TypeOrNone]]
      BY <2>1
    <2>3. solvers_ \in Seq(Partition \union {NoSolver}) /\ outcome \in Seq({"true", "false"})
      OBVIOUS
    <2> QED BY <2>1, <2>2, <2>3 DEF Types, TypeOrNone
  <1>2. Creation /\ Solving /\ Joined /\ InTurn
    BY DEF Creation, Solving, Joined, InTurn
  <1>3. SolversFresh /\ BackendChosen
    BY DEF SolversFresh, BackendChosen, Index
  <1> QED BY <1>1, <1>2, <1>3 DEF GeneratorInv

LEMMA SessionInvInit == SessionInit => SessionInv
  BY FilesAssumption DEF SessionInit, SessionInv, SeedReported

(* A reset() with threads begins: of this or of a new generator.           *)
LEMMA BeginCreation ==
    ASSUME GeneratorInv, NEW ps \in PartitionList, pc = "idle",
           multithreaded', partitions' = ps,
           solvers_' \in [1..Len(ps) -> Partition \union {NoSolver}],
           result_' \in BOOLEAN,
           thread' = NoThreads(Len(ps)),
           outcome' = [j \in 1..Len(ps) |-> "none"],
           next' = 1, pc' = "create", AskFactory(Len(ps)),
           multithreaded' \in BOOLEAN
    PROVE  GeneratorInv'
  <1>1. ps \in Seq(Partition) /\ Len(ps) \in Nat
    BY ListFacts
  <1>2. solvers_' \in Seq(Partition \union {NoSolver}) /\ Len(solvers_') = Len(ps)
    BY <1>1, VectorOf
  <1>3. Index' = 1..Len(ps)
    BY <1>2 DEF Index
  <1>4. Types'
    BY <1>1, <1>2, <1>3 DEF GeneratorInv, Types, NoThreads, AskFactory, Entered, TypeOrNone
  <1>5. Creation'
    BY <1>3 DEF GeneratorInv, Types, Creation, NoThreads, AskFactory, Entered, May
  <1>6. Solving' /\ Joined' /\ InTurn' /\ SolversFresh' /\ BackendChosen'
    BY DEF Solving, Joined, InTurn, SolversFresh, BackendChosen
  <1> QED BY <1>4, <1>5, <1>6 DEF GeneratorInv

LEMMA EnableInv ==
    ASSUME GeneratorInv, NEW ps \in PartitionList, EnableMultithreading(ps)
    PROVE  GeneratorInv'
  <1>1. ps \in Seq(Partition) /\ Len(ps) \in Nat
    BY ListFacts
  <1>2. solvers_' \in [1..Len(ps) -> Partition \union {NoSolver}]
    BY <1>1 DEF EnableMultithreading
  <1> QED BY <1>2, BeginCreation DEF EnableMultithreading

LEMMA ThreadedResetInv ==
    ASSUME GeneratorInv, NEW ps \in PartitionList, ThreadedReset(ps)
    PROVE  GeneratorInv'
  <1>1. ps \in Seq(Partition) /\ Len(ps) \in Nat
    BY ListFacts
  <1>2. solvers_' \in [1..Len(ps) -> Partition \union {NoSolver}]
    BY <1>1 DEF ThreadedReset, BeginReset, GeneratorInv, Types
  <1> QED BY <1>2, BeginCreation DEF ThreadedReset, BeginReset, GeneratorInv, Types

LEMMA SequentialResetInv ==
    ASSUME GeneratorInv, NEW ps \in PartitionList, SequentialReset(ps)
    PROVE  GeneratorInv'
  <1> USE DEF SequentialReset, Sequential!Reset
  <1>1. ps \in Seq(Partition) /\ Len(ps) \in Nat
    BY ListFacts
  <1>2. Index' = 1..Len(ps)
    BY DEF Index
  <1>3. solver_type_ \in TypeOrNone /\ Selected(solver_type_) \in SolverType
    BY FactoryTypes DEF GeneratorInv, Types
  <1>4. Types'
    <2>1. call' \in [Index' -> [at : {"enter", "switch", "made"}, type : TypeOrNone]]
      BY <1>2, <1>3 DEF Made, TypeOrNone
    <2>2. /\ solvers_' \in Seq(Partition \union {NoSolver}) /\ Len(solvers_') = Len(partitions')
          /\ outcome' \in Seq({"true", "false"}) /\ next' \in Nat
      BY <1>1
    <2>3. solver_type_' \in TypeOrNone /\ asked' \in TypeOrNone
      BY <1>3 DEF TypeOrNone
    <2>4. /\ partitions' \in PartitionList /\ result_' \in BOOLEAN
          /\ ~ multithreaded' /\ multithreaded' \in BOOLEAN /\ pc' = "idle"
      BY DEF GeneratorInv, Types, threadVars
    <2> QED BY ONLY <2>1, <2>2, <2>3, <2>4 DEF Types
  <1>5. BackendChosen'
    BY <1>2 DEF BackendChosen
  <1>6. InTurn'
    BY <1>1 DEF InTurn, GeneratorInv, Types
  <1>7. Creation' /\ Solving' /\ Joined' /\ SolversFresh'
    BY DEF Creation, Solving, Joined, SolversFresh, GeneratorInv, Types
  <1> QED BY <1>4, <1>5, <1>6, <1>7 DEF GeneratorInv

LEMMA SequentialStepInv ==
    ASSUME GeneratorInv, SequentialStep
    PROVE  GeneratorInv'
  <1> USE DEF SequentialStep, sessionVars, factoryVars, settingVars, threadVars
  <1>1. /\ ~ multithreaded /\ UNCHANGED <<partitions, solvers_, result_, thread, solver_type_,
                                          call, asked, multithreaded>>
    BY DEF Sequential!BeginSolve, Sequential!SolverSucceeds, Sequential!SolverFails,
           Sequential!Return
  <1>2. /\ outcome \in Seq({"true", "false"}) /\ Len(outcome) \in Nat
        /\ Len(solvers_) \in Nat /\ next \in Nat
    BY <1>1 DEF GeneratorInv, Types
  <1>3. Types' /\ InTurn'
    <2>1. CASE Sequential!BeginSolve
      BY <1>1, <1>2, <2>1 DEF Sequential!BeginSolve, GeneratorInv, Types, InTurn, Index
    <2>2. CASE Sequential!SolverSucceeds
      <3>1. /\ outcome' \in Seq({"true", "false"}) /\ Len(outcome') = Len(outcome) + 1
            /\ \A j \in 1..Len(outcome') :
                  outcome'[j] = IF j = Len(outcome) + 1 THEN "true" ELSE outcome[j]
        BY <1>2, <2>2, AppendProperties DEF Sequential!SolverSucceeds
      <3> QED BY <1>1, <1>2, <2>2, <3>1
              DEF Sequential!SolverSucceeds, GeneratorInv, Types, InTurn, Index
    <2>3. CASE Sequential!SolverFails
      <3>1. /\ outcome' \in Seq({"true", "false"}) /\ Len(outcome') = Len(outcome) + 1
            /\ outcome'[Len(outcome) + 1] = "false"
        BY <1>2, <2>3, AppendProperties DEF Sequential!SolverFails
      <3> QED BY <1>1, <1>2, <2>3, <3>1
              DEF Sequential!SolverFails, GeneratorInv, Types, InTurn, Index
    <2>4. CASE Sequential!Return
      BY <1>1, <1>2, <2>4 DEF Sequential!Return, GeneratorInv, Types, InTurn, Index
    <2> QED BY <2>1, <2>2, <2>3, <2>4
  <1>4. pc # "create" /\ pc' # "create"
    BY <1>1, <1>3 DEF GeneratorInv, Types
  <1>5. Creation' /\ Solving' /\ Joined' /\ SolversFresh' /\ BackendChosen'
    BY <1>1, <1>4 DEF Creation, Solving, Joined, SolversFresh, BackendChosen, GeneratorInv, Index
  <1> QED BY <1>3, <1>5 DEF GeneratorInv

LEMMA ThreadedSolveInv ==
    ASSUME GeneratorInv, ThreadedSolve
    PROVE  GeneratorInv'
  <1> USE DEF ThreadedSolve, BeginSolve, sessionVars, factoryVars, settingVars
  <1>1. Index' = Index /\ Index = 1..Len(solvers_) /\ Len(solvers_) \in Nat
    BY DEF Index, GeneratorInv, Types
  <1>2. Types'
    BY <1>1 DEF GeneratorInv, Types, NoThreads, TypeOrNone
  <1>3. Solving'
    BY <1>1 DEF Solving, NoThreads
  <1>4. Creation' /\ Joined' /\ InTurn' /\ SolversFresh' /\ BackendChosen'
    BY <1>1 DEF Creation, Joined, InTurn, SolversFresh, BackendChosen, GeneratorInv
  <1> QED BY <1>2, <1>3, <1>4 DEF GeneratorInv

LEMMA MainStepInv ==
    ASSUME GeneratorInv, ThreadedMainStep
    PROVE  GeneratorInv'
  <1> USE DEF ThreadedMainStep, sessionVars, factoryVars, settingVars
  <1>1. /\ multithreaded
        /\ UNCHANGED <<partitions, solvers_, result_, outcome, multithreaded, solver_type_, call,
                       asked>>
    BY DEF MainStep, StartCreation, JoinCreation, StartSolver, EndOfLoop, JoinSolvers
  <1>2. Index' = Index /\ Index = 1..Len(solvers_) /\ Len(solvers_) \in Nat /\ next \in Nat
    BY <1>1 DEF Index, GeneratorInv, Types
  <1>3. Types'
    BY <1>1, <1>2 DEF MainStep, StartCreation, JoinCreation, StartSolver, EndOfLoop,
                      JoinSolvers, GeneratorInv, Types
  <1>4. InTurn'
    BY <1>1 DEF InTurn
  <1>5. Creation' /\ Solving' /\ Joined' /\ SolversFresh' /\ BackendChosen'
    <2>1. CASE StartCreation
      BY <1>1, <1>2, <2>1 DEF StartCreation, GeneratorInv, Types, Creation, Solving, Joined,
                              SolversFresh, BackendChosen, May
    <2>2. CASE JoinCreation
      <3>1. \A j \in Index : thread[j] = "done"
        BY <1>2, <2>2 DEF JoinCreation, Finished, GeneratorInv, Creation
      <3>2. \A j \in Index : solvers_[j] = partitions[j] /\ call[j] = Made(Selected(asked))
        BY <2>2, <3>1 DEF JoinCreation, GeneratorInv, Creation
      <3>3. solvers_ = partitions
        <4>1. /\ partitions \in Seq(Partition)
              /\ solvers_ \in Seq(Partition \union {NoSolver})
              /\ Len(solvers_) = Len(partitions)
          BY ListFacts DEF GeneratorInv, Types
        <4> QED BY <1>2, <3>2, <4>1
      <3> QED BY <1>1, <1>2, <2>2, <3>2, <3>3
              DEF JoinCreation, Finished, Creation, Solving, Joined, SolversFresh, BackendChosen
    <2>3. CASE StartSolver
      <3>1. Solving'
        BY <1>1, <1>2, <2>3 DEF StartSolver, GeneratorInv, Types, Solving
      <3> QED BY <1>1, <1>2, <2>3, <3>1 DEF StartSolver, GeneratorInv, Creation, Joined,
                                            SolversFresh, BackendChosen
    <2>4. CASE EndOfLoop
      <3>1. Solving'
        BY <1>1, <1>2, <2>4 DEF EndOfLoop, GeneratorInv, Types, Solving
      <3> QED BY <1>1, <1>2, <2>4, <3>1 DEF EndOfLoop, GeneratorInv, Creation, Joined,
                                            SolversFresh, BackendChosen
    <2>5. CASE JoinSolvers
      BY <1>1, <1>2, <2>5 DEF JoinSolvers, Finished, GeneratorInv, Types, Creation, Solving,
                              Joined, SolversFresh, BackendChosen
    <2> QED BY <2>1, <2>2, <2>3, <2>4, <2>5 DEF MainStep
  <1> QED BY <1>3, <1>4, <1>5 DEF GeneratorInv

(* The threads in the factory.                                             *)
LEMMA ThreadMakesInv ==
    ASSUME GeneratorInv, multithreaded, NEW j \in Index, ThreadMakes(j)
    PROVE  GeneratorInv'
  <1> USE DEF ThreadMakes, vars, settingVars
  <1>1. Index' = Index /\ pc' = pc /\ asked' = asked /\ thread[j] = "create"
    BY DEF Index
  <1>2. pc = "create"
    BY <1>1 DEF GeneratorInv, Types, Creation, Solving, Joined, Finished
  <1>3. call[j] \in [at : {"enter", "switch", "made"}, type : TypeOrNone]
    BY DEF GeneratorInv, Types
  <1>4. /\ solver_type_' \in TypeOrNone
        /\ call' \in [Index -> [at : {"enter", "switch", "made"}, type : TypeOrNone]]
    BY <1>3, FactoryTypes DEF FactoryStep, ReadType, GetSolver, Undefine, AutoSelect, Entered,
       Made, GeneratorInv, Types, TypeOrNone
  <1>5. Types'
    BY <1>1, <1>4 DEF GeneratorInv, Types
  <1>6. /\ May(solver_type_)
        /\ call[j].at = "switch" => May(call[j].type)
    BY <1>2 DEF GeneratorInv, Creation
  <1>7. /\ May(solver_type_')
        /\ call'[j].at = "switch" => May(call'[j].type)
        /\ call'[j].at = "made" => call'[j] = Made(Selected(asked))
        /\ \A l \in Index \ {j} : call'[l] = call[l]
        /\ call[j].at # "made"
    <2>1. CASE ReadType(j)
      BY <1>4, <1>6, <2>1 DEF ReadType, GeneratorInv, Types
    <2>2. CASE GetSolver(j)
      BY <1>4, <1>6, <2>2, FactoryTypes
         DEF GetSolver, GeneratorInv, Types, May, Selected, IsDefined, Made
    <2>3. CASE Undefine(j)
      BY <1>4, <1>6, <2>3, FactoryTypes DEF Undefine, GeneratorInv, Types, May, Entered
    <2>4. CASE AutoSelect(j)
      BY <1>4, <1>6, <2>4, FactoryTypes DEF AutoSelect, GeneratorInv, Types, May, Entered
    <2> QED BY <2>1, <2>2, <2>3, <2>4 DEF FactoryStep
  <1>8. Creation'
    BY <1>1, <1>2, <1>7 DEF GeneratorInv, Creation, May, Selected
  <1>9. Solving' /\ Joined' /\ InTurn' /\ SolversFresh' /\ BackendChosen'
    BY <1>1, <1>2 DEF Solving, Joined, InTurn, SolversFresh, BackendChosen
  <1> QED BY <1>5, <1>8, <1>9 DEF GeneratorInv

(* The threads that create solvers and those that solve.                   *)
LEMMA ThreadWorksInv ==
    ASSUME GeneratorInv, multithreaded, NEW j \in Index, ThreadWorks(j)
    PROVE  GeneratorInv'
  <1> USE DEF ThreadWorks, sessionVars, factoryVars, settingVars
  <1>1. /\ UNCHANGED <<partitions, next, pc, multithreaded, solver_type_, call, asked>>
        /\ thread[j] \in {"create", "start", "solve", "write"}
    BY DEF ThreadStep, CreateNewSolver, ReadResult, SolverSucceeds, SolverFails, WriteResult
  <1>2. CASE CreateNewSolver(j)
    <2>1. pc = "create"
      BY <1>2 DEF CreateNewSolver, GeneratorInv, Types, Creation, Solving, Joined, Finished
    <2>2. /\ solvers_ \in Seq(Partition \union {NoSolver}) /\ Len(solvers_) \in Nat
          /\ Index = 1..Len(solvers_) /\ partitions \in Seq(Partition)
          /\ Len(partitions) = Len(solvers_)
      BY ListFacts DEF GeneratorInv, Types, Index
    <2>3. solvers_' \in Seq(Partition \union {NoSolver}) /\ Len(solvers_') = Len(solvers_)
      BY <1>2, <2>2 DEF CreateNewSolver
    <2>4. Index' = Index
      BY <2>3 DEF Index
    <2>5. Types'
      BY <1>1, <1>2, <2>3, <2>4 DEF CreateNewSolver, GeneratorInv, Types
    <2>6. Creation'
      BY <1>1, <1>2, <2>1, <2>2, <2>4 DEF CreateNewSolver, GeneratorInv, Types, Creation, May
    <2> QED BY <1>1, <2>1, <2>5, <2>6
            DEF GeneratorInv, Solving, Joined, InTurn, SolversFresh, BackendChosen
  <1>3. CASE ReadResult(j) \/ SolverSucceeds(j) \/ SolverFails(j) \/ WriteResult(j)
    <2>1. thread[j] \in {"start", "solve", "write"} /\ UNCHANGED solvers_
      BY <1>3 DEF ReadResult, SolverSucceeds, SolverFails, WriteResult
    <2>2. pc \in {"solve", "join"}
      BY <2>1 DEF GeneratorInv, Types, Creation, Joined, Finished
    <2>3. Index' = Index
      BY <2>1 DEF Index
    <2>4. Types'
      <3>1. /\ thread' \in [Index -> {"none", "create", "start", "solve", "write", "done"}]
            /\ outcome' \in [Index -> {"none", "true", "false"}]
            /\ result_' \in BOOLEAN
        BY <1>3 DEF ReadResult, SolverSucceeds, SolverFails, WriteResult, GeneratorInv, Types
      <3> QED BY <1>1, <2>1, <2>3, <3>1 DEF GeneratorInv, Types
    <2>5. Solving'
      <3>1. CASE ReadResult(j)
        BY <1>1, <2>2, <2>3, <3>1 DEF ReadResult, GeneratorInv, Types, Solving
      <3>2. CASE SolverSucceeds(j)
        BY <1>1, <2>2, <2>3, <3>2 DEF SolverSucceeds, GeneratorInv, Types, Solving
      <3>3. CASE SolverFails(j)
        BY <1>1, <2>2, <2>3, <3>3 DEF SolverFails, GeneratorInv, Types, Solving
      <3>4. CASE WriteResult(j)
        BY <1>1, <2>2, <2>3, <3>4 DEF WriteResult, GeneratorInv, Types, Solving
      <3> QED BY <1>3, <3>1, <3>2, <3>3, <3>4
    <2> QED BY <1>1, <2>1, <2>2, <2>3, <2>4, <2>5
            DEF GeneratorInv, Creation, Joined, InTurn, SolversFresh, BackendChosen
  <1> QED BY <1>2, <1>3 DEF ThreadStep

(* The settings change only between the calls.                             *)
LEMMA ChangeSettingsInv ==
    ASSUME GeneratorInv, ChangeSettings
    PROVE  GeneratorInv'
  <1> USE DEF ChangeSettings, vars
  <1>1. UNCHANGED call /\ solver_type_' \in TypeOrNone
    <2>1. solver_type_ \in TypeOrNone
      BY DEF GeneratorInv, Types
    <2>2. \A name : SetSolverType(name) \in TypeOrNone
      <3>1. \A name \in DOMAIN TypeNamed : TypeNamed[name] \in SolverType
        BY DEF TypeNamed, SolverType, SolverTypes
      <3> QED BY <2>1, <3>1 DEF SetSolverType, TypeOrNone
    <2> QED BY <2>1, <2>2 DEF SettingStep, SetGlobalSeed, SetSolverBackend, InitCrave,
                              SetConfigFileName, InitAgain, factoryVars
  <1>2. Index' = Index
    BY DEF Index
  <1>3. Types'
    BY <1>1, <1>2 DEF GeneratorInv, Types
  <1>4. Creation' /\ Solving' /\ Joined' /\ InTurn' /\ SolversFresh' /\ BackendChosen'
    BY <1>1, <1>2 DEF GeneratorInv, Creation, Solving, Joined, Finished, InTurn, SolversFresh,
                      BackendChosen
  <1> QED BY <1>3, <1>4 DEF GeneratorInv

LEMMA GeneratorStep == GeneratorInv /\ [GeneratorNext]_generatorVars => GeneratorInv'
  <1> SUFFICES ASSUME GeneratorInv, [GeneratorNext]_generatorVars PROVE GeneratorInv'
    OBVIOUS
  <1>1. CASE UNCHANGED generatorVars
    BY <1>1 DEF generatorVars, vars, sessionVars, factoryVars, settingVars, GeneratorInv, Types,
       Index, Creation, May, Solving, Joined, Finished, InTurn, SolversFresh, BackendChosen
  <1>2. CASE AnyThreadStep
    BY <1>2, ThreadMakesInv, ThreadWorksInv DEF AnyThreadStep
  <1>3. CASE GeneratorNext
    BY <1>2, <1>3, EnableInv, SequentialResetInv, SequentialStepInv, ThreadedResetInv,
       ThreadedSolveInv, MainStepInv, ChangeSettingsInv DEF GeneratorNext
  <1> QED BY <1>1, <1>3

(* The invariant of the generators.                                        *)
THEOREM GeneratorInvAlways == GeneratorSpec => []GeneratorInv
  <1> QED BY InitInv, GeneratorStep, PTL DEF GeneratorSpec

(* Saving changes the two sections and nothing else.                       *)
LEMMA SavedFile ==
    ASSUME NEW file, NEW used,
           file = [crave |-> file.crave, logger |-> file.logger]
    PROVE  /\ Saved(file, used) =
                 [crave |-> Saved(file, used).crave, logger |-> Saved(file, used).logger]
           /\ Saved(file, used).crave.lastseed = used
  <1> DEFINE loaded == CraveSection(file)
             crave == [backend |-> loaded.backend, seed |-> loaded.seed, lastseed |-> used]
  <1>1. SaveCrave(file, loaded, used) = [crave |-> crave, logger |-> file.logger]
    BY DEF SaveCrave
  <1>2. Saved(file, used) = [crave |-> crave, logger |-> LoggerSection(file)]
    BY <1>1 DEF Saved, SaveLogger
  <1> QED BY <1>2

(* init() loads a file, applies it and saves it with the seed in use.      *)
LEMMA InitCraveInv ==
    ASSUME SessionInv, NEW name \in ConfigName, InitCrave(name)
    PROVE  SessionInv'
  <1> DEFINE saved == Saved(files[name], seed_')
  <1>1. files' = [files EXCEPT ![name] = saved]
    BY DEF InitCrave
  <1>2. files[name] = [crave |-> files[name].crave, logger |-> files[name].logger]
    BY DEF SessionInv
  <1>3. saved = [crave |-> saved.crave, logger |-> saved.logger] /\ saved.crave.lastseed = seed_'
    BY <1>2, SavedFile
  <1>4. seed_' = default_rng_'
    BY DEF InitCrave, ApplySeed, ManagerSetSeed, SessionInv
  <1>5. files' = [n \in ConfigName |-> files'[n]] /\ files'[name] = saved
    BY <1>1 DEF SessionInv
  <1>6. \A n \in ConfigName :
           files'[n] = [crave |-> files'[n].crave, logger |-> files'[n].logger]
    BY <1>1, <1>3, <1>5 DEF SessionInv
  <1>7. reported' = name /\ config_file_name' = name
    BY DEF InitCrave
  <1> QED BY <1>3, <1>4, <1>5, <1>6, <1>7 DEF SessionInv, SeedReported

LEMMA SessionStep == SessionInv /\ [GeneratorNext]_generatorVars => SessionInv'
  <1> SUFFICES ASSUME SessionInv, [GeneratorNext]_generatorVars PROVE SessionInv'
    OBVIOUS
  <1>1. CASE UNCHANGED settingVars
    BY <1>1 DEF settingVars, SessionInv, SeedReported
  <1>2. CASE ChangeSettings
    <2>1. CASE \E s \in Seeds : SetGlobalSeed(s)
      BY <2>1 DEF SetGlobalSeed, ApplySeed, ManagerSetSeed, SessionInv, SeedReported
    <2>2. CASE \E name \in Backends : SetSolverBackend(name)
      BY <2>2 DEF SetSolverBackend, SessionInv, SeedReported
    <2>3. CASE \E name \in ConfigName : InitCrave(name)
      BY <2>3, InitCraveInv
    <2>4. CASE \E name \in ConfigName : SetConfigFileName(name)
      BY <2>4 DEF SetConfigFileName, SessionInv, SeedReported
    <2>5. CASE InitAgain
      <3>1. config_file_name \in ConfigName
        BY DEF SessionInv
      <3> QED BY <2>5, <3>1, InitCraveInv DEF InitAgain
    <2> QED BY <1>2, <2>1, <2>2, <2>3, <2>4, <2>5 DEF ChangeSettings, SettingStep
  <1>3. CASE GeneratorNext /\ ~ ChangeSettings
    <2>1. UNCHANGED settingVars
      BY <1>3 DEF GeneratorNext, EnableMultithreading, SequentialReset, SequentialStep,
         ThreadedReset, ThreadedSolve, ThreadedMainStep, AnyThreadStep, ThreadMakes, ThreadWorks,
         AskFactory, sessionVars
    <2> QED BY <1>1, <2>1
  <1> QED BY <1>1, <1>2, <1>3 DEF generatorVars, sessionVars

(***************************************************************************)
(* Both generators implement PartitionedSolve.                             *)
(***************************************************************************)
Busy == pc \in {"solve", "join", "failed"}

(* A step that leaves the answers alone is not seen.                       *)
LEMMA Unseen ==
    ASSUME UNCHANGED <<partitions, ret>>, Busy' = Busy,
           Answered("true")' = Answered("true"), Answered("false")' = Answered("false")
    PROVE  UNCHANGED Promise!absvars
  BY DEF Promise!absvars, Busy, AsSet

(* After a reset() there are no answers.                                   *)
LEMMA ResetSeen ==
    ASSUME NEW ps \in PartitionList, ~ Busy, ~ Busy', partitions' = ps, ret' = "none",
           \A l \in DOMAIN outcome' : outcome'[l] = "none"
    PROVE  Promise!Next
  <1>1. Answered("true")' = {} /\ Answered("false")' = {}
    BY DEF Answered
  <1>2. Promise!Reset(AsSet(ps))
    BY <1>1 DEF Promise!Reset, Busy, AsSet
  <1> QED BY <1>2 DEF Promise!Next

(* Nor when a solve() begins.                                              *)
LEMMA BeginSeen ==
    ASSUME ~ Busy, Busy', UNCHANGED partitions, ret' = "none",
           \A l \in DOMAIN outcome' : outcome'[l] = "none"
    PROVE  Promise!Next
  <1>1. Answered("true")' = {} /\ Answered("false")' = {}
    BY DEF Answered
  <1>2. Promise!Begin
    BY <1>1 DEF Promise!Begin, Busy, AsSet
  <1> QED BY <1>2 DEF Promise!Next

(* The j-th solver answers b, for the first time in this call.             *)
LEMMA AnswerSeen ==
    ASSUME Types, SolversFresh, Busy, Busy', UNCHANGED <<partitions, solvers_, ret>>,
           NEW j \in Index, NEW b \in {"true", "false"},
           DOMAIN outcome \subseteq Index,
           DOMAIN outcome' = DOMAIN outcome \union {j}, outcome'[j] = b,
           j \in DOMAIN outcome => outcome[j] = "none",
           \A l \in DOMAIN outcome \ {j} : outcome'[l] = outcome[l]
    PROVE  Promise!Next
  <1>1. solvers_ = partitions
    BY DEF SolversFresh, Busy
  <1>2. Index = 1..Len(partitions)
    BY <1>1 DEF Index
  <1>3. \A l, m \in Index : solvers_[l] = solvers_[m] => l = m
    BY <1>1, <1>2, ListFacts DEF Types
  <1> DEFINE p == solvers_[j]
  <1>4. p \in AsSet(partitions)
    BY <1>1, <1>2 DEF AsSet
  <1>5. p \notin Answered("true") \union Answered("false")
    BY <1>3 DEF Answered
  <1>6. Answered(b)' = Answered(b) \union {p}
    BY DEF Answered
  <1>7. \A x \in {"true", "false"} : x # b => Answered(x)' = Answered(x)
    BY DEF Answered
  <1>8. Promise!Solve(p)
    BY <1>5, <1>6, <1>7 DEF Promise!Solve, Busy, AsSet
  <1> QED BY <1>4, <1>8 DEF Promise!Next

(* solve() returns false if there is a failure and true if every solver    *)
(* has found a solution.                                                   *)
LEMMA ReturnSeen ==
    ASSUME Types, SolversFresh, Busy, ~ Busy', UNCHANGED <<partitions, solvers_, outcome>>,
           DOMAIN outcome \subseteq Index,
           \/ ret' = "false" /\ \E j \in DOMAIN outcome : outcome[j] = "false"
           \/ ret' = "true" /\ DOMAIN outcome = Index /\ \A j \in Index : outcome[j] = "true"
    PROVE  Promise!Next
  <1>1. solvers_ = partitions /\ Index = 1..Len(partitions)
    BY DEF SolversFresh, Busy, Index
  <1>2. Answered("true")' = Answered("true") /\ Answered("false")' = Answered("false")
    BY DEF Answered
  <1>3. CASE ret' = "false" /\ \E j \in DOMAIN outcome : outcome[j] = "false"
    <2>1. Answered("false") # {}
      BY <1>3 DEF Answered
    <2> QED BY <1>2, <1>3, <2>1 DEF Promise!Next, Promise!Return, Busy, AsSet
  <1>4. CASE ret' = "true" /\ DOMAIN outcome = Index /\ \A j \in Index : outcome[j] = "true"
    <2>1. Answered("false") = {}
      BY <1>4 DEF Answered
    <2>2. Answered("true") = AsSet(partitions)
      BY <1>1, <1>4 DEF Answered, AsSet
    <2> QED BY <1>2, <1>4, <2>1, <2>2 DEF Promise!Next, Promise!Return, Busy, AsSet
  <1> QED BY <1>3, <1>4

(* The generator without threads.                                          *)
LEMMA SequentialRefines ==
    ASSUME GeneratorInv, SequentialStep
    PROVE  Promise!Next
  <1> USE DEF SequentialStep
  <1>1. ~ multithreaded /\ Types /\ SolversFresh /\ InTurn
    BY DEF GeneratorInv
  <1>2. /\ outcome \in Seq({"true", "false"}) /\ DOMAIN outcome = 1..Len(outcome)
        /\ Len(outcome) \in Nat /\ Len(solvers_) \in Nat /\ Len(outcome) <= Len(solvers_)
    BY <1>1 DEF Types, InTurn
  <1>3. CASE Sequential!BeginSolve
    BY <1>3, BeginSeen DEF Sequential!BeginSolve, Busy
  <1>4. CASE Sequential!SolverSucceeds
    <2>1. next \in Index /\ next = Len(outcome) + 1
      BY <1>1, <1>2, <1>4 DEF Sequential!SolverSucceeds, InTurn, Index
    <2>2. outcome' = Append(outcome, "true") /\ pc = "solve" /\ pc' = "solve"
      BY <1>4 DEF Sequential!SolverSucceeds
    <2>3. /\ DOMAIN outcome' = DOMAIN outcome \union {next} /\ outcome'[next] = "true"
          /\ next \notin DOMAIN outcome /\ \A l \in DOMAIN outcome : outcome'[l] = outcome[l]
      BY <1>2, <2>1, <2>2
    <2>4. DOMAIN outcome \subseteq Index
      BY <1>2 DEF Index
    <2> QED BY <1>1, <1>4, <2>1, <2>2, <2>3, <2>4, AnswerSeen DEF Sequential!SolverSucceeds, Busy
  <1>5. CASE Sequential!SolverFails
    <2>1. next \in Index /\ next = Len(outcome) + 1
      BY <1>1, <1>2, <1>5 DEF Sequential!SolverFails, InTurn, Index
    <2>2. outcome' = Append(outcome, "false") /\ pc = "solve" /\ pc' = "failed"
      BY <1>5 DEF Sequential!SolverFails
    <2>3. /\ DOMAIN outcome' = DOMAIN outcome \union {next} /\ outcome'[next] = "false"
          /\ next \notin DOMAIN outcome /\ \A l \in DOMAIN outcome : outcome'[l] = outcome[l]
      BY <1>2, <2>1, <2>2
    <2>4. DOMAIN outcome \subseteq Index
      BY <1>2 DEF Index
    <2> QED BY <1>1, <1>5, <2>1, <2>2, <2>3, <2>4, AnswerSeen DEF Sequential!SolverFails, Busy
  <1>6. CASE Sequential!Return
    <2>1. DOMAIN outcome \subseteq Index
      BY <1>2 DEF Index
    <2>2. \/ ret' = "false" /\ \E j \in DOMAIN outcome : outcome[j] = "false"
          \/ ret' = "true" /\ DOMAIN outcome = Index /\ \A j \in Index : outcome[j] = "true"
      BY <1>1, <1>2, <1>6 DEF Sequential!Return, InTurn, Index
    <2> QED BY <1>1, <1>6, <2>1, <2>2, ReturnSeen DEF Sequential!Return, Busy
  <1> QED BY <1>3, <1>4, <1>5, <1>6

(* The main thread.                                                        *)
LEMMA MainRefines ==
    ASSUME GeneratorInv, ThreadedMainStep
    PROVE  Promise!Next \/ UNCHANGED Promise!absvars
  <1> USE DEF ThreadedMainStep
  <1>1. multithreaded /\ Types /\ SolversFresh /\ Solving
    BY DEF GeneratorInv
  <1>2. CASE StartCreation \/ JoinCreation \/ StartSolver \/ EndOfLoop
    <2>1. UNCHANGED <<partitions, solvers_, outcome, ret>> /\ Busy' = Busy
      BY <1>2 DEF StartCreation, JoinCreation, StartSolver, EndOfLoop, Busy
    <2>2. Answered("true")' = Answered("true") /\ Answered("false")' = Answered("false")
      BY <2>1 DEF Answered
    <2> QED BY <2>1, <2>2, Unseen
  <1>3. CASE JoinSolvers
    <2>1. pc = "join" /\ Finished /\ DOMAIN outcome = Index
      BY <1>1, <1>3 DEF JoinSolvers, Types
    <2>2. CASE result_
      <3>1. \A j \in Index : thread[j] # "none"
        BY <1>1, <2>1, <2>2 DEF Solving, Index, Types
      <3>2. \A j \in Index : outcome[j] = "true"
        BY <1>1, <2>1, <2>2, <3>1 DEF Solving, Finished
      <3> QED BY <1>1, <1>3, <2>1, <2>2, <3>2, ReturnSeen DEF JoinSolvers, Busy
    <2>3. CASE ~ result_
      <3>1. \E j \in Index : outcome[j] = "false"
        BY <1>1, <2>1, <2>3 DEF Solving
      <3> QED BY <1>1, <1>3, <2>1, <2>3, <3>1, ReturnSeen DEF JoinSolvers, Busy
    <2> QED BY <2>2, <2>3
  <1> QED BY <1>2, <1>3 DEF MainStep

(* The other threads: only the answer of a solver is seen.                 *)
LEMMA ThreadRefines ==
    ASSUME GeneratorInv, multithreaded, NEW j \in Index, ThreadMakes(j) \/ ThreadWorks(j)
    PROVE  Promise!Next \/ UNCHANGED Promise!absvars
  <1>1. Types /\ SolversFresh /\ Creation /\ Solving /\ Joined
    BY DEF GeneratorInv
  <1>2. CASE ThreadMakes(j)
    <2>1. UNCHANGED <<partitions, solvers_, outcome, ret>> /\ Busy' = Busy
      BY <1>2 DEF ThreadMakes, vars, Busy
    <2>2. Answered("true")' = Answered("true") /\ Answered("false")' = Answered("false")
      BY <2>1 DEF Answered
    <2> QED BY <2>1, <2>2, Unseen
  <1>3. CASE CreateNewSolver(j)
    <2>1. pc = "create"
      BY <1>1, <1>3 DEF CreateNewSolver, Types, Solving, Joined, Finished
    <2>2. UNCHANGED <<partitions, outcome, ret, pc>> /\ \A l \in DOMAIN outcome : outcome[l] = "none"
      BY <1>1, <1>3, <2>1 DEF CreateNewSolver, Creation, Types
    <2>3. Answered("true")' = Answered("true") /\ Answered("false")' = Answered("false")
      BY <2>2 DEF Answered
    <2> QED BY <2>2, <2>3, Unseen DEF Busy
  <1>4. CASE ReadResult(j) \/ WriteResult(j)
    <2>1. UNCHANGED <<partitions, solvers_, outcome, ret>> /\ Busy' = Busy
      BY <1>4 DEF ReadResult, WriteResult, Busy
    <2>2. Answered("true")' = Answered("true") /\ Answered("false")' = Answered("false")
      BY <2>1 DEF Answered
    <2> QED BY <2>1, <2>2, Unseen
  <1>5. CASE SolverSucceeds(j) \/ SolverFails(j)
    <2>1. thread[j] = "solve" /\ UNCHANGED <<partitions, solvers_, ret, pc>>
      BY <1>5 DEF SolverSucceeds, SolverFails
    <2>2. pc \in {"solve", "join"}
      BY <1>1, <2>1 DEF Types, Creation, Joined, Finished
    <2>3. DOMAIN outcome = Index /\ outcome[j] = "none"
      BY <1>1, <2>1, <2>2 DEF Types, Solving
    <2>4. \E b \in {"true", "false"} : outcome' = [outcome EXCEPT ![j] = b]
      BY <1>5 DEF SolverSucceeds, SolverFails
    <2>5. PICK b \in {"true", "false"} : outcome' = [outcome EXCEPT ![j] = b]
      BY <2>4
    <2>6. /\ DOMAIN outcome' = DOMAIN outcome \union {j} /\ outcome'[j] = b
          /\ \A l \in DOMAIN outcome \ {j} : outcome'[l] = outcome[l]
      BY <2>3, <2>5
    <2> QED BY <1>1, <2>1, <2>2, <2>3, <2>6, AnswerSeen DEF Busy
  <1> QED BY <1>2, <1>3, <1>4, <1>5 DEF ThreadWorks, ThreadStep

LEMMA StepRefines ==
    ASSUME GeneratorInv, [GeneratorNext]_generatorVars
    PROVE  [Promise!Next]_(Promise!absvars)
  <1>1. CASE UNCHANGED <<vars>>
    BY <1>1 DEF vars, Promise!absvars, Answered, AsSet
  <1>2. ASSUME NEW ps \in PartitionList,
               EnableMultithreading(ps) \/ SequentialReset(ps) \/ ThreadedReset(ps)
        PROVE  Promise!Next
    <2>1. ~ Busy /\ ~ Busy' /\ partitions' = ps /\ ret' = "none"
      BY <1>2 DEF EnableMultithreading, SequentialReset, Sequential!Reset, ThreadedReset,
                  BeginReset, Busy
    <2>2. \A l \in DOMAIN outcome' : outcome'[l] = "none"
      BY <1>2 DEF EnableMultithreading, SequentialReset, Sequential!Reset, ThreadedReset,
                  BeginReset
    <2> QED BY <2>1, <2>2, ResetSeen
  <1>3. CASE SequentialStep
    BY <1>3, SequentialRefines
  <1>4. CASE ThreadedSolve
    <2>1. ~ Busy /\ Busy' /\ UNCHANGED partitions /\ ret' = "none"
      BY <1>4 DEF ThreadedSolve, BeginSolve, Busy
    <2>2. \A l \in DOMAIN outcome' : outcome'[l] = "none"
      BY <1>4 DEF ThreadedSolve, BeginSolve
    <2> QED BY <2>1, <2>2, BeginSeen
  <1>5. CASE ThreadedMainStep
    BY <1>5, MainRefines
  <1>6. CASE AnyThreadStep
    BY <1>6, ThreadRefines DEF AnyThreadStep
  <1>7. CASE ChangeSettings
    BY <1>1, <1>7 DEF ChangeSettings
  <1>8. CASE UNCHANGED generatorVars
    BY <1>1, <1>8 DEF generatorVars
  <1> QED BY <1>2, <1>3, <1>4, <1>5, <1>6, <1>7, <1>8 DEF GeneratorNext

(***************************************************************************)
(* The results.                                                            *)
(***************************************************************************)

(* Between the calls and while solve() runs every solver belongs to the    *)
(* partition of its index, for any number of threads of reset().           *)
THEOREM SolversFreshAlways == GeneratorSpec => []SolversFresh
  <1>1. GeneratorInv => SolversFresh
    BY DEF GeneratorInv
  <1> QED BY <1>1, GeneratorInvAlways, PTL

(* All solvers of a reset() get the back end that was selected, or the     *)
(* first one of the build, however the threads interleave in the factory.  *)
THEOREM BackendChosenAlways == GeneratorSpec => []BackendChosen
  <1>1. GeneratorInv => BackendChosen
    BY DEF GeneratorInv
  <1> QED BY <1>1, GeneratorInvAlways, PTL

(* The file that init() wrote last holds the seed of the generator.        *)
THEOREM SeedReportedAlways == GeneratorSpec => []SeedReported
  <1>1. GeneratorInit => SessionInv
    BY SessionInvInit DEF GeneratorInit
  <1>2. SessionInv => SeedReported
    BY DEF SessionInv
  <1> QED BY <1>1, <1>2, SessionStep, PTL DEF GeneratorSpec

(* The answer of solve() is right in both generators although the threads  *)
(* share result_ without a lock.                                           *)
THEOREM PromiseKept == GeneratorSpec => KeepsPromise
  <1>1. GeneratorInit => Promise!Init
    BY DEF GeneratorInit, Init, Promise!Init, Answered, AsSet
  <1> QED BY <1>1, StepRefines, GeneratorInvAlways, PTL
      DEF GeneratorSpec, KeepsPromise, Promise!Spec
=============================================================================
