------------------------------ MODULE Session ------------------------------
(***************************************************************************)
(* What all generators of a program share: the factory of the solvers, and *)
(* the settings.                                                           *)
(***************************************************************************)
EXTENDS Naturals, Sequences, FiniteSets

(***************************************************************************)
(* FactoryMetaSMT: which back end a new solver gets.  getNewInstance()     *)
(* calls itself until the static member solver_type_ names a back end of   *)
(* this build, and writes that member on the way; the threads of a         *)
(* multithreaded reset() do so at the same time, without a lock.           *)
(***************************************************************************)
CONSTANT Built    \* the back ends metaSMT was built with

(* The order in which the factory looks for a back end.                    *)
SolverTypes == <<"BOOLECTOR", "SWORD", "STP", "YICES2", "Z3", "CVC4", "CUDD">>
SolverType == {SolverTypes[n] : n \in 1..Len(SolverTypes)}

(* Without a back end getNewInstance() throws.                             *)
ASSUME BuiltAssumption == Built \subseteq SolverType /\ Built # {}

VARIABLES
    solver_type_,  \* the static member of the factory
    call           \* call[j]: the call of getNewInstance() for the j-th solver

factoryVars == <<solver_type_, call>>

IsDefined(type) == type \in Built

FirstDefined ==
    SolverTypes[CHOOSE n \in 1..Len(SolverTypes) :
                   /\ IsDefined(SolverTypes[n])
                   /\ \A m \in 1..(n - 1) : ~ IsDefined(SolverTypes[m])]

(* The names that set_solver_backend() knows; any other one, "auto" among  *)
(* them, changes nothing.                                                  *)
TypeNamed ==
    [Boolector |-> "BOOLECTOR", CVC4 |-> "CVC4", STP |-> "STP", SWORD |-> "SWORD",
     Yices2 |-> "YICES2", Z3 |-> "Z3", Cudd |-> "CUDD"]
SetSolverType(name) == IF name \in DOMAIN TypeNamed THEN TypeNamed[name] ELSE solver_type_

Entered == [at |-> "enter", type |-> "UNDEFINED"]
Made(type) == [at |-> "made", type |-> type]

(* What one call makes of a type when nobody interferes.                   *)
Selected(type) == IF IsDefined(type) THEN type ELSE FirstDefined

FactoryInit == solver_type_ = "UNDEFINED" /\ call = <<>>

-----------------------------------------------------------------------------
(* The default argument is evaluated for the call and for every call that  *)
(* it makes of itself.                                                     *)
ReadType(j) ==
    /\ call[j].at = "enter"
    /\ call' = [call EXCEPT ![j] = [at |-> "switch", type |-> solver_type_]]
    /\ UNCHANGED solver_type_

(* TRY_GET_SOLVER: the back end is there.                                  *)
GetSolver(j) ==
    /\ call[j].at = "switch" /\ IsDefined(call[j].type)
    /\ call' = [call EXCEPT ![j] = Made(call[j].type)]
    /\ UNCHANGED solver_type_

(* Mutant: the caller goes on with the type it has read.                   *)
UndefineAndMake(j) ==
    /\ call[j].at = "switch" /\ call[j].type # "UNDEFINED" /\ ~ IsDefined(call[j].type)
    /\ solver_type_' = "UNDEFINED"
    /\ call' = [call EXCEPT ![j] = Made(call[j].type)]

(* TRY_GET_SOLVER: it is not, and another one will be selected.            *)
Undefine(j) ==
    /\ call[j].at = "switch" /\ call[j].type # "UNDEFINED" /\ ~ IsDefined(call[j].type)
    /\ solver_type_' = "UNDEFINED"
    /\ call' = [call EXCEPT ![j] = Entered]

(* TRY_GET_SOLVER_WHEN_UNDEFINED.                                          *)
AutoSelect(j) ==
    /\ call[j].at = "switch" /\ call[j].type = "UNDEFINED"
    /\ solver_type_' = FirstDefined
    /\ call' = [call EXCEPT ![j] = Entered]

FactoryStep(j) == ReadType(j) \/ GetSolver(j) \/ Undefine(j) \/ AutoSelect(j)

-----------------------------------------------------------------------------
(***************************************************************************)
(* The settings of a program that uses CRAVE: the global seed, and init(), *)
(* which loads a configuration file, applies it and writes it back with    *)
(* the seed in use.  A file is its two sections, "crave" and "logger",     *)
(* either of which may be missing; a missing entry has its default.        *)
(***************************************************************************)
CONSTANTS
    ConfigName,    \* names of configuration files, the preset one among them
    PresetName,
    InitialFiles,  \* what the files may hold when the program starts
    StartSeed,     \* std::time(0) when the program starts
    Seeds,         \* the seeds that the program sets itself
    Backends,      \* the back ends that it asks for by name
    MaxSettings,   \* bound on the calls that change settings
    Missing        \* no section

ASSUME FilesAssumption ==
    /\ PresetName \in ConfigName
    /\ \A fs \in InitialFiles :
          /\ fs = [name \in ConfigName |-> fs[name]]
          /\ \A name \in ConfigName :
                fs[name] = [crave |-> fs[name].crave, logger |-> fs[name].logger]

VARIABLES
    files,              \* files[name]: the sections of that file
    config_file_name,
    seed_,              \* the seed that the seed manager reports
    default_rng_,       \* the seed its generator was last given
    reported,           \* the file that holds the seed in use (history)
    settings            \* calls so far

settingVars == <<files, config_file_name, seed_, default_rng_, reported, settings>>

CraveSection(file) ==
    IF file.crave = Missing THEN [backend |-> "auto", seed |-> 0, lastseed |-> Missing] ELSE file.crave
LoggerSection(file) == IF file.logger = Missing THEN "defaults" ELSE file.logger

SessionInit ==
    /\ files \in InitialFiles
    /\ config_file_name = PresetName
    /\ seed_ = StartSeed /\ default_rng_ = StartSeed
    /\ reported = Missing
    /\ settings = 0

-----------------------------------------------------------------------------
(* Mutant: the generator goes on as it was.                                *)
SeedWithoutGenerator(s) == seed_' = s /\ UNCHANGED default_rng_

ManagerSetSeed(s) == seed_' = s /\ default_rng_' = s

(* set_global_seed(): zero leaves the seed as it is.                       *)
ApplySeed(s) ==
    IF s # 0 THEN ManagerSetSeed(s) ELSE UNCHANGED <<seed_, default_rng_>>

SetGlobalSeed(s) ==
    /\ ApplySeed(s)
    /\ reported' = IF s # 0 THEN Missing ELSE reported
    /\ UNCHANGED <<files, config_file_name, factoryVars>>

SetSolverBackend(name) ==
    /\ solver_type_' = SetSolverType(name)
    /\ UNCHANGED <<files, config_file_name, seed_, default_rng_, reported, call>>

SaveCrave(file, loaded, used) ==
    [file EXCEPT !.crave = [backend |-> loaded.backend, seed |-> loaded.seed, lastseed |-> used]]
SaveLogger(file, loaded) == [file EXCEPT !.logger = loaded]

(* Both sections are saved, each into the file as it then is.              *)
Saved(file, used) == SaveLogger(SaveCrave(file, CraveSection(file), used), LoggerSection(file))

InitCrave(name) ==
    LET loaded == CraveSection(files[name]) IN
    /\ ApplySeed(loaded.seed)
    /\ solver_type_' = SetSolverType(loaded.backend)
    /\ config_file_name' = name
    /\ files' = [files EXCEPT ![name] = Saved(files[name], seed_')]
    /\ reported' = name
    /\ UNCHANGED call

SetConfigFileName(name) ==
    /\ config_file_name' = name
    /\ UNCHANGED <<files, seed_, default_rng_, reported, factoryVars>>

(* init() without an argument.                                             *)
InitAgain == InitCrave(config_file_name)

SettingStep ==
    /\ settings < MaxSettings /\ settings' = settings + 1
    /\ \/ \E s \in Seeds : SetGlobalSeed(s)
       \/ \E name \in Backends : SetSolverBackend(name)
       \/ \E name \in ConfigName : InitCrave(name)
       \/ \E name \in ConfigName : SetConfigFileName(name)
       \/ InitAgain

-----------------------------------------------------------------------------
(* The file that init() wrote last tells with which seed the values were   *)
(* drawn, so that a run can be repeated, until the program sets a seed     *)
(* itself: seed, generator and file do not part.                           *)
SeedReported ==
    reported # Missing => files[reported].crave.lastseed = default_rng_
=============================================================================
