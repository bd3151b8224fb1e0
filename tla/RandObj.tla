------------------------------- MODULE RandObj -------------------------------
(***************************************************************************)
(* rand_obj with its Generator.  Two flags decide whether a randomization  *)
(* first rebuilds the solvers: rebuild_ of the object, which               *)
(* request_rebuild() passes on to all ancestors, and changed_ of the       *)
(* constraint manager inside the generator of the object, which the        *)
(* ancestors do not see.                                                   *)
(*                                                                         *)
(* The program is single-threaded, so every call is one step.  Solving     *)
(* itself is not described: last records with which constraints and        *)
(* vectors the solvers were asked.                                         *)
(***************************************************************************)
EXTENDS RandObjTree

VARIABLES
    objs,      \* objects constructed so far
    declared,  \* constraints in the lists constraints_ of the managers
    enabled,   \* those whose enabled_ is set
    rebuild_,  \* rebuild_[o]
    gen,       \* gen[o]: the Generator o.constraint
    last       \* the last call of the solvers

vars == <<objs, declared, enabled, rebuild_, gen, last>>

GeneratorType ==
    [changed  : BOOLEAN,             \* constr_mng_.changed_
     pttn     : SUBSET Constraint,   \* what constr_pttn_ has merged
     vec_ids  : SUBSET Vec,          \* to_be_generated_vec_ids_
     var_gen  : SUBSET Constraint,   \* what var_gen_ and vec_gen_ were built from
     cov_gen  : SUBSET Constraint,   \* what var_cov_gen_ was built from
     covered  : BOOLEAN]

NewGenerator ==
    [changed |-> FALSE, pttn |-> {}, vec_ids |-> {}, var_gen |-> {},
     cov_gen |-> {}, covered |-> FALSE]

Own(o) == {c \in declared : Owner[c] = o}
EnabledUnder(o) == {c \in enabled : Owner[c] \in Subtree(o) \intersect objs}
VecsUnder(o) == {v \in Vec : VecOwner[v] \in Subtree(o) \intersect objs}

(***************************************************************************)
(* The Generator.                                                          *)
(***************************************************************************)
SetChanged(g, b) ==
    [changed |-> b, pttn |-> g.pttn, vec_ids |-> g.vec_ids,
     var_gen |-> g.var_gen, cov_gen |-> g.cov_gen, covered |-> g.covered]

SetCovered(g) ==
    [changed |-> g.changed, pttn |-> g.pttn, vec_ids |-> g.vec_ids,
     var_gen |-> g.var_gen, cov_gen |-> g.cov_gen, covered |-> TRUE]

ResetCoverage(g) ==
    [changed |-> g.changed, pttn |-> g.pttn, vec_ids |-> g.vec_ids,
     var_gen |-> g.var_gen, cov_gen |-> g.pttn, covered |-> FALSE]

Reset(g) ==
    ResetCoverage([changed |-> FALSE, pttn |-> {}, vec_ids |-> {},
                   var_gen |-> g.var_gen, cov_gen |-> g.cov_gen,
                   covered |-> g.covered])

(* merge() of the constraints cs and addVecId() of the vectors vs.         *)
Merge(g, cs, vs) ==
    [changed |-> g.changed, pttn |-> g.pttn \union cs, vec_ids |-> g.vec_ids \union vs,
     var_gen |-> g.var_gen, cov_gen |-> g.cov_gen, covered |-> g.covered]

Rebuild(g) ==
    [changed |-> g.changed, pttn |-> g.pttn, vec_ids |-> g.vec_ids,
     var_gen |-> g.pttn, cov_gen |-> g.pttn, covered |-> g.covered]

(* rebuild(true) of a generator that merges no other manager.              *)
RebuildSelf(g, o) == Rebuild(Merge(Reset(g), enabled \intersect Own(o), {}))

(* The beginning of Generator::next and Generator::nextCov.                *)
IfChanged(g, o) == IF g.changed THEN RebuildSelf(g, o) ELSE g

(***************************************************************************)
(* rand_obj.                                                               *)
(***************************************************************************)
(* Mutant: the request stays with the object.                              *)
RequestRebuildHere(flags, o) == [x \in Obj |-> flags[x] \/ x = o]

RequestRebuild(flags, o) ==
    [x \in Obj |-> flags[x] \/ x \in AncestorsOrSelf(o)]

(* Mutant: only the constraints of the object itself are gathered.         *)
GatherOwnConstraints(g, o) == Merge(g, enabled \intersect Own(o), VecsUnder(o))

(* gather_constraints descends to the children, then adds the vectors and  *)
(* the constraints of the object itself.                                   *)
GatherConstraints(g, o) == Merge(g, EnabledUnder(o), VecsUnder(o))

(* The generator of o when its solvers are called.                         *)
Refreshed(o) ==
    IfChanged(IF rebuild_[o] THEN Rebuild(GatherConstraints(Reset(gen[o]), o))
              ELSE gen[o], o)

Init ==
    /\ objs = {}
    /\ declared = {}
    /\ enabled = {}
    /\ rebuild_ = [o \in Obj |-> FALSE]
    /\ gen = [o \in Obj |-> NewGenerator]
    /\ last = [obj |-> NoObj, constraints |-> {}, vectors |-> {}]

(* The constructors of a class derived from rand_obj: rand_obj(parent)     *)
(* enters the object in the list of the parent, the rand_vec members enter *)
(* themselves in the object, then the body declares the constraints.       *)
Construct(o) ==
    /\ o \notin objs
    /\ Parent[o] # NoObj => Parent[o] \in objs
    /\ objs' = objs \union {o}
    /\ LET new == {c \in Constraint \ Late : Owner[c] = o}
           viaParent == IF Parent[o] # NoObj THEN RequestRebuild(rebuild_, Parent[o])
                        ELSE rebuild_
       IN /\ declared' = declared \union new
          /\ enabled' = enabled \union new
          /\ gen' = [gen EXCEPT ![o] = SetChanged(gen[o], new # {})]
          /\ rebuild_' = IF \E v \in Vec : VecOwner[v] = o
                         THEN RequestRebuild(viaParent, o) ELSE viaParent
    /\ UNCHANGED last

(* o.constraint(name, expr) after the constructor; a name is taken once.   *)
MakeConstraint(c) ==
    /\ c \in Late
    /\ Owner[c] \in objs
    /\ c \notin declared
    /\ declared' = declared \union {c}
    /\ enabled' = enabled \union {c}
    /\ gen' = [gen EXCEPT ![Owner[c]] = SetChanged(gen[Owner[c]], TRUE)]
    /\ UNCHANGED <<objs, rebuild_, last>>

(* The manager of o looks c up among its own constraints and sets its flag *)
(* enabled_; a name it does not know has no effect.                        *)
EnableNamed(o, c) == IF c \in Own(o) THEN enabled \union {c} ELSE enabled
DisableNamed(o, c) == IF c \in Own(o) THEN enabled \ {c} ELSE enabled

(* o.enable_constraint(name) and o.disable_constraint(name): a call that   *)
(* has no effect still requests a rebuild if the manager changed before.   *)
EnableConstraint(o, c) ==
    /\ o \in objs
    /\ LET changed == gen[o].changed \/ EnableNamed(o, c) # enabled
       IN /\ enabled' = EnableNamed(o, c)
          /\ gen' = [gen EXCEPT ![o] = SetChanged(gen[o], changed)]
          /\ rebuild_' = IF changed THEN RequestRebuild(rebuild_, o) ELSE rebuild_
    /\ UNCHANGED <<objs, declared, last>>

DisableConstraint(o, c) ==
    /\ o \in objs
    /\ LET changed == gen[o].changed \/ DisableNamed(o, c) # enabled
       IN /\ enabled' = DisableNamed(o, c)
          /\ gen' = [gen EXCEPT ![o] = SetChanged(gen[o], changed)]
          /\ rebuild_' = IF changed THEN RequestRebuild(rebuild_, o) ELSE rebuild_
    /\ UNCHANGED <<objs, declared, last>>

(* gen.enableConstraint(name) and gen.disableConstraint(name) on the       *)
(* generator itself, which request no rebuild.                             *)
GeneratorSetEnabled(c, on) ==
    /\ c \in declared
    /\ (c \in enabled) # on   \* else the call has no effect
    /\ enabled' = IF on THEN enabled \union {c} ELSE enabled \ {c}
    /\ gen' = [gen EXCEPT ![Owner[c]] = SetChanged(gen[Owner[c]], TRUE)]
    /\ UNCHANGED <<objs, declared, rebuild_, last>>

(* enable_multithreading() replaces var_gen_ and rebuilds from the own     *)
(* constraints.                                                            *)
EnableMultithreading(o) ==
    /\ o \in objs
    /\ gen' = [gen EXCEPT ![o] = RebuildSelf(gen[o], o)]
    /\ UNCHANGED <<objs, declared, enabled, rebuild_, last>>

GeneratorResetCoverage(o) ==
    /\ o \in objs
    /\ gen' = [gen EXCEPT ![o] = ResetCoverage(gen[o])]
    /\ UNCHANGED <<objs, declared, enabled, rebuild_, last>>

(* o.next().                                                               *)
NextValues(o) ==
    /\ o \in objs
    /\ gen' = [gen EXCEPT ![o] = Refreshed(o)]
    /\ rebuild_' = [rebuild_ EXCEPT ![o] = FALSE]
    /\ last' = [obj |-> o, constraints |-> Refreshed(o).var_gen,
                vectors |-> Refreshed(o).vec_ids]
    /\ UNCHANGED <<objs, declared, enabled>>

(* o.next_cov(): the coverage solvers find a solution that covers          *)
(* something new.                                                          *)
NextCovNew(o) ==
    /\ o \in objs
    /\ ~Refreshed(o).covered
    /\ gen' = [gen EXCEPT ![o] = Refreshed(o)]
    /\ rebuild_' = [rebuild_ EXCEPT ![o] = FALSE]
    /\ last' = [obj |-> o, constraints |-> Refreshed(o).cov_gen,
                vectors |-> Refreshed(o).vec_ids]
    /\ UNCHANGED <<objs, declared, enabled>>

(* They find none, or everything is covered: next() of the generator.      *)
NextCovDone(o) ==
    /\ o \in objs
    /\ gen' = [gen EXCEPT ![o] = IfChanged(SetCovered(Refreshed(o)), o)]
    /\ rebuild_' = [rebuild_ EXCEPT ![o] = FALSE]
    /\ last' = [obj |-> o, constraints |-> gen'[o].var_gen, vectors |-> gen'[o].vec_ids]
    /\ UNCHANGED <<objs, declared, enabled>>

(* Generator::rebuild(true) forgets what gather_constraints() has merged   *)
(* from the children and the vectors.  The programs modelled here call     *)
(* enable_multithreading() on an object that stands alone or is due for a  *)
(* rebuild anyway (before the first next(), as sudoku_free_perf does), and *)
(* enable or disable constraints through the generator only on an object   *)
(* that stands alone.                                                      *)
RebuildAlone(o) == Standalone(o) \/ rebuild_[o]

ObjectStep(o) ==
    \/ Construct(o)
    \/ \E c \in Constraint : EnableConstraint(o, c) \/ DisableConstraint(o, c)
    \/ RebuildAlone(o) /\ EnableMultithreading(o)
    \/ GeneratorResetCoverage(o)
    \/ NextValues(o)
    \/ NextCovNew(o)
    \/ NextCovDone(o)

Next ==
    \/ \E o \in Obj : ObjectStep(o)
    \/ \E c \in Constraint :
          \/ MakeConstraint(c)
          \/ Standalone(Owner[c]) /\ \E on \in BOOLEAN : GeneratorSetEnabled(c, on)

Spec == Init /\ [][Next]_vars
------------------------------------------------------------------------------
(* The flags, the generators and the lists of constraints have their types *)
(* and only declared constraints are enabled.                              *)
TypeOK ==
    /\ objs \in SUBSET Obj
    /\ declared \in SUBSET Constraint
    /\ enabled \in SUBSET declared
    /\ rebuild_ \in [Obj -> BOOLEAN]
    /\ gen \in [Obj -> GeneratorType]
    /\ last \in [obj : Obj \union {NoObj}, constraints : SUBSET Constraint,
                 vectors : SUBSET Vec]

(* An object of which neither flag is set has solvers built from exactly   *)
(* the constraints that are enabled in it and below it at this moment, and *)
(* knows exactly the vectors it has to generate.                           *)
UpToDate ==
    \A o \in objs : ~rebuild_[o] /\ ~gen[o].changed =>
        /\ gen[o].var_gen = EnabledUnder(o)
        /\ gen[o].cov_gen = EnabledUnder(o)
        /\ gen[o].vec_ids = VecsUnder(o)

(* An object that has children or vectors never takes the rebuild of       *)
(* Generator::next, which would forget the constraints of the children and *)
(* the vectors: whenever its manager has changed, rebuild_ is set too.     *)
HasParts(o) == (\E x \in objs : Parent[x] = o) \/ (\E v \in Vec : VecOwner[v] = o)

ChangeIsAnnounced ==
    \A o \in objs : gen[o].changed /\ HasParts(o) => rebuild_[o]

(* rand_obj implements the abstract specification.                         *)
Abstract == INSTANCE RandObjAbstract
ImplementsAbstract == Abstract!Spec
==============================================================================
