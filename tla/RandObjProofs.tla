---------------------------- MODULE RandObjProofs ----------------------------
(***************************************************************************)
(* Proofs about RandObj, for every tree of objects and every set of        *)
(* constraints and vectors.                                                *)
(***************************************************************************)
EXTENDS RandObj, TLAPS

(***************************************************************************)
(* The tree.                                                               *)
(***************************************************************************)
LEMMA SelfIsAncestor ==
    ASSUME NEW o \in Obj
    PROVE  o \in AncestorsOrSelf(o) /\ o \in Subtree(o)
  BY DEF AncestorsOrSelf, Ancestors, Subtree

(* A closed set contains the ancestors of its objects.                     *)
LEMMA ClosedContainsAncestors ==
    ASSUME NEW S \in SUBSET Obj, Closed(S), NEW o \in S
    PROVE  AncestorsOrSelf(o) \subseteq S
  BY DEF AncestorsOrSelf, Ancestors

(* The ancestors of a child are the child and the ancestors of its parent. *)
LEMMA AncestorsOfChild ==
    ASSUME NEW o \in Obj, Parent[o] # NoObj, NEW a \in AncestorsOrSelf(o), a # o
    PROVE  a \in AncestorsOrSelf(Parent[o])
  <1> DEFINE p == Parent[o]
  <1>1. p \in Obj /\ a \in Obj
    BY ShapeAssumption DEF AncestorsOrSelf, Ancestors
  <1> SUFFICES ASSUME NEW S \in SUBSET Obj, p \in S, Closed(S) PROVE a \in S
    BY <1>1 DEF AncestorsOrSelf, Ancestors
  <1>2. S \union {o} \in SUBSET Obj /\ o \in S \union {o} /\ Closed(S \union {o})
    BY DEF Closed
  <1>3. AncestorsOrSelf(o) \subseteq S \union {o}
    BY <1>2, ClosedContainsAncestors
  <1> QED BY <1>3

(* The ancestors of a root.                                                *)
LEMMA AncestorsOfRoot ==
    ASSUME NEW o \in Obj, Parent[o] = NoObj
    PROVE  AncestorsOrSelf(o) = {o}
  <1>1. {o} \in SUBSET Obj /\ Closed({o})
    BY DEF Closed
  <1>2. AncestorsOrSelf(o) \subseteq {o}
    BY <1>1, ClosedContainsAncestors
  <1> QED BY <1>2, SelfIsAncestor

(***************************************************************************)
(* The inductive invariant.                                                *)
(***************************************************************************)

(* Parents are constructed before their children.                          *)
ObjsClosed == Closed(objs)

(* A constraint is declared in a constructed object.                       *)
DeclaredOwned == \A c \in declared : Owner[c] \in objs

(* The generator of an object that does not exist yet is new.              *)
Untouched == \A o \in Obj \ objs : gen[o] = NewGenerator

(* The generator g has what it needs to randomize o: UpToDate, and the     *)
(* partitions that resetCoverage() starts from are up to date as well.     *)
InOrder(g, o) ==
    /\ g.pttn = EnabledUnder(o)
    /\ g.var_gen = EnabledUnder(o)
    /\ g.cov_gen = EnabledUnder(o)
    /\ g.vec_ids = VecsUnder(o)

AllInOrder ==
    \A o \in objs : ~rebuild_[o] /\ ~gen[o].changed => InOrder(gen[o], o)

IInv ==
    /\ TypeOK
    /\ ObjsClosed
    /\ DeclaredOwned
    /\ Untouched
    /\ AllInOrder
    /\ ChangeIsAnnounced

(* An object without parts has nothing below it.                           *)
LEMMA NothingBelow ==
    ASSUME objs \in SUBSET Obj, ObjsClosed, NEW o \in objs, ~HasParts(o)
    PROVE  Subtree(o) \intersect objs = {o}
  <1>1. Closed(objs \ {o}) /\ objs \ {o} \in SUBSET Obj
    BY DEF ObjsClosed, Closed, HasParts
  <1>2. ASSUME NEW x \in Subtree(o) \intersect objs, x # o PROVE FALSE
    <2>1. AncestorsOrSelf(x) \subseteq objs \ {o}
      BY <1>1, <1>2, ClosedContainsAncestors
    <2> QED BY <2>1 DEF Subtree
  <1> QED BY <1>2, SelfIsAncestor

LEMMA InitIInv == Init => IInv
  BY DEF Init, IInv, TypeOK, ObjsClosed, Closed, DeclaredOwned, Untouched, AllInOrder,
         ChangeIsAnnounced, NewGenerator, GeneratorType

(***************************************************************************)
(* What the generator does when it is rebuilt.                             *)
(***************************************************************************)
LEMMA RebuildSelfResult ==
    ASSUME NEW g \in GeneratorType, NEW o \in Obj
    PROVE  RebuildSelf(g, o) =
             [changed |-> FALSE, pttn |-> enabled \intersect Own(o), vec_ids |-> {},
              var_gen |-> enabled \intersect Own(o),
              cov_gen |-> enabled \intersect Own(o), covered |-> FALSE]
  BY DEF RebuildSelf, Rebuild, Merge, Reset, ResetCoverage

LEMMA RebuildTreeResult ==
    ASSUME NEW g \in GeneratorType, NEW o \in Obj
    PROVE  Rebuild(GatherConstraints(Reset(g), o)) =
             [changed |-> FALSE, pttn |-> EnabledUnder(o), vec_ids |-> VecsUnder(o),
              var_gen |-> EnabledUnder(o), cov_gen |-> EnabledUnder(o),
              covered |-> FALSE]
  BY DEF Rebuild, GatherConstraints, Merge, Reset, ResetCoverage

(* Whatever the flags are, the solvers of o are called with the            *)
(* constraints that are enabled in o and below it.                         *)
LEMMA RefreshedIsUpToDate ==
    ASSUME IInv, NEW o \in objs
    PROVE  /\ Refreshed(o) \in GeneratorType
           /\ ~Refreshed(o).changed
           /\ InOrder(Refreshed(o), o)
  <1>t. /\ TypeOK /\ o \in Obj /\ gen[o] \in GeneratorType
        /\ EnabledUnder(o) \subseteq Constraint /\ VecsUnder(o) \subseteq Vec
    BY DEF IInv, TypeOK, EnabledUnder, VecsUnder
  <1>1. CASE rebuild_[o]
    <2> DEFINE g == Rebuild(GatherConstraints(Reset(gen[o]), o))
    <2>1. g = [changed |-> FALSE, pttn |-> EnabledUnder(o), vec_ids |-> VecsUnder(o),
               var_gen |-> EnabledUnder(o), cov_gen |-> EnabledUnder(o),
               covered |-> FALSE]
      BY <1>t, RebuildTreeResult
    <2>2. Refreshed(o) = IfChanged(g, o)
      BY <1>1 DEF Refreshed
    <2> HIDE DEF g
    <2>3. Refreshed(o) = g
      BY <2>1, <2>2 DEF IfChanged
    <2> QED BY <1>t, <2>1, <2>3 DEF GeneratorType, InOrder
  <1>2. CASE ~rebuild_[o] /\ gen[o].changed
    <2>1. Refreshed(o) = RebuildSelf(gen[o], o)
      BY <1>2 DEF Refreshed, IfChanged
    <2>2. Refreshed(o) =
             [changed |-> FALSE, pttn |-> enabled \intersect Own(o), vec_ids |-> {},
              var_gen |-> enabled \intersect Own(o),
              cov_gen |-> enabled \intersect Own(o), covered |-> FALSE]
      BY <1>t, <2>1, RebuildSelfResult
    <2>3. ~HasParts(o)
      BY <1>2 DEF IInv, ChangeIsAnnounced
    <2>4. Subtree(o) \intersect objs = {o}
      BY <2>3, NothingBelow DEF IInv, TypeOK
    <2>5. enabled \intersect Own(o) = EnabledUnder(o)
      BY <1>t, <2>4 DEF Own, EnabledUnder, TypeOK
    <2>6. VecsUnder(o) = {}
      BY <2>3, <2>4 DEF VecsUnder, HasParts
    <2> QED BY <1>t, <2>2, <2>5, <2>6 DEF GeneratorType, InOrder
  <1>3. CASE ~rebuild_[o] /\ ~gen[o].changed
    <2>1. Refreshed(o) = gen[o]
      BY <1>3 DEF Refreshed, IfChanged
    <2> QED BY <1>t, <1>3, <2>1 DEF IInv, AllInOrder
  <1> QED BY <1>1, <1>2, <1>3

(***************************************************************************)
(* Types of the operators.                                                 *)
(***************************************************************************)
LEMMA SetChangedResult ==
    ASSUME NEW g \in GeneratorType, NEW b \in BOOLEAN
    PROVE  /\ SetChanged(g, b) \in GeneratorType
           /\ SetChanged(g, b).changed = b
           /\ \A o \in Obj : InOrder(g, o) => InOrder(SetChanged(g, b), o)
  BY DEF SetChanged, GeneratorType, InOrder

LEMMA SetCoveredResult ==
    ASSUME NEW g \in GeneratorType
    PROVE  /\ SetCovered(g) \in GeneratorType
           /\ SetCovered(g).changed = g.changed
           /\ \A o \in Obj : InOrder(g, o) => InOrder(SetCovered(g), o)
  BY DEF SetCovered, GeneratorType, InOrder

LEMMA ResetCoverageResult ==
    ASSUME NEW g \in GeneratorType
    PROVE  /\ ResetCoverage(g) \in GeneratorType
           /\ ResetCoverage(g).changed = g.changed
           /\ \A o \in Obj : InOrder(g, o) => InOrder(ResetCoverage(g), o)
  BY DEF ResetCoverage, GeneratorType, InOrder

LEMMA RequestRebuildType ==
    ASSUME NEW flags \in [Obj -> BOOLEAN], NEW o \in Obj
    PROVE  /\ RequestRebuild(flags, o) \in [Obj -> BOOLEAN]
           /\ \A x \in AncestorsOrSelf(o) : x \in Obj /\ RequestRebuild(flags, o)[x]
           /\ \A x \in Obj : flags[x] => RequestRebuild(flags, o)[x]
  BY DEF RequestRebuild, AncestorsOrSelf, Ancestors

(***************************************************************************)
(* A call that only changes the generator of one object o to g, with       *)
(* nothing declared or enabled, keeps the invariant if g is in order.      *)
(***************************************************************************)
LEMMA GeneratorStep ==
    ASSUME IInv, NEW o \in objs, NEW g \in GeneratorType,
           gen' = [gen EXCEPT ![o] = g],
           rebuild_' \in [Obj -> BOOLEAN],
           \A x \in Obj : x # o => rebuild_'[x] = rebuild_[x],
           UNCHANGED <<objs, declared, enabled>>,
           last' \in [obj : Obj \union {NoObj}, constraints : SUBSET Constraint,
                      vectors : SUBSET Vec],
           ~rebuild_'[o] /\ ~g.changed => InOrder(g, o),
           g.changed /\ HasParts(o) => rebuild_'[o]
    PROVE  IInv'
  <1>1. TypeOK'
    BY DEF IInv, TypeOK
  <1>2. o \in Obj /\ gen'[o] = g /\ \A x \in Obj : x # o => gen'[x] = gen[x]
    BY DEF IInv, TypeOK
  <1>3. ObjsClosed' /\ DeclaredOwned' /\ Untouched'
    BY <1>2 DEF IInv, ObjsClosed, DeclaredOwned, Untouched, Closed
  <1>4. \A x \in objs : /\ x \in Obj
                        /\ EnabledUnder(x)' = EnabledUnder(x)
                        /\ VecsUnder(x)' = VecsUnder(x)
                        /\ HasParts(x)' = HasParts(x)
    BY DEF IInv, TypeOK, EnabledUnder, VecsUnder, HasParts
  <1>5. AllInOrder'
    <2> SUFFICES ASSUME NEW x \in objs, ~rebuild_'[x], ~gen'[x].changed
                 PROVE  InOrder(gen'[x], x)
      BY <1>4 DEF AllInOrder, InOrder
    <2>1. CASE x = o
      BY <1>2, <2>1
    <2>2. CASE x # o
      BY <1>2, <1>4, <2>2 DEF IInv, AllInOrder
    <2> QED BY <2>1, <2>2
  <1>6. ChangeIsAnnounced'
    BY <1>2, <1>4 DEF IInv, ChangeIsAnnounced
  <1> QED BY <1>1, <1>3, <1>5, <1>6 DEF IInv

LEMMA RandomizeStep ==
    ASSUME IInv, NEW o \in Obj,
           NextValues(o) \/ NextCovNew(o) \/ NextCovDone(o)
    PROVE  /\ IInv'
           /\ last' = [obj |-> o, constraints |-> EnabledUnder(o), vectors |-> VecsUnder(o)]
  <1> DEFINE r == Refreshed(o)
  <1>1. o \in objs
    BY DEF NextValues, NextCovNew, NextCovDone
  <1>2. r \in GeneratorType /\ ~r.changed /\ InOrder(r, o)
    BY <1>1, RefreshedIsUpToDate
  <1> HIDE DEF r
  <1>3. PICK g \in {r, SetCovered(r)} : /\ gen' = [gen EXCEPT ![o] = g]
                                       /\ gen'[o] = g
    <2>1. IfChanged(SetCovered(r), o) = SetCovered(r)
      BY <1>2, SetCoveredResult DEF IfChanged
    <2> QED BY <1>1, <2>1 DEF NextValues, NextCovNew, NextCovDone, r, IInv, TypeOK
  <1>4. g \in GeneratorType /\ ~g.changed /\ InOrder(g, o)
    BY <1>2, <1>3, SetCoveredResult
  <1>5. last' = [obj |-> o, constraints |-> EnabledUnder(o), vectors |-> VecsUnder(o)]
    BY <1>2, <1>3, <1>4 DEF NextValues, NextCovNew, NextCovDone, r, InOrder
  <1>6. last' \in [obj : Obj \union {NoObj}, constraints : SUBSET Constraint,
                   vectors : SUBSET Vec]
    BY <1>5 DEF EnabledUnder, VecsUnder, IInv, TypeOK
  <1>7. /\ rebuild_' \in [Obj -> BOOLEAN]
        /\ \A x \in Obj : x # o => rebuild_'[x] = rebuild_[x]
        /\ UNCHANGED <<objs, declared, enabled>>
    BY DEF NextValues, NextCovNew, NextCovDone, IInv, TypeOK
  <1>8. IInv'
    BY <1>1, <1>3, <1>4, <1>6, <1>7, GeneratorStep
  <1> QED BY <1>5, <1>8

LEMMA OtherGeneratorStep ==
    ASSUME IInv, NEW o \in Obj,
           GeneratorResetCoverage(o) \/ (RebuildAlone(o) /\ EnableMultithreading(o))
    PROVE  IInv'
  <1>1. /\ o \in objs /\ UNCHANGED <<objs, declared, enabled, rebuild_, last>>
        /\ gen[o] \in GeneratorType
        /\ rebuild_' \in [Obj -> BOOLEAN]
        /\ last' \in [obj : Obj \union {NoObj}, constraints : SUBSET Constraint,
                      vectors : SUBSET Vec]
    BY DEF GeneratorResetCoverage, EnableMultithreading, IInv, TypeOK
  <1>2. CASE GeneratorResetCoverage(o)
    <2> DEFINE g == ResetCoverage(gen[o])
    <2>1. /\ g \in GeneratorType /\ g.changed = gen[o].changed
          /\ InOrder(gen[o], o) => InOrder(g, o)
      BY <1>1, ResetCoverageResult
    <2>2. gen' = [gen EXCEPT ![o] = g]
      BY <1>2 DEF GeneratorResetCoverage
    <2> HIDE DEF g
    <2>3. ~rebuild_'[o] /\ ~g.changed => InOrder(g, o)
      BY <1>1, <2>1 DEF IInv, AllInOrder
    <2>4. g.changed /\ HasParts(o) => rebuild_'[o]
      BY <1>1, <2>1 DEF IInv, ChangeIsAnnounced
    <2> QED BY <1>1, <2>1, <2>2, <2>3, <2>4, GeneratorStep
  <1>3. CASE RebuildAlone(o) /\ EnableMultithreading(o)
    <2> DEFINE g == RebuildSelf(gen[o], o)
    <2>1. g = [changed |-> FALSE, pttn |-> enabled \intersect Own(o), vec_ids |-> {},
               var_gen |-> enabled \intersect Own(o),
               cov_gen |-> enabled \intersect Own(o), covered |-> FALSE]
      BY <1>1, RebuildSelfResult
    <2>2. gen' = [gen EXCEPT ![o] = g]
      BY <1>3 DEF EnableMultithreading
    <2> HIDE DEF g
    <2>3. g \in GeneratorType
      BY <2>1 DEF GeneratorType, IInv, TypeOK
    <2>4. ASSUME ~rebuild_'[o] PROVE InOrder(g, o)
      <3>1. ~HasParts(o)
        BY <1>1, <1>3, <2>4 DEF RebuildAlone, Standalone, HasParts, IInv, TypeOK
      <3>2. Subtree(o) \intersect objs = {o}
        BY <1>1, <3>1, NothingBelow DEF IInv, TypeOK
      <3>3. enabled \intersect Own(o) = EnabledUnder(o) /\ VecsUnder(o) = {}
        BY <1>1, <3>1, <3>2 DEF Own, EnabledUnder, VecsUnder, HasParts, IInv, TypeOK
      <3> QED BY <2>1, <3>3 DEF InOrder
    <2> QED BY <1>1, <2>1, <2>2, <2>3, <2>4, GeneratorStep
  <1> QED BY <1>2, <1>3

(***************************************************************************)
(* A call that switches constraints of one object on or off.               *)
(***************************************************************************)
LEMMA SwitchStep ==
    ASSUME IInv, NEW o \in objs, NEW b \in BOOLEAN,
           gen' = [gen EXCEPT ![o] = SetChanged(gen[o], b)],
           rebuild_' \in [Obj -> BOOLEAN],
           \A x \in Obj : rebuild_[x] => rebuild_'[x],
           UNCHANGED <<objs, last>>,
           declared \subseteq declared', enabled' \subseteq declared',
           declared' \subseteq Constraint,
           \A c \in declared' : c \notin declared => Owner[c] = o,
           \A c \in Constraint : Owner[c] # o => (c \in enabled' <=> c \in enabled),
           gen[o].changed => b,
           enabled' # enabled => b /\ \A x \in AncestorsOrSelf(o) : x = o \/ rebuild_'[x],
           b /\ HasParts(o) => rebuild_'[o]
    PROVE  IInv'
  <1> DEFINE g == SetChanged(gen[o], b)
  <1>1. /\ o \in Obj /\ g \in GeneratorType /\ g.changed = b
        /\ gen[o] \in GeneratorType /\ (InOrder(gen[o], o) => InOrder(g, o))
    BY SetChangedResult DEF IInv, TypeOK
  <1>2. gen'[o] = g /\ \A x \in Obj : x # o => gen'[x] = gen[x]
    BY <1>1 DEF IInv, TypeOK
  <1> HIDE DEF g
  <1>3. gen' \in [Obj -> GeneratorType]
    BY <1>1 DEF g, IInv, TypeOK
  <1>4. TypeOK' /\ ObjsClosed' /\ DeclaredOwned' /\ Untouched'
    <2>1. TypeOK'
      BY <1>3 DEF IInv, TypeOK
    <2>2. DeclaredOwned'
      BY DEF IInv, DeclaredOwned
    <2> QED BY <1>2, <2>1, <2>2 DEF IInv, ObjsClosed, Untouched
  <1>5. \A x \in objs : VecsUnder(x)' = VecsUnder(x) /\ HasParts(x)' = HasParts(x)
    BY DEF VecsUnder, HasParts
  <1>6. ASSUME NEW x \in objs, x # o, ~rebuild_'[x]
        PROVE  EnabledUnder(x)' = EnabledUnder(x)
    <2>1. CASE enabled' = enabled
      BY <2>1 DEF EnabledUnder
    <2>2. CASE enabled' # enabled
      <3>1. o \notin Subtree(x)
        BY <1>6, <2>2 DEF Subtree
      <3>2. \A c \in Constraint : Owner[c] \in Subtree(x) \intersect objs =>
                (c \in enabled' <=> c \in enabled)
        BY <3>1
      <3> QED BY <3>2, <1>4 DEF EnabledUnder, IInv, TypeOK
    <2> QED BY <2>1, <2>2
  <1>7. AllInOrder'
    <2> SUFFICES ASSUME NEW x \in objs, ~rebuild_'[x], ~gen'[x].changed
                 PROVE  InOrder(gen[x], x)'
      BY DEF AllInOrder
    <2>0. x \in Obj /\ ~rebuild_[x]
      BY DEF IInv, TypeOK
    <2>1. CASE x = o
      <3>1. enabled' = enabled /\ ~gen[o].changed
        BY <1>1, <1>2, <2>1
      <3>2. EnabledUnder(o)' = EnabledUnder(o)
        BY <3>1 DEF EnabledUnder
      <3>3. InOrder(g, o)
        BY <1>1, <2>0, <2>1, <3>1 DEF IInv, AllInOrder
      <3> QED BY <1>2, <1>5, <2>1, <3>2, <3>3 DEF InOrder
    <2>2. CASE x # o
      <3>1. InOrder(gen[x], x) /\ gen'[x] = gen[x]
        BY <1>2, <2>0, <2>2 DEF IInv, AllInOrder
      <3> QED BY <1>5, <1>6, <2>2, <3>1 DEF InOrder
    <2> QED BY <2>1, <2>2
  <1>8. ChangeIsAnnounced'
    <2> SUFFICES ASSUME NEW x \in objs, gen'[x].changed, HasParts(x) PROVE rebuild_'[x]
      BY <1>5 DEF ChangeIsAnnounced
    <2>1. CASE x = o
      BY <1>1, <1>2, <2>1
    <2>2. CASE x # o
      BY <1>2, <2>2 DEF IInv, ChangeIsAnnounced, TypeOK
    <2> QED BY <2>1, <2>2
  <1> QED BY <1>4, <1>7, <1>8 DEF IInv

LEMMA EnableStep ==
    ASSUME IInv, NEW o \in Obj, NEW c \in Constraint,
           EnableConstraint(o, c) \/ DisableConstraint(o, c)
    PROVE  IInv'
  <1>1. o \in objs /\ UNCHANGED <<objs, declared, last>>
    BY DEF EnableConstraint, DisableConstraint
  <1>2. PICK b \in BOOLEAN :
          /\ gen' = [gen EXCEPT ![o] = SetChanged(gen[o], b)]
          /\ rebuild_' = IF b THEN RequestRebuild(rebuild_, o) ELSE rebuild_
          /\ gen[o].changed => b
          /\ enabled' # enabled => b
    <2>1. CASE EnableConstraint(o, c)
      <3> DEFINE b == gen[o].changed \/ EnableNamed(o, c) # enabled
      <3>1. b \in BOOLEAN
        OBVIOUS
      <3>2. /\ gen' = [gen EXCEPT ![o] = SetChanged(gen[o], b)]
            /\ rebuild_' = IF b THEN RequestRebuild(rebuild_, o) ELSE rebuild_
            /\ enabled' # enabled => b
        BY <2>1 DEF EnableConstraint
      <3> QED BY <3>1, <3>2
    <2>2. CASE DisableConstraint(o, c)
      <3> DEFINE b == gen[o].changed \/ DisableNamed(o, c) # enabled
      <3>1. b \in BOOLEAN
        OBVIOUS
      <3>2. /\ gen' = [gen EXCEPT ![o] = SetChanged(gen[o], b)]
            /\ rebuild_' = IF b THEN RequestRebuild(rebuild_, o) ELSE rebuild_
            /\ enabled' # enabled => b
        BY <2>2 DEF DisableConstraint
      <3> QED BY <3>1, <3>2
    <2> QED BY <2>1, <2>2
  <1>3. /\ enabled' \subseteq declared
        /\ \A d \in Constraint : Owner[d] # o => (d \in enabled' <=> d \in enabled)
    BY DEF EnableConstraint, DisableConstraint, EnableNamed, DisableNamed, Own, IInv, TypeOK
  <1>4. /\ rebuild_' \in [Obj -> BOOLEAN]
        /\ \A x \in Obj : rebuild_[x] => rebuild_'[x]
        /\ b => \A x \in AncestorsOrSelf(o) : rebuild_'[x]
    BY <1>2, RequestRebuildType DEF IInv, TypeOK
  <1>5. b => rebuild_'[o]
    BY <1>4, SelfIsAncestor
  <1>6. declared \subseteq Constraint
    BY DEF IInv, TypeOK
  <1> QED BY <1>1, <1>2, <1>3, <1>4, <1>5, <1>6, SwitchStep

LEMMA StandaloneStep ==
    ASSUME IInv, NEW c \in Constraint,
           \/ MakeConstraint(c)
           \/ Standalone(Owner[c]) /\ \E on \in BOOLEAN : GeneratorSetEnabled(c, on)
    PROVE  IInv'
  <1> DEFINE o == Owner[c]
  <1>1. Standalone(o) /\ o \in objs /\ o \in Obj
    BY LateAssumption DEF MakeConstraint, GeneratorSetEnabled, IInv, DeclaredOwned, TypeOK
  <1>2. /\ gen' = [gen EXCEPT ![o] = SetChanged(gen[o], TRUE)]
        /\ UNCHANGED <<objs, rebuild_, last>>
        /\ declared \subseteq declared' /\ declared' \subseteq declared \union {c}
        /\ enabled' \subseteq declared'
    BY DEF MakeConstraint, GeneratorSetEnabled, IInv, TypeOK
  <1>3. \A d \in Constraint : Owner[d] # o => (d \in enabled' <=> d \in enabled)
    BY DEF MakeConstraint, GeneratorSetEnabled
  <1>4. AncestorsOrSelf(o) = {o}
    BY <1>1, AncestorsOfRoot DEF Standalone
  <1>5. ~HasParts(o)
    BY <1>1 DEF Standalone, HasParts, IInv, TypeOK
  <1>6. rebuild_' \in [Obj -> BOOLEAN] /\ declared' \subseteq Constraint
    BY <1>2 DEF IInv, TypeOK
  <1> HIDE DEF o
  <1>7. \A d \in declared' : d \notin declared => Owner[d] = o
    BY <1>2 DEF o
  <1> QED BY <1>1, <1>2, <1>3, <1>4, <1>5, <1>6, <1>7, SwitchStep

LEMMA ConstructStep ==
    ASSUME IInv, NEW o \in Obj, Construct(o)
    PROVE  IInv'
  <1> DEFINE new == {c \in Constraint \ Late : Owner[c] = o}
             hasVec == \E v \in Vec : VecOwner[v] = o
             b == new # {}
             g == SetChanged(NewGenerator, b)
  <1>1. /\ o \notin objs /\ (Parent[o] # NoObj => Parent[o] \in objs)
        /\ objs' = objs \union {o} /\ last' = last
        /\ declared' = declared \union new /\ enabled' = enabled \union new
        /\ gen' = [gen EXCEPT ![o] = SetChanged(gen[o], b)]
    BY DEF Construct
  <1>2. /\ NewGenerator \in GeneratorType /\ g \in GeneratorType /\ g.changed = b
        /\ g.pttn = {} /\ g.var_gen = {} /\ g.cov_gen = {} /\ g.vec_ids = {}
    BY DEF NewGenerator, GeneratorType, SetChanged
  <1>3. gen' = [gen EXCEPT ![o] = g]
    BY <1>1 DEF IInv, Untouched
  <1>r. /\ rebuild_' \in [Obj -> BOOLEAN]
        /\ \A x \in Obj : rebuild_[x] => rebuild_'[x]
        /\ Parent[o] # NoObj => \A x \in AncestorsOrSelf(Parent[o]) : rebuild_'[x]
        /\ hasVec => \A x \in AncestorsOrSelf(o) : rebuild_'[x]
    <2> DEFINE via == IF Parent[o] # NoObj THEN RequestRebuild(rebuild_, Parent[o])
                      ELSE rebuild_
    <2>1. rebuild_' = IF hasVec THEN RequestRebuild(via, o) ELSE via
      BY DEF Construct
    <2>2. /\ via \in [Obj -> BOOLEAN] /\ \A x \in Obj : rebuild_[x] => via[x]
          /\ Parent[o] # NoObj => \A x \in AncestorsOrSelf(Parent[o]) : x \in Obj /\ via[x]
      <3>1. Parent[o] # NoObj => Parent[o] \in Obj
        BY ShapeAssumption
      <3> QED BY <3>1, RequestRebuildType DEF IInv, TypeOK
    <2> HIDE DEF via, hasVec
    <2> QED BY <2>1, <2>2, RequestRebuildType
  <1> HIDE DEF new, b, g
  <1>n. \A c \in new : c \in Constraint /\ Owner[c] = o
    BY DEF new
  <1>4. TypeOK'
    <2>1. gen' \in [Obj -> GeneratorType]
      BY <1>2, <1>3 DEF IInv, TypeOK
    <2> QED BY <1>1, <1>r, <1>n, <2>1 DEF IInv, TypeOK
  <1>5. ObjsClosed'
    BY <1>1 DEF IInv, ObjsClosed, Closed
  <1>6. DeclaredOwned'
    BY <1>1, <1>n DEF IInv, DeclaredOwned
  <1>7. gen'[o] = g /\ \A x \in Obj : x # o => gen'[x] = gen[x]
    BY <1>3 DEF IInv, TypeOK
  <1>8. Untouched'
    BY <1>1, <1>7 DEF IInv, Untouched
  (* Nothing below the new object exists yet.                              *)
  <1>9. Subtree(o) \intersect objs = {} /\ (~HasParts(o)' \/ hasVec)
    <2>1. ASSUME NEW x \in Subtree(o) \intersect objs PROVE FALSE
      <3>1. AncestorsOrSelf(x) \subseteq objs
        BY <2>1, ClosedContainsAncestors DEF IInv, ObjsClosed, TypeOK
      <3> QED BY <1>1, <3>1 DEF Subtree
    <2>2. ASSUME NEW x \in objs', Parent[x] = o PROVE FALSE
      <3>1. o # NoObj
        BY ShapeAssumption
      <3>2. CASE x = o
        BY <1>1, <2>2, <3>1, <3>2
      <3>3. CASE x \in objs
        BY <1>1, <2>2, <3>1, <3>3 DEF IInv, ObjsClosed, Closed
      <3> QED BY <1>1, <2>2, <3>2, <3>3
    <2> QED BY <2>1, <2>2 DEF HasParts
  <1>10. ASSUME NEW x \in objs, ~rebuild_'[x]
         PROVE  EnabledUnder(x)' = EnabledUnder(x) /\ VecsUnder(x)' = VecsUnder(x)
    <2>1. x # o /\ x \in Obj
      BY <1>1 DEF IInv, TypeOK
    <2>2. o \notin Subtree(x)
      <3> SUFFICES ASSUME x \in AncestorsOrSelf(o) PROVE FALSE
        BY DEF Subtree
      <3>1. CASE Parent[o] = NoObj
        BY <2>1, <3>1, AncestorsOfRoot
      <3>2. CASE Parent[o] # NoObj
        BY <1>r, <1>10, <2>1, <3>2, AncestorsOfChild
      <3> QED BY <3>1, <3>2
    <2>3. Subtree(x) \intersect objs' = Subtree(x) \intersect objs
      BY <1>1, <2>2
    <2>4. \A c \in new : Owner[c] \notin Subtree(x)
      BY <1>n, <2>2
    <2> QED BY <1>1, <2>3, <2>4 DEF EnabledUnder, VecsUnder
  <1>11. AllInOrder'
    <2> SUFFICES ASSUME NEW x \in objs', ~rebuild_'[x], ~gen'[x].changed
                 PROVE  InOrder(gen[x], x)'
      BY DEF AllInOrder
    <2>1. CASE x = o
      <3>1. ~hasVec /\ new = {}
        BY <1>2, <1>7, <1>r, <2>1, SelfIsAncestor DEF b
      <3>2. Subtree(o) \intersect objs' = {o}
        BY <1>1, <1>9, <3>1, SelfIsAncestor
      <3>3. VecsUnder(o)' = {}
        BY <3>1, <3>2 DEF VecsUnder
      <3>4. EnabledUnder(o)' = {}
        BY <1>1, <3>1, <3>2 DEF EnabledUnder, IInv, TypeOK, DeclaredOwned
      <3> QED BY <1>2, <1>7, <2>1, <3>3, <3>4 DEF InOrder
    <2>2. CASE x # o
      <3>1. x \in objs /\ x \in Obj /\ ~rebuild_[x] /\ gen'[x] = gen[x]
        BY <1>1, <1>7, <1>r, <2>2 DEF IInv, TypeOK
      <3>2. InOrder(gen[x], x)
        BY <3>1 DEF IInv, AllInOrder
      <3> QED BY <1>10, <3>1, <3>2 DEF InOrder
    <2> QED BY <2>1, <2>2
  <1>12. ChangeIsAnnounced'
    <2> SUFFICES ASSUME NEW x \in objs', gen'[x].changed, HasParts(x)' PROVE rebuild_'[x]
      BY DEF ChangeIsAnnounced
    <2>1. CASE x = o
      BY <1>9, <1>r, <2>1, SelfIsAncestor
    <2>2. CASE x # o
      <3>1. x \in objs /\ x \in Obj /\ gen'[x] = gen[x]
        BY <1>1, <1>7, <2>2 DEF IInv, TypeOK
      <3>2. CASE Parent[o] = x
        BY <1>r, <3>1, <3>2, ShapeAssumption, SelfIsAncestor
      <3>3. CASE Parent[o] # x
        <4>1. HasParts(x)
          BY <1>1, <3>3 DEF HasParts
        <4> QED BY <1>r, <3>1, <4>1 DEF IInv, ChangeIsAnnounced
      <3> QED BY <3>2, <3>3
    <2> QED BY <2>1, <2>2
  <1> QED BY <1>4, <1>5, <1>6, <1>8, <1>11, <1>12 DEF IInv

LEMMA NextIInv == IInv /\ [Next]_vars => IInv'
  <1> SUFFICES ASSUME IInv, [Next]_vars PROVE IInv'
    OBVIOUS
  <1>1. CASE UNCHANGED vars
    BY <1>1 DEF vars, IInv, TypeOK, ObjsClosed, DeclaredOwned, Untouched, AllInOrder,
                ChangeIsAnnounced, InOrder, HasParts, EnabledUnder, VecsUnder
  <1>2. ASSUME NEW o \in Obj, ObjectStep(o) PROVE IInv'
    <2>1. CASE Construct(o) BY <2>1, ConstructStep
    <2>2. ASSUME NEW c \in Constraint, EnableConstraint(o, c) \/ DisableConstraint(o, c)
          PROVE  IInv'
      BY <2>2, EnableStep
    <2>3. CASE RebuildAlone(o) /\ EnableMultithreading(o) BY <2>3, OtherGeneratorStep
    <2>4. CASE GeneratorResetCoverage(o) BY <2>4, OtherGeneratorStep
    <2>5. CASE NextValues(o) \/ NextCovNew(o) \/ NextCovDone(o) BY <2>5, RandomizeStep
    <2> QED BY <1>2, <2>1, <2>2, <2>3, <2>4, <2>5 DEF ObjectStep
  <1>3. ASSUME NEW c \in Constraint, MakeConstraint(c) PROVE IInv'
    BY <1>3, StandaloneStep
  <1>4. ASSUME NEW c \in Constraint, Standalone(Owner[c]),
               NEW on \in BOOLEAN, GeneratorSetEnabled(c, on)
        PROVE  IInv'
    BY <1>4, StandaloneStep
  <1> QED BY <1>1, <1>2, <1>3, <1>4 DEF Next

LEMMA IInvAlways == Spec => []IInv
  BY InitIInv, NextIInv, PTL DEF Spec

(* The flags, generators and the object tree stay well formed.             *)
THEOREM TypeCorrect == Spec => []TypeOK
  <1>1. IInv => TypeOK
    BY DEF IInv
  <1> QED BY <1>1, IInvAlways, PTL

(* An object without a raised flag has solvers that match the constraints  *)
(* enabled below it.                                                       *)
THEOREM UpToDateAlways == Spec => []UpToDate
  <1>1. IInv => UpToDate
    BY DEF IInv, AllInOrder, InOrder, UpToDate
  <1> QED BY <1>1, IInvAlways, PTL

(* A composite object never loses its children to a rebuild of its own     *)
(* generator.                                                              *)
THEOREM ChangeIsAnnouncedAlways == Spec => []ChangeIsAnnounced
  <1>1. IInv => ChangeIsAnnounced
    BY DEF IInv
  <1> QED BY <1>1, IInvAlways, PTL

(***************************************************************************)
(* The refinement.                                                         *)
(***************************************************************************)

(* The two definitions of what is below an object agree.                   *)
LEMMA SameUnder ==
    ASSUME IInv, NEW o \in Obj
    PROVE  Abstract!EnabledUnder(o) = EnabledUnder(o) /\ Abstract!VecsUnder(o) = VecsUnder(o)
  <1>1. Abstract!Subtree(o) = Subtree(o)
    BY DEF Abstract!Subtree, Subtree, Abstract!AncestorsOrSelf, AncestorsOrSelf,
           Abstract!Ancestors, Ancestors, Abstract!Closed, Closed
  <1> QED BY <1>1 DEF Abstract!EnabledUnder, Abstract!VecsUnder, EnabledUnder,
                      VecsUnder, IInv, TypeOK, DeclaredOwned

LEMMA StepRefines == IInv /\ [Next]_vars => [Abstract!Next]_(Abstract!absvars)
  <1> SUFFICES ASSUME IInv, [Next]_vars, ~UNCHANGED <<objs, declared, enabled, last>>
               PROVE  Abstract!Next
    BY DEF Abstract!absvars
  <1>1. ~UNCHANGED vars
    BY DEF vars
  <1>2. ASSUME NEW o \in Obj, Construct(o) PROVE Abstract!Next
    <2>1. Abstract!Construct(o)
      BY <1>2 DEF Construct, Abstract!Construct
    <2> QED BY <2>1 DEF Abstract!Next
  <1>3. ASSUME NEW o \in Obj, NEW c \in Constraint, EnableConstraint(o, c)
        PROVE  Abstract!Next
    <2>1. Abstract!SetEnabled(c, TRUE)
      BY <1>3 DEF EnableConstraint, EnableNamed, Own, Abstract!SetEnabled
    <2> QED BY <2>1 DEF Abstract!Next
  <1>4. ASSUME NEW o \in Obj, NEW c \in Constraint, DisableConstraint(o, c)
        PROVE  Abstract!Next
    <2>1. Abstract!SetEnabled(c, FALSE)
      BY <1>4 DEF DisableConstraint, DisableNamed, Own, Abstract!SetEnabled
    <2> QED BY <2>1 DEF Abstract!Next
  <1>5. ASSUME NEW o \in Obj, EnableMultithreading(o) \/ GeneratorResetCoverage(o)
        PROVE  FALSE
    BY <1>5 DEF EnableMultithreading, GeneratorResetCoverage
  <1>6. ASSUME NEW o \in Obj, NextValues(o) \/ NextCovNew(o) \/ NextCovDone(o)
        PROVE  Abstract!Next
    <2>1. last' = [obj |-> o, constraints |-> EnabledUnder(o), vectors |-> VecsUnder(o)]
      BY <1>6, RandomizeStep
    <2>2. o \in objs /\ UNCHANGED <<objs, declared, enabled>>
      BY <1>6 DEF NextValues, NextCovNew, NextCovDone
    <2>3. Abstract!Randomize(o)
      BY <2>1, <2>2, SameUnder DEF Abstract!Randomize
    <2> QED BY <2>3 DEF Abstract!Next
  <1>7. ASSUME NEW c \in Constraint, MakeConstraint(c) PROVE Abstract!Next
    <2>1. Abstract!Declare(c)
      BY <1>7 DEF MakeConstraint, Abstract!Declare
    <2> QED BY <2>1 DEF Abstract!Next
  <1>8. ASSUME NEW c \in Constraint, NEW on \in BOOLEAN, GeneratorSetEnabled(c, on)
        PROVE  Abstract!Next
    <2>1. Abstract!SetEnabled(c, on)
      BY <1>8 DEF GeneratorSetEnabled, Abstract!SetEnabled
    <2> QED BY <2>1 DEF Abstract!Next
  <1> QED BY <1>1, <1>2, <1>3, <1>4, <1>5, <1>6, <1>7, <1>8 DEF Next, ObjectStep

(* Whatever sequence of constructor calls, declarations, switches and      *)
(* randomizations a program makes, each randomization of an object uses    *)
(* exactly the constraints that are enabled in it and below it then.       *)
THEOREM Implementation == Spec => ImplementsAbstract
  <1>1. Init => Abstract!Init
    BY DEF Init, Abstract!Init, Abstract!NoRandomization
  <1> QED BY <1>1, StepRefines, IInvAlways, PTL
      DEF Spec, ImplementsAbstract, Abstract!Spec
==============================================================================
