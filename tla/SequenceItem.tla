---------------------------- MODULE SequenceItem ----------------------------
(***************************************************************************)
(* Sequence items of the experimental interface: objects whose member      *)
(* variables are randomized under their member constraints, those of       *)
(* nested objects included.  An item collects the constraints into a       *)
(* generator when it is first randomized and keeps it until something      *)
(* below it requests a rebuild.  Every variable has a default constraint   *)
(* that distributes it uniformly; crosscheck_constraints deactivates it    *)
(* when the user distributes the variable.  Solving is not modelled here:  *)
(* a generator is the set of constraints it is built of.                   *)
(***************************************************************************)
EXTENDS ObjectHierarchy, Distribution

CONSTANTS
    Declared,    \* the classes and names of the objects the user declares
    NewList,     \* what the user may assign to a constraint or pass on
    MaxList,     \* bound: the length of a constraint's list
    MaxDists,    \* bound: the number of distributions registered
    MaxCopies,   \* bound: the number of copies destroyed
    CopiedKinds  \* bound: the kinds of objects copied

ASSUME DeclaredAssumption == \A d \in Declared : d.class \in DOMAIN Class
ASSUME TextsAssumption ==
    \A texts \in NewList \union {Class[n].texts : n \in DOMAIN Class} : texts \in Seq(ToSet(texts))

VARIABLES
    dist_ref_to_var_map,   \* global, and it only grows: every dist() ever made
    copies,                \* the number of copies made and destroyed
    error                  \* the exception of the last call, or "none"

vars == <<hierarchyVars, dist_ref_to_var_map, copies, error>>

IsConstraint(o) == Kind(o) \in {"hard", "soft"}
Items == {o \in Live : Kind(o) = "item"}
Constraints == {o \in Live : IsConstraint(o)}
Idle == crv_obj_stack = <<>>

(***************************************************************************)
(* Expressions.  The text of one names its variable by the path from the   *)
(* constraint's parent; evaluating a dist() or inside() makes a new        *)
(* auxiliary variable and registers it.                                    *)
(***************************************************************************)
HasChild(o, n) == \E c \in ToSet(objs[o].children) : objs[c].orig = n
Child(o, n) == CHOOSE c \in ToSet(objs[o].children) : objs[c].orig = n

Lookup(o, path) ==
    IF path = <<>> THEN o
    ELSE IF Len(path) = 1 THEN Child(o, path[1])
    ELSE Child(Child(o, path[1]), path[2])

Resolves(o, text) ==
    \/ text.var = <<>>
    \/ /\ HasChild(o, text.var[1])
       /\ Len(text.var) = 2 => HasChild(Child(o, text.var[1]), text.var[2])

Distributes(text) == text.kind \in {"dist", "inside"}

DistTexts(texts) == {i \in DOMAIN texts : Distributes(texts[i])}

(* The auxiliary variable of the i-th expression of a list: its number is  *)
(* greater than those of all earlier ones.                                 *)
AuxId(texts, i) == Max(DOMAIN dist_ref_to_var_map \union {0}) + i

Evaluated(texts) ==
    [i \in DOMAIN texts |-> [text |-> texts[i],
                             id |-> IF Distributes(texts[i]) THEN AuxId(texts, i) ELSE 0]]

DistributionOf(text) ==
    IF text.kind = "inside" THEN InsideDistribution(text.ranges) ELSE MakeDistribution(text.ranges)

(* Context: dist() and inside() of a variable, in the scope of object o.   *)
Registered(texts, o) ==
    LET new == {AuxId(texts, i) : i \in DistTexts(texts)} IN
    [d \in DOMAIN dist_ref_to_var_map \union new |->
        IF d \in new
        THEN LET i == CHOOSE j \in DistTexts(texts) : AuxId(texts, j) = d IN
             [var |-> Lookup(o, texts[i].var), ranges |-> DistributionOf(texts[i])]
        ELSE dist_ref_to_var_map[d]]

Room(texts) ==
    Cardinality(DOMAIN dist_ref_to_var_map) + Cardinality(DistTexts(texts)) <= MaxDists

Overlapping(texts) == \E i \in DistTexts(texts) : ~ Accepted(texts[i].ranges)

(* The constructors do not throw, and weights add up to less than 2^64.    *)
ASSUME DistributionsAssumption ==
    /\ \A n \in DOMAIN Class : ~ Overlapping(Class[n].texts)
    /\ \A texts \in NewList \union {Class[n].texts : n \in DOMAIN Class} :
          \A i \in DistTexts(texts) :
              /\ texts[i].ranges \in Seq(GivenRange)
              /\ Fits(DistributionOf(texts[i]))

-----------------------------------------------------------------------------
ForgetGenerator(os, items) ==
    [q \in DOMAIN os |-> IF q \in items
                         THEN [os[q] EXCEPT !.built = FALSE, !.gen = {}, !.null = TRUE,
                                              !.goal = FALSE]
                         ELSE os[q]]

RequestRebuildNearest(os, C) ==
    LET around(c) == {i \in Ancestors(c) \intersect Items : i # c}
        nearest(c) == {i \in around(c) : \A j \in around(c) : i \notin Ancestors(j) \ {j}} IN
    ForgetGenerator(os, UNION {nearest(c) : c \in C})

(* request_rebuild of some constraints: every item from one of them to the *)
(* root forgets its generator.                                             *)
RequestRebuild(os, C) ==
    ForgetGenerator(os, Items \intersect UNION {Ancestors(c) : c \in C})

(* activate() or deactivate() of some constraints.                         *)
SetActive(os, C, b) ==
    LET changed == {c \in C : os[c].active # b} IN
    RequestRebuild([q \in DOMAIN os |-> IF q \in changed THEN [os[q] EXCEPT !.active = b]
                                        ELSE os[q]], changed)

(* recursive_build: the expressions of the active constraints below an     *)
(* object, named by the full name of their constraint and their position.  *)
Build(os, o) ==
    UNION {{[name |-> <<os[c].full, i>>, of |-> c, expr |-> os[c].list[i],
             soft |-> os[c].class.kind = "soft"] : i \in DOMAIN os[c].list} :
              c \in {d \in Constraints \intersect Subtree(o) : os[d].active}}

NameClash(gen) == \E x, y \in gen : x # y /\ x.name = y.name

VariableChildren(o) == {c \in ToSet(objs[o].children) : Kind(c) = "variable"}

DistsOf(v) == {d \in DOMAIN dist_ref_to_var_map : dist_ref_to_var_map[d].var = v}

Default(v) == Head(objs[v].children)

NoCrosscheck(o) == objs

(* crosscheck_constraints: a member variable with two distributions loses  *)
(* the default one, its first child.                                       *)
Crosscheck(o) ==
    LET twice == {v \in VariableChildren(o) :
                     Cardinality(DistsOf(v)) > 1 /\ IsConstraint(Default(v))} IN
    SetActive(objs, {Default(v) : v \in twice}, FALSE)

-----------------------------------------------------------------------------
Init ==
    /\ HierarchyInit
    /\ dist_ref_to_var_map = [d \in {} |-> [var |-> 0, ranges |-> <<>>]]
    /\ copies = 0 /\ error = "none"

DeclareObject(d) ==
    /\ Declare(Class[d.class], d.name)
    /\ UNCHANGED <<dist_ref_to_var_map, copies, error>>

ConstructMember ==
    /\ Member
    /\ UNCHANGED <<dist_ref_to_var_map, copies, error>>

(* The body of the constructor: a constraint takes its expressions, a      *)
(* variable gives its member constraint the default ones.                  *)
EndConstruction ==
    /\ MembersDone
    /\ LET o == Last(crv_obj_stack)
           texts == objs[o].class.texts
           c == IF IsConstraint(o) THEN o ELSE Default(o) IN
       IF texts = <<>> THEN UNCHANGED <<objs, dist_ref_to_var_map>>
       ELSE /\ Room(texts)
            /\ objs' = RequestRebuild([objs EXCEPT ![c].list = Evaluated(texts)], {c})
            /\ dist_ref_to_var_map' = Registered(texts, objs[c].parent)
    /\ EndOfName
    /\ UNCHANGED <<created, crv_obj_map, copies, error>>

DestroyObject(o) ==
    /\ Destroy(o)
    /\ UNCHANGED <<dist_ref_to_var_map, copies, error>>

(* A copy is passed by value, say, and destroyed.                          *)
CopyAndDestroy(o) ==
    /\ Idle /\ copies < MaxCopies /\ Kind(o) \in CopiedKinds
    /\ DestroyCopy(o)
    /\ copies' = copies + 1
    /\ UNCHANGED <<dist_ref_to_var_map, error>>

Activate(c) ==
    /\ Idle
    /\ objs' = SetActive(objs, {c}, TRUE)
    /\ UNCHANGED <<created, crv_obj_stack, frames, crv_obj_map, dist_ref_to_var_map,
                   copies, error>>

Deactivate(c) ==
    /\ Idle
    /\ objs' = SetActive(objs, {c}, FALSE)
    /\ UNCHANGED <<created, crv_obj_stack, frames, crv_obj_map, dist_ref_to_var_map,
                   copies, error>>

(* c = {...} and c &= {...}: overlapping ranges throw before anything else. *)
Edit(c, texts, old) ==
    /\ Idle /\ Room(texts) /\ Len(old \o texts) <= MaxList
    /\ \A i \in DOMAIN texts : Resolves(objs[c].parent, texts[i])
    /\ IF Overlapping(texts)
       THEN error' = "Overlapping range exists" /\ UNCHANGED <<objs, dist_ref_to_var_map>>
       ELSE /\ objs' = RequestRebuild([objs EXCEPT ![c].list = old \o Evaluated(texts)], {c})
            /\ dist_ref_to_var_map' = Registered(texts, objs[c].parent)
            /\ error' = "none"
    /\ UNCHANGED <<created, crv_obj_stack, frames, crv_obj_map, copies>>

AssignList(c, texts) == Edit(c, texts, <<>>)

JoinList(c, texts) == Edit(c, texts, objs[c].list)

(* randomize(): the generator is built anew unless it is there.            *)
Randomize(o) ==
    /\ Idle
    /\ IF objs[o].built THEN UNCHANGED objs /\ error' = "none"
       ELSE LET os == Crosscheck(o)
                gen == Build(os, o) IN
            /\ objs' = [os EXCEPT ![o].gen = gen, ![o].null = FALSE,
                                ![o].goal = FALSE, ![o].built = ~ NameClash(gen)]
            /\ error' = IF NameClash(gen) THEN "Constraint already exists" ELSE "none"
    /\ UNCHANGED <<created, crv_obj_stack, frames, crv_obj_map, dist_ref_to_var_map,
                   copies>>

(* randomize_with(): a generator of its own, which nothing reads later,    *)
(* but what its expressions register stays.                                *)
RandomizeWith(o, texts) ==
    /\ Idle /\ Room(texts) /\ ~ Overlapping(texts)
    /\ \A i \in DOMAIN texts : Resolves(o, texts[i])
    /\ dist_ref_to_var_map' = Registered(texts, o)
    /\ error' = IF NameClash(Build(objs, o)) THEN "Constraint already exists" ELSE "none"
    /\ UNCHANGED <<hierarchyVars, copies>>

(* goal() adds to the generator; there is none before the first build.     *)
AddGoal(o) ==
    /\ Idle
    /\ IF objs[o].null THEN error' = "no generator" /\ UNCHANGED objs
       ELSE error' = "none" /\ objs' = [objs EXCEPT ![o].goal = TRUE]
    /\ UNCHANGED <<created, crv_obj_stack, frames, crv_obj_map, dist_ref_to_var_map,
                   copies>>

Next ==
    \/ \E d \in Declared : DeclareObject(d)
    \/ ConstructMember
    \/ EndConstruction
    \/ \E o \in Live : DestroyObject(o)
    \/ \E o \in Live : CopyAndDestroy(o)
    \/ \E c \in Constraints : Activate(c)
    \/ \E c \in Constraints : Deactivate(c)
    \/ \E c \in Constraints : \E texts \in NewList : AssignList(c, texts)
    \/ \E c \in Constraints : \E texts \in NewList : JoinList(c, texts)
    \/ \E o \in Items : Randomize(o)
    \/ \E o \in Items : \E texts \in NewList : RandomizeWith(o, texts)
    \/ \E o \in Items : AddGoal(o)

Spec == Init /\ [][Next]_vars

-----------------------------------------------------------------------------

(* Names and parents stay right while objects, and copies of them, come    *)
(* and go in any order: the tree is one of live objects, find() returns no *)
(* object that has been destroyed, and building a generator never meets    *)
(* two constraints of the same name, since the constructors keep apart     *)
(* members declared with the same or the default name (crv_object(),       *)
(* ~crv_object(), remove_child, ConstraintManager::makeConstraint).        *)
HierarchySound ==
    /\ TreeSound /\ FindSound
    /\ error # "Constraint already exists"

(* An item that will not rebuild solves exactly the constraints that are   *)
(* active below it now, with the expressions they list now: no sequence of *)
(* activations, assignments and draws on it, on an item around it or on    *)
(* one inside it leaves a stale generator (request_rebuild, randomize).    *)
BuiltIsCurrent == \A o \in Items : objs[o].built => objs[o].gen = Build(objs, o)

(* A member variable that the user distributes is drawn from the user's    *)
(* distribution alone: the default one is not in a generator with it       *)
(* (crosscheck_constraints), whenever the user's came and went.            *)
UserDistributionAlone ==
    \A o \in Items : objs[o].built =>
        \A v \in VariableChildren(o) :
            LET on == {x \in objs[o].gen : x.expr.id # 0 /\ dist_ref_to_var_map[x.expr.id].var = v} IN
            (\E x \in on : x.of # Default(v)) => \A x \in on : x.of # Default(v)

(* The random number picks each range as often as its weight says, a       *)
(* range of weight 0 never (nextValue against the accumulated weights);    *)
(* what is drawn satisfies the ranges that dist() asserts; and ranges that *)
(* start apart do not overlap, so that no value has the weights of two     *)
(* (addRange, overlap).                                                    *)
DrawsExact ==
    \A d \in DOMAIN dist_ref_to_var_map :
        LET rs == dist_ref_to_var_map[d].ranges IN
        /\ Len(rs) > 1 /\ Last(rs).accum > 0 =>
              \A i \in DOMAIN rs :
                  Cardinality({r \in RandomNumbers(rs) : Selected(rs, r) = i}) = rs[i].weight
        /\ \A x \in NextValue(rs) : InRanges(rs, x)
        /\ \A i, j \in DOMAIN rs : rs[i].left # rs[j].left =>
              (rs[i].left..rs[i].right) \intersect (rs[j].left..rs[j].right) = {}
=============================================================================
