--------------------------- MODULE ObjectHierarchy ---------------------------
(***************************************************************************)
(* crv_object: objects that learn their name and parent from two global    *)
(* stacks while their constructors run.  A crv_object_name, made for the   *)
(* constructor's argument, is pushed on the name stack; the constructor of *)
(* crv_object takes it from there and pushes the object; the destructor of *)
(* the name, at the end of the declaration, pops the object.  Members are  *)
(* constructed in between and so become children.                          *)
(*                                                                         *)
(* A name is a base and a number, <<"con", -1>> for con and <<"con", 2>>   *)
(* for con2; appending a digit to con2 gives <<"con", 20>> and so on.      *)
(***************************************************************************)
EXTENDS Integers, Sequences, SequencesExt, FiniteSets, FiniteSetsExt

CONSTANTS
    Class,       \* the classes: kind, members and what a constraint lists
    MaxObjects   \* bound: the number of objects created

(* A class is defined before it is used for members, and no member is      *)
(* declared under a name with a number, such as con1: two members con get  *)
(* the names con and con1, and a third one declared as con1 that name, too.*)
ASSUME ClassAssumption ==
    \A n \in DOMAIN Class :
        /\ Class[n].kind # "root"
        /\ Class[n].members \in Seq(ToSet(Class[n].members))
        /\ \A m \in ToSet(Class[n].members) : m.class \in DOMAIN Class /\ m.name = <<m.name[1], -1>>

VARIABLES
    objs,            \* the objects alive, by address; 0 is the root
    created,         \* the number of objects created so far
    crv_obj_stack,   \* the objects under construction
    frames,          \* how many members of each of them are constructed
    crv_obj_map      \* the objects by full name

hierarchyVars == <<objs, created, crv_obj_stack, frames, crv_obj_map>>

Root0 == 0
NoParent == -1

(* above: the object and those around it, which request_rebuild() climbs   *)
(* through; no parent_ changes before its object is destroyed.             *)
Object(class, parent, above, orig, name, full) ==
    [class |-> class, parent |-> parent, above |-> above,
     orig |-> orig, name |-> name, full |-> full,
     children |-> <<>>, local_name_map |-> [n \in {} |-> 0],
     active |-> TRUE, list |-> <<>>, built |-> FALSE, gen |-> {}, null |-> TRUE,
     goal |-> FALSE]

Kind(o) == objs[o].class.kind

Plain(base) == <<base, -1>>
Numbered(name, n) == IF name[2] = -1 THEN <<name[1], n>> ELSE <<name[1], 10 * name[2] + n>>

Set(f, k, v) == [x \in DOMAIN f \union {k} |-> IF x = k THEN v ELSE f[x]]
Unset(f, k) == [x \in DOMAIN f \ {k} |-> f[x]]

NameForUnnumbered(map, orig) == orig

(* The name an object gets: the second con of a parent is con1, and so on. *)
NameFor(map, orig) == IF orig \in DOMAIN map THEN Numbered(orig, map[orig]) ELSE orig

CountName(map, orig) == Set(map, orig, IF orig \in DOMAIN map THEN map[orig] + 1 ELSE 1)

(* The parent of an object made now.                                       *)
Parent == IF crv_obj_stack = <<>> THEN Root0 ELSE Last(crv_obj_stack)

(* The constructor of crv_object.                                          *)
NewObject(class, orig) ==
    LET o == created + 1
        name == NameFor(objs[Parent].local_name_map, orig)
        full == Append([i \in DOMAIN crv_obj_stack |-> objs[crv_obj_stack[i]].name], name) IN
    /\ created < MaxObjects
    /\ created' = o
    /\ objs' = Set([objs EXCEPT ![Parent].children = Append(@, o),
                                ![Parent].local_name_map = CountName(@, orig)],
                   o, Object(class, Parent, objs[Parent].above \union {o}, orig, name, full))
    /\ crv_obj_map' = Set(crv_obj_map, full, o)
    /\ crv_obj_stack' = Append(crv_obj_stack, o)

(* An object is declared outside of any constructor.                       *)
Declare(class, orig) ==
    /\ crv_obj_stack = <<>>
    /\ NewObject(class, orig)
    /\ frames' = <<0>>

(* The next member of the object under construction.                       *)
Member ==
    /\ frames # <<>>
    /\ Last(frames) < Len(objs[Last(crv_obj_stack)].class.members)
    /\ LET m == objs[Last(crv_obj_stack)].class.members[Last(frames) + 1] IN
       NewObject(Class[m.class], m.name)
    /\ frames' = Append([frames EXCEPT ![Len(frames)] = @ + 1], 0)

(* All members are constructed: the body of the constructor may run.       *)
MembersDone ==
    /\ frames # <<>>
    /\ Last(frames) = Len(objs[Last(crv_obj_stack)].class.members)

(* The destructor of the crv_object_name.                                  *)
EndOfName ==
    /\ crv_obj_stack' = Front(crv_obj_stack)
    /\ frames' = Front(frames)

(* An object and those around it, and an object, its members, their        *)
(* members and so on.                                                      *)
Ancestors(o) == objs[o].above

Subtree(o) == {q \in DOMAIN objs : o \in Ancestors(q)}

(* remove_child.  The entry erased is that of the child's own name, not of *)
(* the name it was declared with.                                          *)
RemoveChild(p, o) ==
    LET orig == objs[o].orig
        map == Set(p.local_name_map, orig, p.local_name_map[orig] - 1)
        place == CHOOSE i \in DOMAIN p.children : p.children[i] = o IN
    [p EXCEPT !.children = RemoveAt(@, place),
              !.local_name_map = IF map[orig] = 0 THEN Unset(map, objs[o].name) ELSE map]

(* The destructor: members go with their object, each leaves the map.      *)
Destroy(o) ==
    /\ crv_obj_stack = <<>>
    /\ objs[o].parent = Root0
    /\ objs' = [q \in DOMAIN objs \ Subtree(o) |->
                   IF q = Root0 THEN RemoveChild(objs[Root0], o) ELSE objs[q]]
    /\ crv_obj_map' = [f \in DOMAIN crv_obj_map \ {objs[q].full : q \in Subtree(o)} |->
                          crv_obj_map[f]]
    /\ UNCHANGED <<created, crv_obj_stack, frames>>

(* A copy has no parent and no children, but the name of the original,     *)
(* which its destructor takes out of the map.                              *)
DestroyCopy(o) ==
    /\ crv_obj_map' = Unset(crv_obj_map, objs[o].full)
    /\ UNCHANGED <<objs, created, crv_obj_stack, frames>>

HierarchyInit ==
    /\ objs = [o \in {Root0} |->
                  Object([kind |-> "root", members |-> <<>>, texts |-> <<>>], NoParent, {Root0},
                         Plain("root"), Plain("root"), <<Plain("root")>>)]
    /\ created = 0
    /\ crv_obj_stack = <<>> /\ frames = <<>>
    /\ crv_obj_map = [f \in {} |-> 0]

Live == DOMAIN objs \ {Root0}

(* The parts of HierarchySound.  Children and parents agree, every object  *)
(* has one parent and is in its list once, it hangs below the root through *)
(* objects that are alive, and what is under construction is a chain.      *)
TreeSound ==
    /\ \A o \in Live :
          /\ objs[o].parent \in DOMAIN objs
          /\ LET siblings == objs[objs[o].parent].children IN
             \E i \in DOMAIN siblings : \A j \in DOMAIN siblings : siblings[j] = o <=> j = i
          /\ Ancestors(o) = {o} \union Ancestors(objs[o].parent)
          /\ Root0 \in Ancestors(o)
    /\ \A o \in DOMAIN objs : \A i \in DOMAIN objs[o].children :
          objs[o].children[i] \in Live /\ objs[objs[o].children[i]].parent = o
    /\ \A i \in DOMAIN crv_obj_stack :
          objs[crv_obj_stack[i]].parent = IF i = 1 THEN Root0 ELSE crv_obj_stack[i - 1]

(* crv_object::find never returns an object that has been destroyed,       *)
(* whatever the order of destruction, and for copies too.                  *)
FindSound == \A f \in DOMAIN crv_obj_map : crv_obj_map[f] \in Live /\ objs[crv_obj_map[f]].full = f

=============================================================================
