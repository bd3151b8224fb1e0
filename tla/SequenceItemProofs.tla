------------------------- MODULE SequenceItemProofs -------------------------
(***************************************************************************)
(* Theorems about SequenceItem, for all classes, names, addresses and      *)
(* expressions and without the bounds of its run.                          *)
(***************************************************************************)
EXTENDS SequenceItem, SequenceTheorems, FiniteSetTheorems, WellFoundedInduction, TLAPS

(***************************************************************************)
(* The inductive invariant: the tree.                                      *)
(***************************************************************************)
IsObject(r) ==
    r = [class |-> r.class, parent |-> r.parent, above |-> r.above, orig |-> r.orig,
         name |-> r.name, full |-> r.full, children |-> r.children,
         local_name_map |-> r.local_name_map, active |-> r.active, list |-> r.list,
         built |-> r.built, gen |-> r.gen, null |-> r.null, goal |-> r.goal]

Addresses ==
    /\ created \in Nat
    /\ DOMAIN objs \subseteq 0..created /\ Root0 \in DOMAIN objs
    /\ \A q \in DOMAIN objs : IsObject(objs[q]) /\ objs[q].children \in Seq(Nat)
    /\ Kind(Root0) = "root" /\ Ancestors(Root0) = {Root0}
    /\ \A q \in Live : \E n \in DOMAIN Class : objs[q].class = Class[n]

(* The objects around an object are alive and one around the other.        *)
Around ==
    \A q \in DOMAIN objs :
        /\ q \in Ancestors(q) /\ Ancestors(q) \subseteq DOMAIN objs
        /\ \A a \in Ancestors(q) : Ancestors(a) \subseteq Ancestors(q)
        /\ \A a, b \in Ancestors(q) : a \in Ancestors(b) \/ b \in Ancestors(a)

(* What is under construction has not been randomized yet, and its full    *)
(* name consists of the names on the stack.                                *)
Constructing ==
    /\ crv_obj_stack \in Seq(Live) /\ frames \in Seq(Nat) /\ Len(frames) = Len(crv_obj_stack)
    /\ \A i \in 1..Len(crv_obj_stack) :
          /\ ~objs[crv_obj_stack[i]].built
          /\ Len(objs[crv_obj_stack[i]].full) = i
          /\ \A j \in 1..i : objs[crv_obj_stack[i]].full[j] = objs[crv_obj_stack[j]].name

(* A full name is that of the parent and one name more.                    *)
FullNames ==
    /\ \A q \in Live : LET full == objs[q].full IN
          /\ Len(full) \in Nat \ {0}
          /\ full = [j \in 1..Len(full) |-> full[j]]
          /\ full[Len(full)] = objs[q].name
    /\ \A q \in Live : LET p == objs[q].parent
                           full == objs[q].full IN
          IF p = Root0 THEN Len(full) = 1
          ELSE /\ Len(full) = Len(objs[p].full) + 1
               /\ \A j \in 1..Len(objs[p].full) : full[j] = objs[p].full[j]

(* The names of members: no number is given twice.                         *)
Counted ==
    /\ \A p \in Live : \A n \in DOMAIN objs[p].local_name_map :
          objs[p].local_name_map[n] \in Nat \ {0}
    /\ \A q \in Live : objs[q].parent # Root0 =>
          LET orig == objs[q].orig
              map == objs[objs[q].parent].local_name_map IN
          /\ orig = <<orig[1], -1>>
          /\ orig \in DOMAIN map
          /\ objs[q].name = orig
             \/ \E k \in 1..(map[orig] - 1) : objs[q].name = <<orig[1], k>>

NamesApart ==
    \A q, r \in Live :
        /\ objs[q].parent = objs[r].parent /\ objs[q].parent # Root0
        /\ objs[q].name = objs[r].name
        => q = r

(* Within an object declared outside of any constructor full names are     *)
(* unique; two such objects may have one name.                             *)
FullApart ==
    \A q, r \in Live : \A a \in Ancestors(q) \intersect Ancestors(r) :
        a # Root0 /\ objs[q].full = objs[r].full => q = r

TreeInv ==
    /\ Addresses /\ Around /\ TreeSound /\ Constructing /\ FullNames /\ Counted /\ NamesApart
    /\ FullApart /\ FindSound

(***************************************************************************)
(* The inductive invariant: generators and distributions.                  *)
(***************************************************************************)
Texts == UNION {ToSet(texts) : texts \in NewList \union {Class[n].texts : n \in DOMAIN Class}}
Highest == Max(DOMAIN dist_ref_to_var_map \union {0})

(* The auxiliary variables are numbered one after the other, and no two    *)
(* constraints share one.                                                  *)
Numbers ==
    /\ Highest \in Nat /\ DOMAIN dist_ref_to_var_map \subseteq 1..Highest
    /\ \A c \in Constraints : objs[c].list \in Seq([text : Texts, id : Nat])
    /\ \A c \in Constraints : \A i \in DOMAIN objs[c].list :
          objs[c].list[i].id \in DOMAIN dist_ref_to_var_map \union {0}
    /\ \A c, d \in Constraints : \A i \in DOMAIN objs[c].list : \A j \in DOMAIN objs[d].list :
          objs[c].list[i].id = objs[d].list[j].id /\ objs[c].list[i].id # 0 => c = d

NoClash == error # "Constraint already exists"

IInv == TreeInv /\ BuiltIsCurrent /\ Numbers /\ UserDistributionAlone /\ NoClash

(***************************************************************************)
(* Steps that leave the tree alone.                                        *)
(***************************************************************************)
SameNode(r, s) ==
    /\ r.class = s.class /\ r.parent = s.parent /\ r.above = s.above /\ r.orig = s.orig
    /\ r.name = s.name /\ r.full = s.full /\ r.children = s.children
    /\ r.local_name_map = s.local_name_map

SameTree(os) ==
    /\ DOMAIN os = DOMAIN objs
    /\ \A q \in DOMAIN objs : IsObject(os[q]) /\ SameNode(os[q], objs[q])

(* Same nodes, hence the same objects of each kind.                        *)
LEMMA SameSets ==
    ASSUME Root0 \in DOMAIN objs, SameTree(objs')
    PROVE  /\ Live' = Live /\ Items' = Items /\ Constraints' = Constraints
           /\ \A q \in DOMAIN objs :
                 /\ Ancestors(q)' = Ancestors(q) /\ Kind(q)' = Kind(q)
                 /\ Subtree(q)' = Subtree(q) /\ Default(q)' = Default(q)
PROOF
<1>1. DOMAIN objs' = DOMAIN objs /\ Live' = Live
    BY DEF SameTree, Live
<1>2. \A q \in DOMAIN objs : /\ Ancestors(q)' = Ancestors(q) /\ Kind(q)' = Kind(q)
                             /\ Default(q)' = Default(q)
    BY DEF SameTree, SameNode, Ancestors, Kind, Default
<1>3. Items' = Items /\ Constraints' = Constraints
    BY <1>1, <1>2 DEF Items, Constraints, IsConstraint, Live
<1>4. \A q \in DOMAIN objs : Subtree(q)' = Subtree(q)
    BY <1>1, <1>2 DEF Subtree
<1> QED BY <1>1, <1>2, <1>3, <1>4

(* The invariant of the tree, if the stack stays or loses its last object. *)
LEMMA TreeKept ==
    ASSUME TreeInv, SameTree(objs'), created' = created,
           DOMAIN crv_obj_map' \subseteq DOMAIN crv_obj_map,
           \A f \in DOMAIN crv_obj_map' : crv_obj_map'[f] = crv_obj_map[f],
           \/ UNCHANGED <<crv_obj_stack, frames>>
           \/ crv_obj_stack # <<>> /\ EndOfName,
           \/ crv_obj_stack = <<>>
           \/ \A q \in DOMAIN objs : objs'[q].built => objs[q].built
    PROVE  TreeInv'
PROOF
<1> USE DEF TreeInv
<1>s. Live' = Live /\ \A q \in DOMAIN objs : Ancestors(q)' = Ancestors(q) /\ Kind(q)' = Kind(q)
    BY SameSets DEF Addresses
<1>n. \A q \in DOMAIN objs : IsObject(objs'[q]) /\ SameNode(objs'[q], objs[q])
    BY DEF SameTree
<1>d. DOMAIN objs' = DOMAIN objs /\ Live \subseteq DOMAIN objs
    BY DEF SameTree, Live
<1>a. Addresses'
    BY <1>s, <1>n, <1>d DEF Addresses, SameNode
<1>b. Around'
    BY <1>s, <1>d DEF Around
<1>c. /\ Len(crv_obj_stack') \in Nat /\ Len(crv_obj_stack') <= Len(crv_obj_stack)
      /\ crv_obj_stack' \in Seq(Live) /\ frames' \in Seq(Nat) /\ Len(frames') = Len(crv_obj_stack')
      /\ DOMAIN crv_obj_stack' = 1..Len(crv_obj_stack')
      /\ \A i \in 1..Len(crv_obj_stack') : crv_obj_stack'[i] = crv_obj_stack[i]
  <2>1. CASE UNCHANGED <<crv_obj_stack, frames>>
      BY <2>1 DEF Constructing
  <2>2. CASE crv_obj_stack # <<>> /\ EndOfName
      BY <2>2 DEF Constructing, EndOfName, Front
  <2> QED BY <2>1, <2>2
<1>k. \A i \in 1..Len(crv_obj_stack) : crv_obj_stack[i] \in Live /\ crv_obj_stack[i] \in DOMAIN objs
    BY <1>d DEF Constructing
<1>e. TreeSound'
  <2>1. \A o \in Live :
          /\ objs'[o].parent \in DOMAIN objs'
          /\ LET siblings == objs'[objs'[o].parent].children IN
             \E i \in DOMAIN siblings : \A j \in DOMAIN siblings : siblings[j] = o <=> j = i
          /\ objs'[o].above = {o} \union objs'[objs'[o].parent].above
          /\ Root0 \in objs'[o].above
      BY <1>n, <1>d DEF TreeSound, SameNode, Ancestors
  <2>2. \A o \in DOMAIN objs' : \A i \in DOMAIN objs'[o].children :
          objs'[o].children[i] \in Live /\ objs'[objs'[o].children[i]].parent = o
      BY <1>n, <1>d DEF TreeSound, SameNode
  <2>3. \A i \in DOMAIN crv_obj_stack' :
          objs'[crv_obj_stack'[i]].parent = IF i = 1 THEN Root0 ELSE crv_obj_stack'[i - 1]
    <3> SUFFICES ASSUME NEW i \in 1..Len(crv_obj_stack')
                 PROVE  objs'[crv_obj_stack'[i]].parent = IF i = 1 THEN Root0 ELSE crv_obj_stack'[i - 1]
        BY <1>c
    <3>1. i \in 1..Len(crv_obj_stack) /\ (i # 1 => i - 1 \in 1..Len(crv_obj_stack'))
        BY <1>c DEF Constructing
    <3>2. objs'[crv_obj_stack[i]].parent = objs[crv_obj_stack[i]].parent
        BY <1>n, <1>k, <3>1 DEF SameNode
    <3>3. objs[crv_obj_stack[i]].parent = IF i = 1 THEN Root0 ELSE crv_obj_stack[i - 1]
      <4>1. i \in DOMAIN crv_obj_stack
          BY <3>1 DEF Constructing
      <4> QED BY <4>1 DEF TreeSound
    <3> QED BY <1>c, <3>1, <3>2, <3>3
  <2> QED BY <1>s, <2>1, <2>2, <2>3 DEF TreeSound, Ancestors
<1>f. Constructing'
  <2> SUFFICES ASSUME NEW i \in 1..Len(crv_obj_stack')
               PROVE  /\ ~objs'[crv_obj_stack'[i]].built
                      /\ Len(objs'[crv_obj_stack'[i]].full) = i
                      /\ \A j \in 1..i : objs'[crv_obj_stack'[i]].full[j] = objs'[crv_obj_stack'[j]].name
      BY <1>c, <1>s DEF Constructing
  <2>1. i \in 1..Len(crv_obj_stack) /\ crv_obj_stack # <<>>
      BY <1>c DEF Constructing
  <2>2. crv_obj_stack[i] \in DOMAIN objs /\ crv_obj_stack'[i] = crv_obj_stack[i]
      BY <2>1, <1>k, <1>c
  <2>3. ~objs'[crv_obj_stack'[i]].built
      BY <2>1, <2>2 DEF Constructing
  <2>4. objs'[crv_obj_stack'[i]].full = objs[crv_obj_stack[i]].full
      BY <1>n, <2>2 DEF SameNode
  <2>5. \A j \in 1..i : objs'[crv_obj_stack'[j]].name = objs[crv_obj_stack[j]].name
      BY <1>n, <1>c, <1>k, <2>1 DEF SameNode
  <2> QED BY <2>1, <2>3, <2>4, <2>5 DEF Constructing
<1>p. \A q \in Live : objs'[q].parent = objs[q].parent /\ objs[q].parent \in DOMAIN objs
    BY <1>n, <1>d DEF TreeSound, SameNode
<1>g. FullNames'
  <2>1. \A q \in Live : objs'[q].full = objs[q].full /\ objs'[q].name = objs[q].name
      BY <1>n, <1>d DEF SameNode
  <2>2. \A q \in Live : objs[q].parent # Root0 =>
                objs'[objs'[q].parent].full = objs[objs[q].parent].full
      BY <1>n, <1>d, <1>p DEF SameNode
  <2>3. \A q \in Live : LET full == objs'[q].full IN
          /\ Len(full) \in Nat \ {0}
          /\ full = [j \in 1..Len(full) |-> full[j]]
          /\ full[Len(full)] = objs'[q].name
      BY <2>1 DEF FullNames
  <2>4. \A q \in Live : LET p == objs'[q].parent
                            full == objs'[q].full IN
          IF p = Root0 THEN Len(full) = 1
          ELSE /\ Len(full) = Len(objs'[p].full) + 1
               /\ \A j \in 1..Len(objs'[p].full) : full[j] = objs'[p].full[j]
    <3> TAKE q \in Live
    <3>1. objs'[q].parent = objs[q].parent /\ objs'[q].full = objs[q].full
        BY <1>p, <2>1
    <3>2. CASE objs[q].parent = Root0
        BY <3>1, <3>2 DEF FullNames
    <3>3. CASE objs[q].parent # Root0
      <4>1. objs'[objs'[q].parent].full = objs[objs[q].parent].full
          BY <3>3, <2>2
      <4>2. /\ Len(objs[q].full) = Len(objs[objs[q].parent].full) + 1
            /\ \A j \in 1..Len(objs[objs[q].parent].full) :
                  objs[q].full[j] = objs[objs[q].parent].full[j]
          BY <3>3 DEF FullNames
      <4> QED BY <3>1, <3>3, <4>1, <4>2
    <3> QED BY <3>2, <3>3
  <2> QED BY <1>s, <2>3, <2>4 DEF FullNames
<1>h. Counted'
    BY <1>s, <1>n, <1>d, <1>p DEF Counted, SameNode
<1>i. NamesApart'
    BY <1>s, <1>n, <1>d, <1>p DEF NamesApart, SameNode
<1>j. FullApart'
    BY <1>s, <1>n, <1>d DEF FullApart, SameNode
<1>l. FindSound'
    BY <1>s, <1>n, <1>d DEF FindSound, SameNode
<1> QED BY <1>a, <1>b, <1>e, <1>f, <1>g, <1>h, <1>i, <1>j, <1>l

(***************************************************************************)
(* The constructor of crv_object.                                          *)
(***************************************************************************)
LEMMA ParentFacts ==
    ASSUME TreeInv
    PROVE  /\ Parent \in DOMAIN objs
           /\ Parent = Root0 <=> crv_obj_stack = <<>>
           /\ DOMAIN crv_obj_stack = 1..Len(crv_obj_stack) /\ Len(crv_obj_stack) \in Nat
           /\ crv_obj_stack # <<>> => /\ Len(crv_obj_stack) \in 1..Len(crv_obj_stack)
                                      /\ Parent = crv_obj_stack[Len(crv_obj_stack)]
                                      /\ Parent \in Live
PROOF
<1> USE DEF TreeInv
<1>1. crv_obj_stack # <<>> => Len(crv_obj_stack) \in 1..Len(crv_obj_stack)
    BY DEF Constructing
<1>2. crv_obj_stack # <<>> => Parent = crv_obj_stack[Len(crv_obj_stack)] /\ Parent \in Live
    BY <1>1 DEF Constructing, Parent, Last
<1>3. DOMAIN crv_obj_stack = 1..Len(crv_obj_stack) /\ Len(crv_obj_stack) \in Nat
    BY DEF Constructing
<1> QED BY <1>1, <1>2, <1>3 DEF Parent, Live, Addresses

SameBody(r, s) ==
    /\ r.class = s.class /\ r.parent = s.parent /\ r.above = s.above /\ r.orig = s.orig
    /\ r.name = s.name /\ r.full = s.full
    /\ r.active = s.active /\ r.list = s.list /\ r.built = s.built /\ r.gen = s.gen

NewFull(orig) ==
    Append([i \in DOMAIN crv_obj_stack |-> objs[crv_obj_stack[i]].name],
           NameFor(objs[Parent].local_name_map, orig))

LEMMA NewFacts ==
    ASSUME TreeInv, NEW class, NEW orig, NewObject(class, orig)
    PROVE  /\ created + 1 \notin DOMAIN objs /\ created + 1 # Root0
           /\ created' = created + 1
           /\ DOMAIN objs' = DOMAIN objs \union {created + 1}
           /\ Live' = Live \union {created + 1}
           /\ objs'[created + 1] = Object(class, Parent, objs[Parent].above \union {created + 1}, orig,
                                          NameFor(objs[Parent].local_name_map, orig), NewFull(orig))
           /\ \A q \in DOMAIN objs : q # Parent => objs'[q] = objs[q]
           /\ objs'[Parent].children = Append(objs[Parent].children, created + 1)
           /\ objs'[Parent].local_name_map = CountName(objs[Parent].local_name_map, orig)
           /\ \A q \in DOMAIN objs : IsObject(objs'[q]) /\ SameBody(objs'[q], objs[q])
PROOF
<1> DEFINE o == created + 1
           os == [objs EXCEPT ![Parent].children = Append(@, o),
                              ![Parent].local_name_map = CountName(@, orig)]
           new == Object(class, Parent, objs[Parent].above \union {o}, orig,
                         NameFor(objs[Parent].local_name_map, orig), NewFull(orig))
<1>1. objs' = Set(os, o, new) /\ created' = o
    BY DEF NewObject, NewFull
<1>2. o \notin DOMAIN objs /\ o # Root0 /\ Parent \in DOMAIN objs /\ o # Parent
    BY ParentFacts DEF TreeInv, Addresses, Root0
<1>3. DOMAIN os = DOMAIN objs
    OBVIOUS
<1>4. DOMAIN objs' = DOMAIN objs \union {o} /\ Live' = Live \union {o}
    BY <1>1, <1>2, <1>3 DEF Set, Live
<1>5. objs'[o] = new /\ \A q \in DOMAIN objs : objs'[q] = os[q]
    BY <1>1, <1>2, <1>3 DEF Set
<1>6. \A q \in DOMAIN objs : q # Parent => os[q] = objs[q]
    OBVIOUS
<1>7. os[Parent] = [objs[Parent] EXCEPT !.children = Append(@, o),
                                        !.local_name_map = CountName(@, orig)]
    BY <1>2
<1>8. IsObject(objs[Parent]) /\ \A q \in DOMAIN objs : IsObject(objs[q])
    BY <1>2 DEF TreeInv, Addresses
<1>9. /\ IsObject(os[Parent]) /\ SameBody(os[Parent], objs[Parent])
      /\ os[Parent].children = Append(objs[Parent].children, o)
      /\ os[Parent].local_name_map = CountName(objs[Parent].local_name_map, orig)
  <2> HIDE DEF os
  <2> DEFINE ch == Append(objs[Parent].children, o)
             map == CountName(objs[Parent].local_name_map, orig)
  <2>1. os[Parent] = [objs[Parent] EXCEPT !.children = ch, !.local_name_map = map]
      BY <1>7, <1>8 DEF IsObject
  <2> HIDE DEF ch, map
  <2>2. os[Parent].children = ch /\ os[Parent].local_name_map = map
      BY <1>8, <2>1 DEF IsObject
  <2>3. SameBody(os[Parent], objs[Parent])
      BY <1>8, <2>1 DEF IsObject, SameBody
  <2>4. IsObject(os[Parent])
      BY <1>8, <2>1 DEF IsObject
  <2> QED BY <2>2, <2>3, <2>4 DEF ch, map
<1>10. \A q \in DOMAIN objs : IsObject(os[q]) /\ SameBody(os[q], objs[q])
  <2> TAKE q \in DOMAIN objs
  <2>1. CASE q = Parent
      BY <2>1, <1>9
  <2>2. CASE q # Parent
      BY <2>2, <1>6, <1>8 DEF SameBody
  <2> QED BY <2>1, <2>2
<1> HIDE DEF os, new, o
<1>11. /\ objs'[Parent] = os[Parent]
       /\ \A q \in DOMAIN objs : q # Parent => objs'[q] = objs[q]
       /\ \A q \in DOMAIN objs : IsObject(objs'[q]) /\ SameBody(objs'[q], objs[q])
    BY <1>2, <1>5, <1>6, <1>10
<1> QED BY <1>1, <1>2, <1>4, <1>5, <1>9, <1>11 DEF o, new

LEMMA NewNode ==
    ASSUME TreeInv, NEW class, NEW orig, NewObject(class, orig)
    PROVE  LET r == objs'[created + 1] IN
           /\ IsObject(r) /\ r.class = class /\ r.parent = Parent
           /\ r.above = objs[Parent].above \union {created + 1}
           /\ r.orig = orig /\ r.name = NameFor(objs[Parent].local_name_map, orig)
           /\ r.full = NewFull(orig) /\ r.children = <<>> /\ r.list = <<>> /\ r.built = FALSE
           /\ DOMAIN r.local_name_map = {}
PROOF
<1>1. objs'[created + 1] = Object(class, Parent, objs[Parent].above \union {created + 1}, orig,
                                  NameFor(objs[Parent].local_name_map, orig), NewFull(orig))
    BY NewFacts
<1> HIDE DEF NewFull, NameFor
<1> QED BY <1>1 DEF Object, IsObject

LEMMA IndexedSeq ==
    ASSUME NEW S, NEW n \in Nat, NEW f \in [1..n -> S]
    PROVE  f \in Seq(S)
PROOF OBVIOUS

LEMMA SeqElements ==
    ASSUME NEW S, NEW s \in Seq(S)
    PROVE  s = [j \in 1..Len(s) |-> s[j]]
PROOF OBVIOUS

(* The full name of a new object.                                          *)
LEMMA NewFullFacts ==
    ASSUME TreeInv, NEW orig
    PROVE  LET n == Len(crv_obj_stack) IN
           /\ Len(NewFull(orig)) = n + 1
           /\ NewFull(orig) = [j \in 1..(n + 1) |-> NewFull(orig)[j]]
           /\ NewFull(orig)[n + 1] = NameFor(objs[Parent].local_name_map, orig)
           /\ \A j \in 1..n : NewFull(orig)[j] = objs[crv_obj_stack[j]].name
PROOF
<1> DEFINE n == Len(crv_obj_stack)
           N == {objs[crv_obj_stack[i]].name : i \in DOMAIN crv_obj_stack}
           names == [i \in DOMAIN crv_obj_stack |-> objs[crv_obj_stack[i]].name]
           last == NameFor(objs[Parent].local_name_map, orig)
<1>1. DOMAIN crv_obj_stack = 1..n /\ n \in Nat
    BY ParentFacts
<1>2. names \in [1..n -> N \union {last}] /\ \A j \in 1..n : names[j] = objs[crv_obj_stack[j]].name
    BY <1>1
<1> HIDE DEF names, last, N, n
<1>3. names \in Seq(N \union {last}) /\ Len(names) = n
    BY <1>1, <1>2
<1>4. /\ Append(names, last) \in Seq(N \union {last}) /\ Len(Append(names, last)) = n + 1
      /\ Append(names, last)[n + 1] = last
      /\ \A j \in 1..n : Append(names, last)[j] = names[j]
    BY <1>1, <1>3
<1>5. Append(names, last) = [j \in 1..(n + 1) |-> Append(names, last)[j]]
    BY <1>4, SeqElements
<1>6. NewFull(orig) = Append(names, last)
    BY DEF NewFull, names, last
<1> QED BY <1>2, <1>4, <1>5, <1>6 DEF n, last

LEMMA NewAddresses ==
    ASSUME TreeInv, NEW class, NEW orig, NewObject(class, orig),
           \E n \in DOMAIN Class : class = Class[n]
    PROVE  Addresses' /\ Around'
PROOF
<1> DEFINE o == created + 1
<1>1. /\ o \notin DOMAIN objs /\ created' = o /\ DOMAIN objs' = DOMAIN objs \union {o}
      /\ Live' = Live \union {o} /\ o # Root0
    BY NewFacts
<1>2. \A q \in DOMAIN objs : IsObject(objs'[q]) /\ SameBody(objs'[q], objs[q])
    BY NewFacts
<1>3. Parent \in DOMAIN objs
    BY ParentFacts
<1>4. /\ IsObject(objs'[o]) /\ objs'[o].class = class /\ objs'[o].children = <<>>
      /\ objs'[o].above = objs[Parent].above \union {o}
    BY NewNode
<1>5. created \in Nat /\ DOMAIN objs \subseteq 0..created /\ Root0 \in DOMAIN objs
    BY DEF TreeInv, Addresses
<1>6. \A q \in DOMAIN objs : objs'[q].children \in Seq(Nat)
  <2> TAKE q \in DOMAIN objs
  <2>1. objs[q].children \in Seq(Nat) /\ o \in Nat
      BY <1>5 DEF TreeInv, Addresses
  <2>2. CASE q = Parent
    <3>1. objs'[q].children = Append(objs[q].children, o)
        BY <2>2, NewFacts
    <3> QED BY <2>1, <3>1
  <2>3. CASE q # Parent
    <3>1. objs'[q] = objs[q]
        BY <2>3, NewFacts
    <3> QED BY <2>1, <3>1
  <2> QED BY <2>2, <2>3
<1>7. \A q \in Live : \E n \in DOMAIN Class : objs'[q].class = Class[n]
    BY <1>2 DEF TreeInv, Addresses, SameBody, Live
<1>8. Kind(Root0)' = "root" /\ Ancestors(Root0)' = {Root0}
    BY <1>2, <1>5 DEF TreeInv, Addresses, SameBody, Kind, Ancestors
<1>9. Addresses'
  <2>1. created' \in Nat /\ DOMAIN objs' \subseteq 0..created' /\ Root0 \in DOMAIN objs'
      BY <1>1, <1>5
  <2>2. \A q \in DOMAIN objs' : IsObject(objs'[q]) /\ objs'[q].children \in Seq(Nat)
    <3>1. \A q \in DOMAIN objs : IsObject(objs'[q]) /\ objs'[q].children \in Seq(Nat)
        BY <1>2, <1>6
    <3>2. IsObject(objs'[o]) /\ objs'[o].children \in Seq(Nat)
        BY <1>4
    <3> HIDE DEF o
    <3> QED BY <1>1, <3>1, <3>2
  <2>3. \A q \in Live' : \E n \in DOMAIN Class : objs'[q].class = Class[n]
      BY <1>1, <1>4, <1>7
  <2> QED BY <1>8, <2>1, <2>2, <2>3 DEF Addresses
<1>10. Around'
  <2>1. \A q \in DOMAIN objs : objs'[q].above = objs[q].above
      BY <1>2 DEF SameBody
  <2>2. \A q \in DOMAIN objs :
            /\ q \in objs[q].above /\ objs[q].above \subseteq DOMAIN objs
            /\ \A a \in objs[q].above : objs[a].above \subseteq objs[q].above
            /\ \A a, b \in objs[q].above : a \in objs[b].above \/ b \in objs[a].above
      BY DEF TreeInv, Around, Ancestors
  <2>3. \A q \in DOMAIN objs :
            /\ q \in objs'[q].above /\ objs'[q].above \subseteq DOMAIN objs'
            /\ \A a \in objs'[q].above : objs'[a].above \subseteq objs'[q].above
            /\ \A a, b \in objs'[q].above : a \in objs'[b].above \/ b \in objs'[a].above
      BY <1>1, <2>1, <2>2
  <2>4. /\ o \in objs'[o].above /\ objs'[o].above \subseteq DOMAIN objs'
        /\ \A a \in objs'[o].above : objs'[a].above \subseteq objs'[o].above
        /\ \A a, b \in objs'[o].above : a \in objs'[b].above \/ b \in objs'[a].above
    <3> DEFINE A == objs[Parent].above
    <3>1. A \subseteq DOMAIN objs /\ \A a \in A : objs'[a].above = objs[a].above
        BY <1>3, <2>1, <2>2
    <3>2. \A a \in A : objs[a].above \subseteq A
        BY <1>3, <2>2
    <3>3. \A a, b \in A : a \in objs[b].above \/ b \in objs[a].above
        BY <1>3, <2>2
    <3> HIDE DEF A, o
    <3>4. objs'[o].above = A \union {o}
        BY <1>4 DEF A
    <3> QED BY <1>1, <3>1, <3>2, <3>3, <3>4
  <2> HIDE DEF o
  <2> QED BY <1>1, <2>3, <2>4 DEF Around, Ancestors
<1> QED BY <1>9, <1>10

(* An element appended to the children.                                    *)
LEMMA AppendedOnce ==
    ASSUME NEW ch \in Seq(Nat), NEW o \in Nat
    PROVE  /\ DOMAIN ch = 1..Len(ch) /\ Len(ch) \in Nat
           /\ DOMAIN Append(ch, o) = 1..(Len(ch) + 1)
           /\ Append(ch, o)[Len(ch) + 1] = o
           /\ \A j \in 1..Len(ch) : Append(ch, o)[j] = ch[j]
PROOF OBVIOUS

LEMMA NewTree ==
    ASSUME TreeInv, NEW class, NEW orig, NewObject(class, orig)
    PROVE  TreeSound'
PROOF
<1> DEFINE o == created + 1
<1>1. /\ o \notin DOMAIN objs /\ DOMAIN objs' = DOMAIN objs \union {o}
      /\ Live' = Live \union {o} /\ o # Root0 /\ Live \subseteq DOMAIN objs
    BY NewFacts DEF Live
<1>2. \A q \in DOMAIN objs : objs'[q].parent = objs[q].parent /\ objs'[q].above = objs[q].above
    BY NewFacts DEF SameBody
<1>3. Parent \in DOMAIN objs
    BY ParentFacts
<1>4. /\ objs'[o].parent = Parent /\ objs'[o].children = <<>>
      /\ objs'[o].above = objs[Parent].above \union {o}
    BY NewNode
<1>5. o \in Nat /\ \A q \in DOMAIN objs : objs[q].children \in Seq(Nat)
    BY DEF TreeInv, Addresses
<1>6. /\ objs'[Parent].children = Append(objs[Parent].children, o)
      /\ \A q \in DOMAIN objs : q # Parent => objs'[q].children = objs[q].children
    BY NewFacts
<1>7. \A q \in Live : /\ objs[q].parent \in DOMAIN objs
                      /\ LET siblings == objs[objs[q].parent].children IN
                         \E i \in DOMAIN siblings : \A j \in DOMAIN siblings : siblings[j] = q <=> j = i
                      /\ objs[q].above = {q} \union objs[objs[q].parent].above
                      /\ Root0 \in objs[q].above
    BY DEF TreeInv, TreeSound, Ancestors
<1>8. \A q \in DOMAIN objs : \A i \in DOMAIN objs[q].children :
          objs[q].children[i] \in Live /\ objs[objs[q].children[i]].parent = q
    BY DEF TreeInv, TreeSound
<1>9. \A i \in 1..Len(crv_obj_stack) :
          /\ crv_obj_stack[i] \in Live
          /\ objs[crv_obj_stack[i]].parent = IF i = 1 THEN Root0 ELSE crv_obj_stack[i - 1]
  <2>1. DOMAIN crv_obj_stack = 1..Len(crv_obj_stack) /\ crv_obj_stack \in Seq(Live)
      BY DEF TreeInv, Constructing
  <2> QED BY <2>1 DEF TreeInv, TreeSound
<1>10. Root0 \in objs[Parent].above
    BY <1>3, <1>7 DEF TreeInv, Addresses, Ancestors, Live
<1>11. crv_obj_stack' = Append(crv_obj_stack, o) /\ crv_obj_stack \in Seq(Live)
    BY DEF NewObject, TreeInv, Constructing
<1>12. crv_obj_stack = <<>> => Parent = Root0
    BY ParentFacts
<1>13. crv_obj_stack # <<>> => Parent = crv_obj_stack[Len(crv_obj_stack)]
    BY ParentFacts
<1> HIDE DEF o
<1>20. ASSUME NEW q \in Live'
       PROVE  /\ objs'[q].parent \in DOMAIN objs'
              /\ LET siblings == objs'[objs'[q].parent].children IN
                 \E i \in DOMAIN siblings : \A j \in DOMAIN siblings : siblings[j] = q <=> j = i
              /\ objs'[q].above = {q} \union objs'[objs'[q].parent].above
              /\ Root0 \in objs'[q].above
  <2>1. CASE q = o
    <3>1. DOMAIN Append(objs[Parent].children, o) = 1..(Len(objs[Parent].children) + 1)
        BY <1>3, <1>5, AppendedOnce
    <3>2. \A j \in 1..Len(objs[Parent].children) : Append(objs[Parent].children, o)[j] # o
      <4> TAKE j \in 1..Len(objs[Parent].children)
      <4>1. j \in DOMAIN objs[Parent].children /\ Append(objs[Parent].children, o)[j] = objs[Parent].children[j]
          BY <1>3, <1>5, AppendedOnce
      <4> QED BY <4>1, <1>1, <1>3, <1>8
    <3>3. /\ Append(objs[Parent].children, o)[Len(objs[Parent].children) + 1] = o
          /\ Len(objs[Parent].children) \in Nat
        BY <1>3, <1>5, AppendedOnce
    <3>4. \E i \in DOMAIN objs'[Parent].children : \A j \in DOMAIN objs'[Parent].children :
             objs'[Parent].children[j] = o <=> j = i
      <4> DEFINE ch == Append(objs[Parent].children, o)
                 n == Len(objs[Parent].children)
      <4>1. DOMAIN ch = 1..(n + 1) /\ n \in Nat /\ ch[n + 1] = o /\ \A j \in 1..n : ch[j] # o
          BY <3>1, <3>2, <3>3
      <4> HIDE DEF ch, n
      <4>2. n + 1 \in DOMAIN ch /\ \A j \in DOMAIN ch : ch[j] = o <=> j = n + 1
          BY <4>1
      <4> QED BY <1>6, <4>2 DEF ch
    <3> QED BY <2>1, <1>1, <1>2, <1>3, <1>4, <1>10, <3>4
  <2>2. CASE q # o
    <3>1. q \in Live /\ q \in DOMAIN objs
        BY <2>2, <1>1
    <3>2. PICK i \in DOMAIN objs[objs[q].parent].children :
             \A j \in DOMAIN objs[objs[q].parent].children :
                objs[objs[q].parent].children[j] = q <=> j = i
        BY <3>1, <1>7
    <3>3. objs[q].parent \in DOMAIN objs /\ objs'[q].parent = objs[q].parent
        BY <3>1, <1>2, <1>7
    <3>4. \E k \in DOMAIN objs'[objs[q].parent].children :
             \A j \in DOMAIN objs'[objs[q].parent].children :
                objs'[objs[q].parent].children[j] = q <=> j = k
      <4>1. CASE objs[q].parent = Parent
        <5> DEFINE ch == objs[Parent].children
        <5>1. /\ DOMAIN ch = 1..Len(ch) /\ Len(ch) \in Nat
              /\ DOMAIN Append(ch, o) = 1..(Len(ch) + 1)
              /\ Append(ch, o)[Len(ch) + 1] = o
              /\ \A j \in 1..Len(ch) : Append(ch, o)[j] = ch[j]
            BY <1>3, <1>5, AppendedOnce
        <5>2. i \in 1..Len(ch) /\ \A j \in 1..Len(ch) : ch[j] = q <=> j = i
            BY <3>2, <4>1, <5>1
        <5>3. objs'[objs[q].parent].children = Append(ch, o)
            BY <4>1, <1>6
        <5> HIDE DEF ch
        <5>4. \A j \in 1..(Len(ch) + 1) : Append(ch, o)[j] = q <=> j = i
            BY <2>2, <5>1, <5>2
        <5>5. i \in DOMAIN Append(ch, o)
            BY <5>1, <5>2
        <5> QED BY <5>1, <5>3, <5>4, <5>5
      <4>2. CASE objs[q].parent # Parent
          BY <3>2, <3>3, <4>2, <1>6
      <4> QED BY <4>1, <4>2
    <3>5. objs'[q].above = {q} \union objs'[objs'[q].parent].above /\ Root0 \in objs'[q].above
        BY <3>1, <3>3, <1>2, <1>7
    <3> QED BY <3>3, <3>4, <3>5, <1>1
  <2> QED BY <2>1, <2>2
<1>21. ASSUME NEW q \in DOMAIN objs', NEW i \in DOMAIN objs'[q].children
       PROVE  objs'[q].children[i] \in Live' /\ objs'[objs'[q].children[i]].parent = q
  <2>1. CASE q = o
    <3>1. DOMAIN objs'[q].children = {}
        BY <2>1, <1>4
    <3> QED BY <3>1
  <2>2. CASE q = Parent
    <3> DEFINE ch == objs[Parent].children
    <3>1. /\ DOMAIN ch = 1..Len(ch) /\ Len(ch) \in Nat
          /\ DOMAIN Append(ch, o) = 1..(Len(ch) + 1)
          /\ Append(ch, o)[Len(ch) + 1] = o
          /\ \A j \in 1..Len(ch) : Append(ch, o)[j] = ch[j]
        BY <1>3, <1>5, AppendedOnce
    <3>2. objs'[q].children = Append(ch, o)
        BY <2>2, <1>6
    <3>3. \A j \in 1..Len(ch) : ch[j] \in Live /\ objs[ch[j]].parent = q
        BY <2>2, <1>3, <1>8, <3>1
    <3> HIDE DEF ch
    <3>4. i \in 1..(Len(ch) + 1)
        BY <3>1, <3>2
    <3>5. CASE i = Len(ch) + 1
        BY <3>1, <3>2, <3>5, <1>1, <1>4, <2>2
    <3>6. CASE i \in 1..Len(ch)
        BY <3>1, <3>2, <3>3, <3>6, <1>1, <1>2
    <3> QED BY <3>1, <3>4, <3>5, <3>6
  <2>3. CASE q # o /\ q # Parent
      BY <2>3, <1>1, <1>2, <1>6, <1>8
  <2> QED BY <2>1, <2>2, <2>3
<1>22. ASSUME NEW i \in DOMAIN crv_obj_stack'
       PROVE  objs'[crv_obj_stack'[i]].parent = IF i = 1 THEN Root0 ELSE crv_obj_stack'[i - 1]
  <2> DEFINE n == Len(crv_obj_stack)
  <2>1. /\ DOMAIN crv_obj_stack' = 1..(n + 1) /\ n \in Nat /\ crv_obj_stack'[n + 1] = o
        /\ \A j \in 1..n : crv_obj_stack'[j] = crv_obj_stack[j]
      BY <1>11
  <2>2. n = 0 <=> crv_obj_stack = <<>>
      BY <1>11
  <2> HIDE DEF n
  <2>3. CASE i \in 1..n
    <3>1. crv_obj_stack'[i] = crv_obj_stack[i] /\ crv_obj_stack[i] \in DOMAIN objs
        BY <2>1, <2>3, <1>1, <1>9 DEF n
    <3>2. i # 1 => i - 1 \in 1..n /\ crv_obj_stack'[i - 1] = crv_obj_stack[i - 1]
        BY <2>1, <2>3
    <3> QED BY <2>3, <3>1, <3>2, <1>2, <1>9 DEF n
  <2>4. CASE i = n + 1
    <3>1. crv_obj_stack'[i] = o /\ objs'[o].parent = Parent
        BY <2>1, <2>4, <1>4
    <3>2. i # 1 => i - 1 = n /\ n \in 1..n /\ crv_obj_stack'[i - 1] = crv_obj_stack[n]
        BY <2>1, <2>4
    <3> QED BY <2>1, <2>2, <2>4, <3>1, <3>2, <1>12, <1>13 DEF n
  <2> QED BY <2>1, <2>3, <2>4
<1> QED BY <1>20, <1>21, <1>22 DEF TreeSound, Ancestors

LEMMA NewConstructing ==
    ASSUME TreeInv, NEW class, NEW orig, NewObject(class, orig),
           frames' \in Seq(Nat), Len(frames') = Len(crv_obj_stack) + 1
    PROVE  Constructing' /\ FullNames' /\ FindSound'
PROOF
<1> DEFINE o == created + 1
           n == Len(crv_obj_stack)
<1>1. /\ o \notin DOMAIN objs /\ DOMAIN objs' = DOMAIN objs \union {o}
      /\ Live' = Live \union {o} /\ o # Root0 /\ Live \subseteq DOMAIN objs
    BY NewFacts DEF Live
<1>2. \A q \in DOMAIN objs : /\ objs'[q].parent = objs[q].parent /\ objs'[q].full = objs[q].full
                             /\ objs'[q].name = objs[q].name /\ objs'[q].built = objs[q].built
    BY NewFacts DEF SameBody
<1>3. /\ objs'[o].parent = Parent /\ objs'[o].full = NewFull(orig) /\ objs'[o].built = FALSE
      /\ objs'[o].name = NameFor(objs[Parent].local_name_map, orig)
    BY NewNode
<1>4. /\ crv_obj_stack \in Seq(Live) /\ crv_obj_stack' = Append(crv_obj_stack, o)
      /\ crv_obj_map' = Set(crv_obj_map, NewFull(orig), o)
    BY DEF TreeInv, Constructing, NewObject, NewFull
<1>5. /\ Len(NewFull(orig)) = n + 1
      /\ NewFull(orig) = [j \in 1..(n + 1) |-> NewFull(orig)[j]]
      /\ NewFull(orig)[n + 1] = NameFor(objs[Parent].local_name_map, orig)
      /\ \A j \in 1..n : NewFull(orig)[j] = objs[crv_obj_stack[j]].name
    BY NewFullFacts
<1>6. \A i \in 1..n :
          /\ crv_obj_stack[i] \in Live
          /\ ~objs[crv_obj_stack[i]].built
          /\ Len(objs[crv_obj_stack[i]].full) = i
          /\ \A j \in 1..i : objs[crv_obj_stack[i]].full[j] = objs[crv_obj_stack[j]].name
    BY <1>4 DEF TreeInv, Constructing
<1>7. n \in Nat /\ (n = 0 <=> crv_obj_stack = <<>>)
    BY <1>4
<1>8. /\ crv_obj_stack' \in Seq(Live') /\ Len(crv_obj_stack') = n + 1 /\ crv_obj_stack'[n + 1] = o
      /\ \A j \in 1..n : crv_obj_stack'[j] = crv_obj_stack[j]
  <2>1. crv_obj_stack \in Seq(Live')
      BY <1>1, <1>4, SeqMonotonic
  <2> QED BY <2>1, <1>1, <1>4
<1>9. /\ Parent = Root0 <=> crv_obj_stack = <<>>
      /\ crv_obj_stack # <<>> => Parent = crv_obj_stack[n] /\ Parent \in DOMAIN objs
    BY ParentFacts
<1> HIDE DEF o, n
<1>10. \A j \in 1..n : objs'[crv_obj_stack'[j]].name = objs[crv_obj_stack[j]].name
    BY <1>1, <1>2, <1>6, <1>8
<1>11. ASSUME NEW i \in 1..(n + 1)
       PROVE  /\ ~objs'[crv_obj_stack'[i]].built
              /\ Len(objs'[crv_obj_stack'[i]].full) = i
              /\ \A j \in 1..i : objs'[crv_obj_stack'[i]].full[j] = objs'[crv_obj_stack'[j]].name
  <2>1. CASE i \in 1..n
    <3>1. /\ objs'[crv_obj_stack'[i]].built = objs[crv_obj_stack[i]].built
          /\ objs'[crv_obj_stack'[i]].full = objs[crv_obj_stack[i]].full
        BY <2>1, <1>1, <1>2, <1>6, <1>8
    <3>2. \A j \in 1..i : j \in 1..n
        BY <2>1, <1>7
    <3> QED BY <2>1, <3>1, <3>2, <1>6, <1>10
  <2>2. CASE i = n + 1
    <3>1. crv_obj_stack'[i] = o
        BY <2>2, <1>8
    <3>2. \A j \in 1..n : NewFull(orig)[j] = objs'[crv_obj_stack'[j]].name
        BY <1>5, <1>10
    <3>3. NewFull(orig)[n + 1] = objs'[crv_obj_stack'[n + 1]].name
        BY <1>3, <1>5, <1>8
    <3>4. \A j \in 1..i : NewFull(orig)[j] = objs'[crv_obj_stack'[j]].name
        BY <2>2, <3>2, <3>3, <1>7
    <3> QED BY <2>2, <3>1, <3>4, <1>3, <1>5
  <2> QED BY <2>1, <2>2, <1>7
<1>12. Constructing'
    BY <1>8, <1>11 DEF Constructing, n
<1>13. FullNames'
  <2>1. ASSUME NEW q \in Live'
        PROVE  LET full == objs'[q].full IN
               /\ Len(full) \in Nat \ {0}
               /\ full = [j \in 1..Len(full) |-> full[j]]
               /\ full[Len(full)] = objs'[q].name
    <3>1. CASE q = o
        BY <3>1, <1>3, <1>5, <1>7
    <3>2. CASE q \in Live
      <4>1. objs'[q].full = objs[q].full /\ objs'[q].name = objs[q].name
          BY <3>2, <1>1, <1>2
      <4> QED BY <3>2, <4>1 DEF TreeInv, FullNames
    <3> QED BY <1>1, <3>1, <3>2
  <2>2. ASSUME NEW q \in Live'
        PROVE  LET p == objs'[q].parent
                   full == objs'[q].full IN
               IF p = Root0 THEN Len(full) = 1
               ELSE /\ Len(full) = Len(objs'[p].full) + 1
                    /\ \A j \in 1..Len(objs'[p].full) : full[j] = objs'[p].full[j]
    <3>1. CASE q = o
      <4>1. CASE crv_obj_stack = <<>>
          BY <3>1, <4>1, <1>3, <1>5, <1>7, <1>9
      <4>2. CASE crv_obj_stack # <<>>
        <5>1. objs'[Parent].full = objs[Parent].full /\ Parent # Root0 /\ n \in 1..n
            BY <4>2, <1>2, <1>7, <1>9
        <5>2. Len(objs[Parent].full) = n /\ \A j \in 1..n : objs[Parent].full[j] = NewFull(orig)[j]
            BY <4>2, <5>1, <1>5, <1>6, <1>9
        <5> QED BY <3>1, <5>1, <5>2, <1>3, <1>5
      <4> QED BY <4>1, <4>2
    <3>2. CASE q \in Live
      <4>1. objs'[q].full = objs[q].full /\ objs'[q].parent = objs[q].parent
          BY <3>2, <1>1, <1>2
      <4>2. objs[q].parent \in DOMAIN objs
          BY <3>2 DEF TreeInv, TreeSound
      <4>3. objs'[objs[q].parent].full = objs[objs[q].parent].full
          BY <4>2, <1>2
      <4>4. CASE objs[q].parent = Root0
          BY <3>2, <4>1, <4>4 DEF TreeInv, FullNames
      <4>5. CASE objs[q].parent # Root0
        <5>1. /\ Len(objs[q].full) = Len(objs[objs[q].parent].full) + 1
              /\ \A j \in 1..Len(objs[objs[q].parent].full) :
                    objs[q].full[j] = objs[objs[q].parent].full[j]
            BY <3>2, <4>5 DEF TreeInv, FullNames
        <5> QED BY <4>1, <4>3, <4>5, <5>1
      <4> QED BY <4>4, <4>5
    <3> QED BY <1>1, <3>1, <3>2
  <2> QED BY <2>1, <2>2 DEF FullNames
<1>14. FindSound'
  <2>1. \A f \in DOMAIN crv_obj_map : crv_obj_map[f] \in Live /\ objs[crv_obj_map[f]].full = f
      BY DEF TreeInv, FindSound
  <2> QED BY <2>1, <1>1, <1>2, <1>3, <1>4 DEF FindSound, Set
<1> QED BY <1>12, <1>13, <1>14

LEMMA NewNames ==
    ASSUME TreeInv, NEW class, NEW orig, NewObject(class, orig),
           crv_obj_stack # <<>> => orig = <<orig[1], -1>>
    PROVE  Counted' /\ NamesApart'
PROOF
<1> DEFINE o == created + 1
           map == objs[Parent].local_name_map
           name == NameFor(map, orig)
<1>1. /\ o \notin DOMAIN objs /\ DOMAIN objs' = DOMAIN objs \union {o}
      /\ Live' = Live \union {o} /\ o # Root0 /\ Live \subseteq DOMAIN objs
    BY NewFacts DEF Live
<1>2. \A q \in DOMAIN objs : /\ objs'[q].parent = objs[q].parent /\ objs'[q].orig = objs[q].orig
                             /\ objs'[q].name = objs[q].name
    BY NewFacts DEF SameBody
<1>3. /\ objs'[o].parent = Parent /\ objs'[o].orig = orig /\ objs'[o].name = name
      /\ DOMAIN objs'[o].local_name_map = {}
    BY NewNode
<1>4. /\ objs'[Parent].local_name_map = CountName(map, orig)
      /\ \A q \in DOMAIN objs : q # Parent => objs'[q].local_name_map = objs[q].local_name_map
    BY NewFacts
<1>5. /\ Parent \in DOMAIN objs
      /\ Parent # Root0 => crv_obj_stack # <<>> /\ Parent \in Live
    BY ParentFacts
<1>6. \A q \in Live : objs[q].parent \in DOMAIN objs
    BY DEF TreeInv, TreeSound
<1>7. \A p \in Live : \A k \in DOMAIN objs[p].local_name_map : objs[p].local_name_map[k] \in Nat \ {0}
    BY DEF TreeInv, Counted
<1>8. \A q \in Live : objs[q].parent # Root0 =>
          LET before == objs[objs[q].parent].local_name_map IN
          /\ objs[q].orig = <<objs[q].orig[1], -1>>
          /\ objs[q].orig \in DOMAIN before
          /\ objs[q].name = objs[q].orig
             \/ \E k \in 1..(before[objs[q].orig] - 1) : objs[q].name = <<objs[q].orig[1], k>>
    BY DEF TreeInv, Counted
<1>9. /\ DOMAIN CountName(map, orig) = DOMAIN map \union {orig}
      /\ CountName(map, orig)[orig] = IF orig \in DOMAIN map THEN map[orig] + 1 ELSE 1
      /\ \A k \in DOMAIN map : k # orig => CountName(map, orig)[k] = map[k]
    BY DEF CountName, Set
<1>10. Parent # Root0 =>
          /\ orig = <<orig[1], -1>>
          /\ \A k \in DOMAIN map : map[k] \in Nat \ {0}
          /\ orig \notin DOMAIN map => name = orig
          /\ orig \in DOMAIN map => name = <<orig[1], map[orig]>>
  <2> HAVE Parent # Root0
  <2>1. orig = <<orig[1], -1>> /\ \A k \in DOMAIN map : map[k] \in Nat \ {0}
      BY <1>5, <1>7
  <2>2. orig[2] = -1
      BY <2>1
  <2> QED BY <2>1, <2>2 DEF NameFor, Numbered
<1> HIDE DEF o, map, name
<1>11. \A p \in Live' : \A k \in DOMAIN objs'[p].local_name_map : objs'[p].local_name_map[k] \in Nat \ {0}
  <2> TAKE p \in Live'
  <2>1. CASE p = o
      BY <2>1, <1>3
  <2>2. CASE p = Parent
      BY <2>2, <1>1, <1>4, <1>5, <1>9, <1>10 DEF Live
  <2>3. CASE p # o /\ p # Parent
      BY <2>3, <1>1, <1>4, <1>7
  <2> QED BY <2>1, <2>2, <2>3
<1>12. ASSUME NEW q \in Live', objs'[q].parent # Root0
       PROVE  LET after == objs'[objs'[q].parent].local_name_map IN
              /\ objs'[q].orig = <<objs'[q].orig[1], -1>>
              /\ objs'[q].orig \in DOMAIN after
              /\ objs'[q].name = objs'[q].orig
                 \/ \E k \in 1..(after[objs'[q].orig] - 1) : objs'[q].name = <<objs'[q].orig[1], k>>
  <2>1. CASE q = o
    <3>1. Parent # Root0
        BY <2>1, <1>3, <1>12
    <3>2. CASE orig \notin DOMAIN map
        BY <2>1, <3>1, <3>2, <1>3, <1>4, <1>9, <1>10
    <3>3. CASE orig \in DOMAIN map
      <4>1. /\ CountName(map, orig)[orig] = map[orig] + 1 /\ map[orig] \in Nat \ {0}
            /\ name = <<orig[1], map[orig]>>
          BY <3>1, <3>3, <1>9, <1>10
      <4>2. map[orig] \in 1..(CountName(map, orig)[orig] - 1)
          BY <4>1
      <4>3. \E k \in 1..(CountName(map, orig)[orig] - 1) : name = <<orig[1], k>>
          BY <4>1, <4>2
      <4> QED BY <2>1, <3>1, <4>3, <1>3, <1>4, <1>9, <1>10
    <3> QED BY <3>2, <3>3
  <2>2. CASE q \in Live
    <3>1. /\ objs'[q].parent = objs[q].parent /\ objs'[q].orig = objs[q].orig
          /\ objs'[q].name = objs[q].name /\ objs[q].parent \in DOMAIN objs /\ objs[q].parent # Root0
        BY <2>2, <1>1, <1>2, <1>6, <1>12
    <3>2. CASE objs[q].parent # Parent
        BY <2>2, <3>1, <3>2, <1>4, <1>8
    <3>3. CASE objs[q].parent = Parent
      <4> DEFINE s == objs[q].orig
      <4>1. /\ s = <<s[1], -1>> /\ s \in DOMAIN map
            /\ objs[q].name = s \/ \E k \in 1..(map[s] - 1) : objs[q].name = <<s[1], k>>
          BY <2>2, <3>1, <3>3, <1>8 DEF map
      <4> HIDE DEF s
      <4>2. s \in DOMAIN CountName(map, orig) /\ map[s] \in Nat /\ CountName(map, orig)[s] \in {map[s], map[s] + 1}
          BY <3>1, <3>3, <4>1, <1>9, <1>10
      <4>3. \A k \in 1..(map[s] - 1) : k \in 1..(CountName(map, orig)[s] - 1)
          BY <4>2
      <4>4. objs[q].name = s \/ \E k \in 1..(CountName(map, orig)[s] - 1) : objs[q].name = <<s[1], k>>
          BY <4>1, <4>3
      <4> QED BY <3>1, <3>3, <4>1, <4>2, <4>4, <1>4 DEF s
    <3> QED BY <3>2, <3>3
  <2> QED BY <1>1, <2>1, <2>2
<1>13. Counted'
    BY <1>11, <1>12 DEF Counted
<1>14. ASSUME NEW r \in Live, objs[r].parent = Parent, Parent # Root0
       PROVE  objs[r].name # name
  <2> DEFINE s == objs[r].orig
  <2>1. /\ s = <<s[1], -1>> /\ s \in DOMAIN map
        /\ objs[r].name = s \/ \E k \in 1..(map[s] - 1) : objs[r].name = <<s[1], k>>
      BY <1>8, <1>14 DEF map
  <2> HIDE DEF s
  <2>2. orig = <<orig[1], -1>> /\ orig[2] = -1 /\ s[2] = -1
    <3>1. orig = <<orig[1], -1>>
        BY <1>10, <1>14
    <3> QED BY <2>1, <3>1
  <2>3. CASE orig \notin DOMAIN map
    <3>1. name = orig /\ s # orig
        BY <2>1, <2>3, <1>10, <1>14
    <3>2. \A k \in 1..(map[s] - 1) : <<s[1], k>> # orig
      <4> TAKE k \in 1..(map[s] - 1)
      <4>1. <<s[1], k>>[2] = k /\ k # -1
          OBVIOUS
      <4> QED BY <2>2, <4>1
    <3> QED BY <2>1, <3>1, <3>2
  <2>4. CASE orig \in DOMAIN map
    <3>1. name = <<orig[1], map[orig]>> /\ map[orig] \in Nat \ {0}
        BY <2>4, <1>10, <1>14
    <3>2. name # s
      <4>1. <<orig[1], map[orig]>>[2] = map[orig] /\ map[orig] # -1
          BY <3>1
      <4> QED BY <2>2, <3>1, <4>1
    <3>3. \A k \in 1..(map[s] - 1) : <<s[1], k>> # name
      <4> TAKE k \in 1..(map[s] - 1)
      <4> SUFFICES ASSUME <<s[1], k>> = name PROVE FALSE
          OBVIOUS
      <4>1. s[1] = orig[1] /\ k = map[orig]
          BY <3>1
      <4>2. s = orig
          BY <2>1, <2>2, <4>1
      <4> QED BY <3>1, <4>1, <4>2
    <3> QED BY <2>1, <3>2, <3>3
  <2> QED BY <2>3, <2>4
<1>15. NamesApart'
  <2> SUFFICES ASSUME NEW q \in Live', NEW r \in Live', objs'[q].parent = objs'[r].parent,
                      objs'[q].parent # Root0, objs'[q].name = objs'[r].name
               PROVE  q = r
      BY DEF NamesApart
  <2>1. CASE q \in Live /\ r \in Live
      BY <2>1, <1>1, <1>2 DEF TreeInv, NamesApart
  <2>2. CASE q = o /\ r \in Live
      BY <2>2, <1>1, <1>2, <1>3, <1>14
  <2>3. CASE q \in Live /\ r = o
      BY <2>3, <1>1, <1>2, <1>3, <1>14
  <2> QED BY <1>1, <2>1, <2>2, <2>3
<1> QED BY <1>13, <1>15

LEMMA NewFullApart ==
    ASSUME TreeInv, NEW class, NEW orig, NewObject(class, orig), NamesApart'
    PROVE  FullApart'
PROOF
<1> DEFINE o == created + 1
           n == Len(crv_obj_stack)
<1>1. /\ o \notin DOMAIN objs /\ DOMAIN objs' = DOMAIN objs \union {o}
      /\ Live' = Live \union {o} /\ o # Root0 /\ Live \subseteq DOMAIN objs
    BY NewFacts DEF Live
<1>2. \A q \in DOMAIN objs : /\ objs'[q].parent = objs[q].parent /\ objs'[q].full = objs[q].full
                             /\ objs'[q].name = objs[q].name /\ objs'[q].above = objs[q].above
    BY NewFacts DEF SameBody
<1>3. /\ objs'[o].parent = Parent /\ objs'[o].full = NewFull(orig)
      /\ objs'[o].name = NameFor(objs[Parent].local_name_map, orig)
      /\ objs'[o].above = objs[Parent].above \union {o}
    BY NewNode
<1>4. /\ Len(NewFull(orig)) = n + 1
      /\ NewFull(orig)[n + 1] = NameFor(objs[Parent].local_name_map, orig)
      /\ \A j \in 1..n : NewFull(orig)[j] = objs[crv_obj_stack[j]].name
    BY NewFullFacts
<1>5. \A q \in DOMAIN objs :
          /\ q \in objs[q].above /\ objs[q].above \subseteq DOMAIN objs
          /\ \A a \in objs[q].above : objs[a].above \subseteq objs[q].above
    BY DEF TreeInv, Around, Ancestors
<1>6. /\ Parent \in DOMAIN objs
      /\ Parent # Root0 => crv_obj_stack # <<>> /\ Parent = crv_obj_stack[n] /\ n \in 1..n
      /\ n \in Nat /\ (Parent # Root0 => Parent \in Live)
    BY ParentFacts
<1>7. Parent # Root0 => /\ Len(objs[Parent].full) = n
                        /\ \A j \in 1..n : objs[Parent].full[j] = objs[crv_obj_stack[j]].name
    BY <1>6 DEF TreeInv, Constructing
<1>8. objs[Root0].above = {Root0}
    BY DEF TreeInv, Addresses, Ancestors
<1>9. \A q \in Live : LET full == objs[q].full IN
          /\ Len(full) \in Nat \ {0} /\ full = [j \in 1..Len(full) |-> full[j]]
          /\ full[Len(full)] = objs[q].name
    BY DEF TreeInv, FullNames
<1>10. \A q \in Live : /\ objs[q].parent \in DOMAIN objs
                       /\ objs[q].above = {q} \union objs[objs[q].parent].above
    BY DEF TreeInv, TreeSound, Ancestors
<1>11. \A q \in Live : objs[q].parent = Root0 => Len(objs[q].full) = 1
    BY DEF TreeInv, FullNames
<1>12. \A q \in Live : objs[q].parent # Root0 =>
          /\ Len(objs[q].full) = Len(objs[objs[q].parent].full) + 1
          /\ \A j \in 1..Len(objs[objs[q].parent].full) : objs[q].full[j] = objs[objs[q].parent].full[j]
    BY DEF TreeInv, FullNames
<1> HIDE DEF o, n
<1>13. ASSUME NEW r \in Live, NEW a \in objs[Parent].above \intersect objs[r].above, a # Root0,
              objs[r].full = NewFull(orig)
       PROVE  FALSE
  <2>1. Parent # Root0 /\ Parent \in Live
      BY <1>6, <1>8, <1>13
  <2>2. objs[r].parent # Root0
    <3>1. n \in Nat /\ n >= 1
        BY <2>1, <1>6
    <3>2. Len(objs[r].full) = n + 1
        BY <1>4, <1>13
    <3>3. objs[r].parent = Root0 => Len(objs[r].full) = 1
        BY <1>11
    <3> QED BY <3>1, <3>2, <3>3
  <2> DEFINE p == objs[r].parent
  <2>3. p \in Live /\ p \in DOMAIN objs
      BY <2>2, <1>10 DEF Live
  <2> HIDE DEF p
  <2>4. Len(objs[p].full) = n /\ \A j \in 1..n : objs[p].full[j] = objs[Parent].full[j]
    <3>1. Len(objs[r].full) = Len(objs[p].full) + 1 /\ Len(objs[p].full) \in Nat
        BY <2>2, <2>3, <1>9, <1>12 DEF p
    <3>2. Len(objs[p].full) = n
        BY <3>1, <1>4, <1>6, <1>13
    <3>3. \A j \in 1..n : objs[p].full[j] = NewFull(orig)[j]
        BY <2>2, <3>2, <1>12, <1>13 DEF p
    <3> QED BY <2>1, <3>2, <3>3, <1>4, <1>7
  <2>5. objs[p].full = objs[Parent].full
    <3>1. objs[p].full = [j \in 1..n |-> objs[p].full[j]]
        BY <2>3, <2>4, <1>9
    <3>2. objs[Parent].full = [j \in 1..n |-> objs[Parent].full[j]]
        BY <2>1, <1>7, <1>9
    <3> QED BY <2>4, <3>1, <3>2
  <2>6. \E b \in objs[p].above \intersect objs[Parent].above : b # Root0
    <3>1. CASE a = r
      <4>1. p \in objs[r].above /\ objs[r].above \subseteq objs[Parent].above
          BY <2>3, <3>1, <1>1, <1>5, <1>6, <1>10, <1>13 DEF p
      <4> QED BY <4>1, <2>2, <2>3, <1>5 DEF p
    <3>2. CASE a # r
        BY <3>2, <1>10, <1>13 DEF p
    <3> QED BY <3>1, <3>2
  <2>7. p = Parent
      BY <2>1, <2>3, <2>5, <2>6 DEF TreeInv, FullApart, Ancestors
  <2>8. objs[r].name = objs'[o].name
    <3>1. objs[r].full[n + 1] = objs[r].name
        BY <1>4, <1>9, <1>13
    <3> QED BY <3>1, <1>3, <1>4, <1>13
  <2>9. r = o
    <3>1. r \in Live' /\ o \in Live' /\ objs'[r].parent = objs'[o].parent /\ objs'[r].parent # Root0
        BY <2>1, <2>7, <1>1, <1>2, <1>3 DEF p
    <3>2. objs'[r].name = objs'[o].name
        BY <2>8, <1>1, <1>2
    <3> QED BY <3>1, <3>2 DEF NamesApart
  <2> QED BY <2>9, <1>1
<1>14. ASSUME NEW q \in Live', NEW r \in Live', NEW a \in objs'[q].above \intersect objs'[r].above,
              a # Root0, objs'[q].full = objs'[r].full
       PROVE  q = r
  <2>1. CASE q \in Live /\ r \in Live
    <3>1. /\ objs'[q].full = objs[q].full /\ objs'[r].full = objs[r].full
          /\ objs'[q].above = objs[q].above /\ objs'[r].above = objs[r].above
        BY <2>1, <1>1, <1>2
    <3> QED BY <2>1, <3>1, <1>14 DEF TreeInv, FullApart, Ancestors
  <2>2. ASSUME NEW s \in Live, a \in objs'[s].above, a \in objs'[o].above, objs'[s].full = objs'[o].full
        PROVE  FALSE
    <3>1. objs'[s].full = objs[s].full /\ objs'[s].above = objs[s].above /\ o \notin objs[s].above
        BY <1>1, <1>2, <1>5
    <3>2. a \in objs[Parent].above \intersect objs[s].above /\ objs[s].full = NewFull(orig)
        BY <2>2, <3>1, <1>3
    <3> QED BY <3>2, <1>13, <1>14
  <2>3. CASE q = o /\ r \in Live
      BY <2>2, <2>3, <1>14
  <2>4. CASE q \in Live /\ r = o
      BY <2>2, <2>4, <1>14
  <2> QED BY <1>1, <2>1, <2>3, <2>4
<1> QED BY <1>14 DEF FullApart, Ancestors

LEMMA NewKeepsTree ==
    ASSUME TreeInv, NEW class, NEW orig, NewObject(class, orig),
           \E n \in DOMAIN Class : class = Class[n],
           crv_obj_stack # <<>> => orig = <<orig[1], -1>>,
           frames' \in Seq(Nat), Len(frames') = Len(crv_obj_stack) + 1
    PROVE  TreeInv'
BY NewAddresses, NewTree, NewConstructing, NewNames, NewFullApart DEF TreeInv

(***************************************************************************)
(* The destructor.                                                         *)
(***************************************************************************)
(* What is destroyed, and what the rest keeps.                             *)
LEMMA DestroyFacts ==
    ASSUME TreeInv, NEW o \in Live, Destroy(o)
    PROVE  /\ crv_obj_stack = <<>> /\ objs[o].above = {o, Root0} /\ objs[o].parent = Root0
           /\ DOMAIN objs' = DOMAIN objs \ Subtree(o)
           /\ Root0 \in DOMAIN objs' /\ Live' = Live \ Subtree(o)
           /\ \A q \in Live' : objs'[q] = objs[q]
           /\ objs'[Root0] = RemoveChild(objs[Root0], o)
           /\ \A q \in DOMAIN objs' : \A a \in objs[q].above : a \in DOMAIN objs'
           /\ \A q \in Live : q \notin Live' => \A a \in objs[q].above : a \in Live' => FALSE
PROOF
<1>1. crv_obj_stack = <<>> /\ objs[o].parent = Root0
    BY DEF Destroy
<1>2. objs[o].above = {o, Root0} /\ objs[Root0].above = {Root0} /\ Root0 \in DOMAIN objs
  <2>1. objs[o].above = {o} \union objs[Root0].above
      BY <1>1 DEF TreeInv, TreeSound, Ancestors
  <2> QED BY <2>1 DEF TreeInv, Addresses, Ancestors
<1>3. /\ DOMAIN objs' = DOMAIN objs \ Subtree(o)
      /\ \A q \in DOMAIN objs' : objs'[q] = IF q = Root0 THEN RemoveChild(objs[Root0], o) ELSE objs[q]
    BY DEF Destroy
<1>4. Subtree(o) = {q \in DOMAIN objs : o \in objs[q].above}
    BY DEF Subtree, Ancestors
<1>5. o # Root0 /\ Live = DOMAIN objs \ {Root0} /\ Live' = DOMAIN objs' \ {Root0}
    BY DEF Live
<1>6. Root0 \in DOMAIN objs'
    BY <1>2, <1>3, <1>4, <1>5
<1>7. \A q \in DOMAIN objs :
          /\ q \in objs[q].above /\ objs[q].above \subseteq DOMAIN objs
          /\ \A a \in objs[q].above : objs[a].above \subseteq objs[q].above
          /\ \A a, b \in objs[q].above : a \in objs[b].above \/ b \in objs[a].above
    BY DEF TreeInv, Around, Ancestors
<1>8. \A q \in DOMAIN objs' : \A a \in objs[q].above : a \in DOMAIN objs'
    BY <1>3, <1>4, <1>7
<1>9. ASSUME NEW q \in Live, q \notin Live', NEW a \in objs[q].above, a \in Live'
      PROVE  FALSE
  <2>1. o \in objs[q].above /\ a \in DOMAIN objs /\ o \notin objs[a].above /\ a # Root0
      BY <1>3, <1>4, <1>5, <1>9
  <2>2. a \in objs[o].above
      BY <2>1, <1>5, <1>7, <1>9
  <2> QED BY <2>1, <2>2, <1>2, <1>7
<1> QED BY <1>1, <1>2, <1>3, <1>5, <1>6, <1>8, <1>9

(* An element removed from the children.                                   *)
LEMMA RemovedOnce ==
    ASSUME NEW ch \in Seq(Nat), NEW i \in 1..Len(ch)
    PROVE  /\ RemoveAt(ch, i) \in Seq(Nat) /\ Len(RemoveAt(ch, i)) = Len(ch) - 1
           /\ \A j \in 1..(Len(ch) - 1) : RemoveAt(ch, i)[j] = ch[IF j < i THEN j ELSE j + 1]
PROOF
<1> DEFINE s == SubSeq(ch, 1, i - 1)
           t == SubSeq(ch, i + 1, Len(ch))
<1>1. Len(ch) \in Nat /\ i \in Nat
    OBVIOUS
<1>2. s \in Seq(Nat) /\ Len(s) = i - 1 /\ \A j \in 1..(i - 1) : s[j] = ch[j]
    BY <1>1
<1>3. t \in Seq(Nat) /\ Len(t) = Len(ch) - i /\ \A j \in 1..(Len(ch) - i) : t[j] = ch[i + j]
    BY <1>1
<1> HIDE DEF s, t
<1>4. /\ s \o t \in Seq(Nat) /\ Len(s \o t) = Len(ch) - 1
      /\ \A j \in 1..(Len(ch) - 1) : (s \o t)[j] = IF j <= i - 1 THEN s[j] ELSE t[j - (i - 1)]
  <2>1. /\ s \o t \in Seq(Nat) /\ Len(s \o t) = Len(s) + Len(t)
        /\ \A j \in 1..(Len(s) + Len(t)) :
              (s \o t)[j] = IF j <= Len(s) THEN s[j] ELSE t[j - Len(s)]
      BY <1>2, <1>3, ConcatProperties
  <2>2. Len(s) + Len(t) = Len(ch) - 1
      BY <1>1, <1>2, <1>3
  <2> QED BY <2>1, <2>2, <1>2
<1>5. RemoveAt(ch, i) = s \o t
    BY DEF RemoveAt, s, t
<1>6. ASSUME NEW j \in 1..(Len(ch) - 1)
      PROVE  (s \o t)[j] = ch[IF j < i THEN j ELSE j + 1]
  <2>1. CASE j < i
      BY <2>1, <1>1, <1>2, <1>4
  <2>2. CASE ~(j < i)
    <3>1. j - (i - 1) \in 1..(Len(ch) - i) /\ i + (j - (i - 1)) = j + 1
        BY <2>2, <1>1
    <3>2. (s \o t)[j] = t[j - (i - 1)]
      <4>1. ~(j <= i - 1)
          BY <2>2, <1>1
      <4> QED BY <4>1, <1>4
    <3>3. t[j - (i - 1)] = ch[i + (j - (i - 1))]
        BY <3>1, <1>3
    <3> QED BY <2>2, <3>1, <3>2, <3>3
  <2> QED BY <2>1, <2>2
<1> QED BY <1>4, <1>5, <1>6

(* The root loses the child.                                               *)
LEMMA RootWithout ==
    ASSUME TreeInv, NEW o \in Live, objs[o].parent = Root0
    PROVE  LET ch == objs[Root0].children
               r == RemoveChild(objs[Root0], o) IN
           /\ IsObject(r) /\ SameBody(r, objs[Root0])
           /\ \E i \in 1..Len(ch) : /\ \A j \in 1..Len(ch) : ch[j] = o <=> j = i
                                    /\ r.children = RemoveAt(ch, i)
PROOF
<1> DEFINE ch == objs[Root0].children
           place == CHOOSE i \in DOMAIN ch : ch[i] = o
<1>1. IsObject(objs[Root0]) /\ ch \in Seq(Nat)
    BY DEF TreeInv, Addresses
<1>2. DOMAIN ch = 1..Len(ch)
    BY <1>1
<1>3. PICK i \in 1..Len(ch) : \A j \in 1..Len(ch) : ch[j] = o <=> j = i
  <2>1. \E i \in DOMAIN ch : \A j \in DOMAIN ch : ch[j] = o <=> j = i
      BY DEF TreeInv, TreeSound
  <2> HIDE DEF ch
  <2> QED BY <2>1, <1>2
<1> HIDE DEF ch
<1>4. place = i
    BY <1>2, <1>3
<1>5. PICK map : RemoveChild(objs[Root0], o)
                    = [objs[Root0] EXCEPT !.children = RemoveAt(@, place), !.local_name_map = map]
    BY DEF RemoveChild, ch
<1> HIDE DEF place
<1>6. RemoveChild(objs[Root0], o)
          = [objs[Root0] EXCEPT !.children = RemoveAt(ch, i), !.local_name_map = map]
    BY <1>1, <1>4, <1>5 DEF IsObject, ch
<1>7. /\ IsObject(RemoveChild(objs[Root0], o)) /\ SameBody(RemoveChild(objs[Root0], o), objs[Root0])
      /\ RemoveChild(objs[Root0], o).children = RemoveAt(ch, i)
  <2> DEFINE new == RemoveAt(ch, i)
  <2>1. RemoveChild(objs[Root0], o) = [objs[Root0] EXCEPT !.children = new, !.local_name_map = map]
      BY <1>6
  <2> HIDE DEF new
  <2>2. IsObject(RemoveChild(objs[Root0], o))
      BY <1>1, <2>1 DEF IsObject
  <2>3. SameBody(RemoveChild(objs[Root0], o), objs[Root0])
      BY <1>1, <2>1 DEF IsObject, SameBody
  <2>4. RemoveChild(objs[Root0], o).children = new
      BY <1>1, <2>1 DEF IsObject
  <2> QED BY <2>2, <2>3, <2>4 DEF new
<1> QED BY <1>3, <1>7 DEF ch

LEMMA DestroyKeepsTree ==
    ASSUME TreeInv, NEW o \in Live, Destroy(o)
    PROVE  TreeInv'
PROOF
<1>1. /\ crv_obj_stack = <<>> /\ objs[o].parent = Root0
      /\ DOMAIN objs' = DOMAIN objs \ Subtree(o)
      /\ Root0 \in DOMAIN objs' /\ Live' = Live \ Subtree(o)
      /\ \A q \in Live' : objs'[q] = objs[q]
      /\ objs'[Root0] = RemoveChild(objs[Root0], o)
    BY DestroyFacts
<1>2. \A q \in DOMAIN objs' : \A a \in objs[q].above : a \in DOMAIN objs'
    BY DestroyFacts
<1>3. \A q \in Live : q \notin Live' => \A a \in objs[q].above : a \in Live' => FALSE
    BY DestroyFacts
<1>4. PICK i \in 1..Len(objs[Root0].children) :
          /\ \A j \in 1..Len(objs[Root0].children) : objs[Root0].children[j] = o <=> j = i
          /\ objs'[Root0].children = RemoveAt(objs[Root0].children, i)
    BY <1>1, RootWithout
<1>5. IsObject(objs'[Root0]) /\ SameBody(objs'[Root0], objs[Root0])
    BY <1>1, RootWithout
<1>6. /\ created' = created /\ crv_obj_stack' = crv_obj_stack /\ frames' = frames
      /\ \A f \in DOMAIN crv_obj_map' : /\ f \in DOMAIN crv_obj_map /\ crv_obj_map'[f] = crv_obj_map[f]
                                        /\ f \notin {objs[q].full : q \in Subtree(o)}
    BY DEF Destroy
<1>7. Live' = DOMAIN objs' \ {Root0} /\ Live' \subseteq Live /\ Live = DOMAIN objs \ {Root0}
    BY <1>1 DEF Live
<1>8. \A q \in DOMAIN objs' : /\ q \in DOMAIN objs /\ IsObject(objs'[q]) /\ SameBody(objs'[q], objs[q])
  <2> TAKE q \in DOMAIN objs'
  <2>1. CASE q = Root0
      BY <2>1, <1>1, <1>5
  <2>2. CASE q # Root0
    <3>1. q \in Live' /\ objs'[q] = objs[q] /\ IsObject(objs[q])
        BY <2>2, <1>1, <1>7 DEF TreeInv, Addresses
    <3> QED BY <3>1, <1>1 DEF SameBody
  <2> QED BY <2>1, <2>2
<1>9. objs[Root0].children \in Seq(Nat)
    BY DEF TreeInv, Addresses
<1>10. /\ objs'[Root0].children \in Seq(Nat)
       /\ DOMAIN objs'[Root0].children = 1..(Len(objs[Root0].children) - 1)
       /\ Len(objs[Root0].children) \in Nat
       /\ \A j \in 1..(Len(objs[Root0].children) - 1) :
             objs'[Root0].children[j] = objs[Root0].children[IF j < i THEN j ELSE j + 1]
  <2> DEFINE ch == objs[Root0].children
  <2> HIDE DEF ch
  <2>1. ch \in Seq(Nat) /\ i \in 1..Len(ch) /\ objs'[Root0].children = RemoveAt(ch, i)
      BY <1>4, <1>9 DEF ch
  <2>2. /\ RemoveAt(ch, i) \in Seq(Nat) /\ Len(RemoveAt(ch, i)) = Len(ch) - 1
        /\ \A j \in 1..(Len(ch) - 1) : RemoveAt(ch, i)[j] = ch[IF j < i THEN j ELSE j + 1]
      BY <2>1, RemovedOnce
  <2>3. DOMAIN RemoveAt(ch, i) = 1..(Len(ch) - 1) /\ Len(ch) \in Nat
      BY <2>1, <2>2
  <2> QED BY <2>1, <2>2, <2>3 DEF ch
<1>11. Addresses'
  <2>1. \A q \in DOMAIN objs' : objs'[q].children \in Seq(Nat)
      BY <1>1, <1>7, <1>10 DEF TreeInv, Addresses
  <2>2. Kind(Root0)' = "root" /\ Ancestors(Root0)' = {Root0}
      BY <1>1, <1>8 DEF TreeInv, Addresses, Kind, Ancestors, SameBody
  <2>3. \A q \in Live' : \E n \in DOMAIN Class : objs'[q].class = Class[n]
      BY <1>1, <1>7 DEF TreeInv, Addresses
  <2>4. created' \in Nat /\ DOMAIN objs' \subseteq 0..created'
      BY <1>6, <1>8 DEF TreeInv, Addresses
  <2> QED BY <1>1, <1>8, <2>1, <2>2, <2>3, <2>4 DEF Addresses
<1>12. \A q \in DOMAIN objs' : objs'[q].above = objs[q].above /\ objs'[q].parent = objs[q].parent
    BY <1>8 DEF SameBody
<1>13. \A q \in DOMAIN objs :
          /\ q \in objs[q].above
          /\ \A a \in objs[q].above : objs[a].above \subseteq objs[q].above
          /\ \A a, b \in objs[q].above : a \in objs[b].above \/ b \in objs[a].above
    BY DEF TreeInv, Around, Ancestors
<1>14. Around'
    BY <1>2, <1>8, <1>12, <1>13 DEF Around, Ancestors
<1>15. \A q \in Live : /\ objs[q].parent \in DOMAIN objs
                       /\ objs[q].above = {q} \union objs[objs[q].parent].above
                       /\ Root0 \in objs[q].above
    BY DEF TreeInv, TreeSound, Ancestors
<1>16. \A q \in Live' : objs[q].parent \in DOMAIN objs' /\ objs[q].parent \in DOMAIN objs
    BY <1>2, <1>7, <1>13, <1>15
<1>17. \A q \in Live' : q # o
    BY <1>1, <1>7, <1>13 DEF Subtree, Ancestors
<1>18. TreeSound'
  <2>1. ASSUME NEW q \in Live'
        PROVE  LET siblings == objs'[objs'[q].parent].children IN
               \E k \in DOMAIN siblings : \A j \in DOMAIN siblings : siblings[j] = q <=> j = k
    <3>1. PICK k \in DOMAIN objs[objs[q].parent].children :
             \A j \in DOMAIN objs[objs[q].parent].children :
                objs[objs[q].parent].children[j] = q <=> j = k
        BY <1>7 DEF TreeInv, TreeSound
    <3>2. objs'[q].parent = objs[q].parent
        BY <1>1
    <3>3. CASE objs[q].parent # Root0
      <4>1. objs'[objs[q].parent] = objs[objs[q].parent]
          BY <3>3, <1>1, <1>7, <1>16
      <4> QED BY <3>1, <3>2, <4>1
    <3>4. CASE objs[q].parent = Root0
      <4> DEFINE ch == objs[Root0].children
                 new == objs'[Root0].children
                 m == IF k < i THEN k ELSE k - 1
      <4>1. k \in 1..Len(ch) /\ \A j \in 1..Len(ch) : ch[j] = q <=> j = k
          BY <3>1, <3>4, <1>9
      <4>2. i \in 1..Len(ch) /\ ch[i] = o /\ o # q /\ k # i
          BY <4>1, <1>4, <1>17
      <4>3. /\ DOMAIN new = 1..(Len(ch) - 1) /\ Len(ch) \in Nat
            /\ \A j \in 1..(Len(ch) - 1) : new[j] = ch[IF j < i THEN j ELSE j + 1]
          BY <1>10
      <4> HIDE DEF ch, new
      <4>4. m \in DOMAIN new
          BY <4>1, <4>2, <4>3
      <4>5. ASSUME NEW j \in DOMAIN new
            PROVE  new[j] = q <=> j = m
        <5>1. (IF j < i THEN j ELSE j + 1) \in 1..Len(ch) /\ j \in 1..(Len(ch) - 1)
            BY <4>3
        <5>2. new[j] = q <=> (IF j < i THEN j ELSE j + 1) = k
            BY <4>1, <4>3, <5>1
        <5> QED BY <4>1, <4>2, <5>1, <5>2
      <4> HIDE DEF m
      <4> QED BY <3>2, <3>4, <4>4, <4>5 DEF new
    <3> QED BY <3>3, <3>4
  <2>2. ASSUME NEW q \in DOMAIN objs', NEW j \in DOMAIN objs'[q].children
        PROVE  objs'[q].children[j] \in Live' /\ objs'[objs'[q].children[j]].parent = q
    <3>1. \A k \in DOMAIN objs[q].children : /\ objs[q].children[k] \in Live
                                             /\ objs[objs[q].children[k]].parent = q
        BY <1>8 DEF TreeInv, TreeSound
    <3>2. CASE q # Root0
      <4>1. objs'[q] = objs[q] /\ q \in Live'
          BY <3>2, <1>1, <1>7
      <4> DEFINE x == objs[q].children[j]
      <4>2. x \in Live /\ objs[x].parent = q
          BY <3>1, <4>1
      <4>3. q \in objs[x].above
          BY <4>2, <1>8, <1>13, <1>15
      <4> HIDE DEF x
      <4>4. x \in Live'
          BY <1>3, <4>1, <4>2, <4>3
      <4> QED BY <4>1, <4>2, <4>4, <1>1 DEF x
    <3>3. CASE q = Root0
      <4> DEFINE ch == objs[Root0].children
                 k == IF j < i THEN j ELSE j + 1
                 x == ch[k]
      <4>1. j \in 1..(Len(ch) - 1) /\ objs'[q].children[j] = x /\ Len(ch) \in Nat
          BY <3>3, <1>10
      <4>2. DOMAIN ch = 1..Len(ch) /\ i \in 1..Len(ch)
          BY <1>4, <1>9
      <4> HIDE DEF ch
      <4>3. k \in 1..Len(ch) /\ k # i
          BY <4>1, <4>2
      <4> HIDE DEF k
      <4>4. x \in Live /\ objs[x].parent = Root0 /\ x # o
          BY <3>1, <3>3, <4>2, <4>3, <1>4 DEF ch
      <4> HIDE DEF x
      <4>5. objs[x].above = {x} \union objs[Root0].above /\ objs[Root0].above = {Root0}
          BY <4>4, <1>15 DEF TreeInv, Addresses, Ancestors
      <4>6. o \notin objs[x].above
          BY <4>4, <4>5 DEF Live
      <4>7. x \in Live'
          BY <4>4, <4>6, <1>1 DEF Subtree, Ancestors
      <4> QED BY <3>3, <4>1, <4>4, <4>7, <1>1
    <3> QED BY <3>2, <3>3
  <2>3. \A q \in Live' : /\ objs'[q].parent \in DOMAIN objs'
                         /\ objs'[q].above = {q} \union objs'[objs'[q].parent].above
                         /\ Root0 \in objs'[q].above
      BY <1>7, <1>8, <1>12, <1>15, <1>16
  <2>4. DOMAIN crv_obj_stack' = {}
      BY <1>1, <1>6
  <2> QED BY <2>1, <2>2, <2>3, <2>4 DEF TreeSound, Ancestors
<1>19. Constructing'
    BY <1>1, <1>6 DEF TreeInv, Constructing
<1>20. FullNames'
  <2>1. \A q \in Live' : /\ objs'[q] = objs[q] /\ q \in Live
                         /\ objs[q].parent # Root0 => objs'[objs[q].parent] = objs[objs[q].parent]
      BY <1>1, <1>7, <1>16
  <2>2. \A q \in Live' : LET full == objs'[q].full IN
          /\ Len(full) \in Nat \ {0}
          /\ full = [j \in 1..Len(full) |-> full[j]]
          /\ full[Len(full)] = objs'[q].name
      BY <2>1 DEF TreeInv, FullNames
  <2>3. ASSUME NEW q \in Live'
        PROVE  LET p == objs'[q].parent
                   full == objs'[q].full IN
               IF p = Root0 THEN Len(full) = 1
               ELSE /\ Len(full) = Len(objs'[p].full) + 1
                    /\ \A j \in 1..Len(objs'[p].full) : full[j] = objs'[p].full[j]
    <3>1. CASE objs[q].parent = Root0
        BY <2>1, <3>1 DEF TreeInv, FullNames
    <3>2. CASE objs[q].parent # Root0
      <4>1. /\ Len(objs[q].full) = Len(objs[objs[q].parent].full) + 1
            /\ \A j \in 1..Len(objs[objs[q].parent].full) :
                  objs[q].full[j] = objs[objs[q].parent].full[j]
        <5>1. FullNames /\ q \in Live
            BY <2>1 DEF TreeInv
        <5> QED BY <3>2, <5>1 DEF FullNames
      <4> QED BY <2>1, <3>2, <4>1
    <3> QED BY <3>1, <3>2
  <2> QED BY <2>2, <2>3 DEF FullNames
<1>21. Counted'
    BY <1>1, <1>7, <1>16 DEF TreeInv, Counted
<1>22. NamesApart' /\ FullApart'
    BY <1>1, <1>7 DEF TreeInv, NamesApart, FullApart, Ancestors
<1>23. FindSound'
  <2> SUFFICES ASSUME NEW f \in DOMAIN crv_obj_map'
               PROVE  crv_obj_map'[f] \in Live' /\ objs'[crv_obj_map'[f]].full = f
      BY DEF FindSound
  <2>1. crv_obj_map[f] \in Live /\ objs[crv_obj_map[f]].full = f
      BY <1>6 DEF TreeInv, FindSound
  <2>2. crv_obj_map[f] \notin Subtree(o)
      BY <2>1, <1>6
  <2> QED BY <2>1, <2>2, <1>1, <1>6
<1> QED BY <1>11, <1>14, <1>18, <1>19, <1>20, <1>21, <1>22, <1>23 DEF TreeInv

(***************************************************************************)
(* Generators.                                                             *)
(***************************************************************************)
(* What a generator is built of.                                           *)
LEMMA BuildMember ==
    ASSUME NEW os, NEW o, NEW x
    PROVE  x \in Build(os, o) <=>
             \E c \in Constraints \intersect Subtree(o) : os[c].active /\
                \E i \in DOMAIN os[c].list :
                    x = [name |-> <<os[c].full, i>>, of |-> c, expr |-> os[c].list[i],
                         soft |-> os[c].class.kind = "soft"]
PROOF BY DEF Build

LEMMA BuildSame ==
    ASSUME NEW os, NEW ot, NEW o,
           \A c \in Constraints \intersect Subtree(o) :
               /\ os[c].active = ot[c].active /\ os[c].list = ot[c].list
               /\ os[c].full = ot[c].full /\ os[c].class = ot[c].class
    PROVE  Build(os, o) = Build(ot, o)
PROOF
<1>1. ASSUME NEW x PROVE x \in Build(os, o) <=> x \in Build(ot, o)
    BY BuildMember
<1> QED BY <1>1

LEMMA BuildMoves ==
    ASSUME Root0 \in DOMAIN objs, SameTree(objs'), NEW o \in DOMAIN objs
    PROVE  Build(objs, o)' = Build(objs', o)
PROOF BY SameSets DEF Build

(* Forgetting generators changes nothing else.                             *)
LEMMA ForgetFacts ==
    ASSUME NEW os, NEW I, SameTree(os)
    PROVE  LET rs == ForgetGenerator(os, I) IN
           /\ SameTree(rs)
           /\ \A q \in DOMAIN objs :
                 /\ rs[q].active = os[q].active /\ rs[q].list = os[q].list
                 /\ q \in I => ~rs[q].built
                 /\ q \notin I => rs[q] = os[q]
PROOF
<1> DEFINE rs == ForgetGenerator(os, I)
<1>1. DOMAIN rs = DOMAIN objs
    BY DEF ForgetGenerator, SameTree
<1>2. ASSUME NEW q \in DOMAIN objs
      PROVE  /\ IsObject(rs[q]) /\ SameNode(rs[q], objs[q])
             /\ rs[q].active = os[q].active /\ rs[q].list = os[q].list
             /\ q \in I => ~rs[q].built
             /\ q \notin I => rs[q] = os[q]
  <2>1. IsObject(os[q]) /\ SameNode(os[q], objs[q]) /\ q \in DOMAIN os
      BY DEF SameTree
  <2>2. rs[q] = IF q \in I THEN [os[q] EXCEPT !.built = FALSE, !.gen = {}, !.null = TRUE, !.goal = FALSE]
                ELSE os[q]
      BY <2>1 DEF ForgetGenerator
  <2> HIDE DEF rs
  <2>3. CASE q \notin I
      BY <2>1, <2>2, <2>3
  <2>4. CASE q \in I
    <3>1. rs[q] = [os[q] EXCEPT !.built = FALSE, !.gen = {}, !.null = TRUE, !.goal = FALSE]
        BY <2>2, <2>4
    <3>2. IsObject(rs[q])
        BY <2>1, <3>1 DEF IsObject
    <3>3. SameNode(rs[q], os[q])
        BY <2>1, <3>1 DEF IsObject, SameNode
    <3>4. rs[q].active = os[q].active /\ rs[q].list = os[q].list /\ rs[q].built = FALSE
        BY <2>1, <3>1 DEF IsObject
    <3>5. SameNode(rs[q], objs[q])
        BY <2>1, <3>3 DEF SameNode
    <3> QED BY <2>4, <3>2, <3>4, <3>5
  <2> QED BY <2>3, <2>4
<1> QED BY <1>1, <1>2 DEF SameTree

Current(os) == \A o \in Items : os[o].built => os[o].gen = Build(os, o)

(* request_rebuild reaches every generator that a change of the            *)
(* constraints C concerns.                                                 *)
LEMMA RequestReaches ==
    ASSUME BuiltIsCurrent, NEW C, NEW os, SameTree(os),
           \A q \in DOMAIN objs : os[q].built = objs[q].built /\ os[q].gen = objs[q].gen,
           \A q \in DOMAIN objs : q \notin C => os[q].active = objs[q].active /\ os[q].list = objs[q].list
    PROVE  LET rs == RequestRebuild(os, C) IN
           /\ SameTree(rs) /\ Current(rs)
           /\ \A q \in DOMAIN objs : rs[q].active = os[q].active /\ rs[q].list = os[q].list
           /\ \A q \in Items : rs[q].built => objs[q].built /\ rs[q].gen = objs[q].gen
           /\ \A q \in DOMAIN objs : rs[q].built => objs[q].built
PROOF
<1> DEFINE I == Items \intersect UNION {Ancestors(c) : c \in C}
           rs == RequestRebuild(os, C)
<1>0. ASSUME NEW c \in C, NEW x \in Items, x \in Ancestors(c)
      PROVE  x \in I
  <2>1. Ancestors(c) \in {Ancestors(d) : d \in C}
      OBVIOUS
  <2>2. x \in UNION {Ancestors(d) : d \in C}
      BY <2>1, <1>0
  <2> QED BY <2>2
<1>1. rs = ForgetGenerator(os, I)
    BY DEF RequestRebuild
<1> HIDE DEF I, rs
<1>2. SameTree(rs) /\ \A q \in DOMAIN objs : /\ rs[q].active = os[q].active /\ rs[q].list = os[q].list
                                             /\ q \in I => ~rs[q].built
                                             /\ q \notin I => rs[q] = os[q]
    BY <1>1, ForgetFacts
<1>3. \A q \in DOMAIN objs : rs[q].built => objs[q].built /\ rs[q].gen = objs[q].gen /\ q \notin I
    BY <1>2
<1>4. Items \subseteq DOMAIN objs /\ Constraints \subseteq DOMAIN objs
    BY DEF Items, Constraints, Live
<1>5. ASSUME NEW o \in Items, rs[o].built
      PROVE  rs[o].gen = Build(rs, o)
  <2>1. o \notin I /\ rs[o].gen = objs[o].gen /\ objs[o].built
      BY <1>3, <1>4, <1>5
  <2>2. ASSUME NEW c \in Constraints \intersect Subtree(o)
        PROVE  /\ rs[c].active = objs[c].active /\ rs[c].list = objs[c].list
               /\ rs[c].full = objs[c].full /\ rs[c].class = objs[c].class
    <3>1. c \notin C
      <4>1. o \in Ancestors(c)
          BY DEF Subtree
      <4> QED BY <2>1, <4>1, <1>0
    <3>2. c \in DOMAIN objs /\ SameNode(rs[c], objs[c])
        BY <1>2, <1>4 DEF SameTree
    <3> QED BY <1>2, <3>1, <3>2 DEF SameNode
  <2>3. Build(rs, o) = Build(objs, o)
      BY <2>2, BuildSame
  <2> QED BY <2>1, <2>3 DEF BuiltIsCurrent
<1> QED BY <1>2, <1>3, <1>4, <1>5 DEF Current, rs

LEMMA CurrentNow ==
    ASSUME Root0 \in DOMAIN objs, SameTree(objs'), Current(objs')
    PROVE  BuiltIsCurrent'
PROOF
<1>1. Items' = Items /\ Items \subseteq DOMAIN objs
    BY SameSets DEF Items, Live
<1>2. \A o \in Items : Build(objs, o)' = Build(objs', o)
    BY <1>1, BuildMoves
<1> QED BY <1>1, <1>2 DEF BuiltIsCurrent, Current

(* The edit of a list, and the switch of constraints.                      *)
WithList(c, l) == [objs EXCEPT ![c].list = l]

Lists(os, c, l) == \A q \in DOMAIN objs : os[q].list = IF q = c THEN l ELSE objs[q].list

LEMMA ListEdited ==
    ASSUME TreeInv, NEW c, NEW l
    PROVE  /\ SameTree(WithList(c, l)) /\ Lists(WithList(c, l), c, l)
           /\ \A q \in DOMAIN objs :
                 /\ WithList(c, l)[q].built = objs[q].built /\ WithList(c, l)[q].gen = objs[q].gen
                 /\ WithList(c, l)[q].active = objs[q].active
PROOF
<1> DEFINE os == [objs EXCEPT ![c].list = l]
<1>1. DOMAIN os = DOMAIN objs
    OBVIOUS
<1>2. ASSUME NEW q \in DOMAIN objs
      PROVE  /\ IsObject(os[q]) /\ SameNode(os[q], objs[q])
             /\ os[q].built = objs[q].built /\ os[q].gen = objs[q].gen
             /\ os[q].active = objs[q].active
             /\ os[q].list = IF q = c THEN l ELSE objs[q].list
  <2>1. IsObject(objs[q])
      BY DEF TreeInv, Addresses
  <2>2. CASE q # c
      BY <2>1, <2>2 DEF SameNode
  <2>3. CASE q = c
    <3>1. os[q] = [objs[q] EXCEPT !.list = l]
        BY <2>3
    <3> HIDE DEF os
    <3>2. IsObject(os[q])
        BY <2>1, <3>1 DEF IsObject
    <3>3. SameNode(os[q], objs[q])
        BY <2>1, <3>1 DEF IsObject, SameNode
    <3>4. /\ os[q].built = objs[q].built /\ os[q].gen = objs[q].gen
          /\ os[q].active = objs[q].active /\ os[q].list = l
        BY <2>1, <3>1 DEF IsObject
    <3> QED BY <2>3, <3>2, <3>3, <3>4
  <2> QED BY <2>2, <2>3
<1> QED BY <1>1, <1>2 DEF SameTree, WithList, Lists

LEMMA Switched ==
    ASSUME TreeInv, BuiltIsCurrent, NEW C, NEW b
    PROVE  LET rs == SetActive(objs, C, b) IN
           /\ SameTree(rs) /\ Current(rs)
           /\ \A q \in DOMAIN objs :
                 /\ rs[q].list = objs[q].list
                 /\ q \in C => rs[q].active = b
           /\ \A q \in Items : rs[q].built => objs[q].built /\ rs[q].gen = objs[q].gen
           /\ \A q \in DOMAIN objs : rs[q].built => objs[q].built
PROOF
<1> DEFINE changed == {c \in C : objs[c].active # b}
           os == [q \in DOMAIN objs |-> IF q \in changed THEN [objs[q] EXCEPT !.active = b] ELSE objs[q]]
<1>1. SetActive(objs, C, b) = RequestRebuild(os, changed)
    BY DEF SetActive
<1>2. ASSUME NEW q \in DOMAIN objs
      PROVE  /\ IsObject(os[q]) /\ SameNode(os[q], objs[q])
             /\ os[q].built = objs[q].built /\ os[q].gen = objs[q].gen /\ os[q].list = objs[q].list
             /\ os[q].active = IF q \in changed THEN b ELSE objs[q].active
  <2>1. IsObject(objs[q])
      BY DEF TreeInv, Addresses
  <2>2. CASE q \notin changed
      BY <2>1, <2>2 DEF SameNode
  <2>3. CASE q \in changed
    <3>1. os[q] = [objs[q] EXCEPT !.active = b]
        BY <2>3
    <3> HIDE DEF os
    <3>2. IsObject(os[q])
        BY <2>1, <3>1 DEF IsObject
    <3>3. SameNode(os[q], objs[q])
        BY <2>1, <3>1 DEF IsObject, SameNode
    <3>4. /\ os[q].built = objs[q].built /\ os[q].gen = objs[q].gen
          /\ os[q].active = b /\ os[q].list = objs[q].list
        BY <2>1, <3>1 DEF IsObject
    <3> QED BY <2>3, <3>2, <3>3, <3>4
  <2> QED BY <2>2, <2>3
<1>3. SameTree(os)
    BY <1>2 DEF SameTree
<1> HIDE DEF os
<1>4. \A q \in DOMAIN objs : q \notin changed => os[q].active = objs[q].active /\ os[q].list = objs[q].list
    BY <1>2
<1>5. \A q \in DOMAIN objs : q \in C => os[q].active = b
    BY <1>2
<1> HIDE DEF changed
<1>6. LET rs == RequestRebuild(os, changed) IN
      /\ SameTree(rs) /\ Current(rs)
      /\ \A q \in DOMAIN objs : rs[q].active = os[q].active /\ rs[q].list = os[q].list
      /\ \A q \in Items : rs[q].built => objs[q].built /\ rs[q].gen = objs[q].gen
      /\ \A q \in DOMAIN objs : rs[q].built => objs[q].built
    BY <1>2, <1>3, <1>4, RequestReaches
<1> QED BY <1>1, <1>2, <1>5, <1>6

(***************************************************************************)
(* Distributions.                                                          *)
(***************************************************************************)
LEMMA BoundedMax ==
    ASSUME NEW S \in SUBSET Nat, S # {}, NEW n \in Nat, \A x \in S : x <= n
    PROVE  Max(S) \in S /\ \A x \in S : x <= Max(S)
PROOF
<1> DEFINE T == {k \in Nat : n - k \in S}
<1>1. T \subseteq Nat /\ T # {}
  <2>1. PICK x \in S : TRUE
      OBVIOUS
  <2>2. n - x \in Nat /\ n - (n - x) = x
      OBVIOUS
  <2> QED BY <2>2
<1>2. PICK k \in T : \A m \in T : ~(<<m, k>> \in OpToRel(<, Nat))
    BY <1>1, NatLessThanWellFounded, WFMin, Zenon
<1>3. \A m \in T : ~(m < k)
    BY <1>1, <1>2 DEF OpToRel
<1>4. n - k \in S /\ \A x \in S : n - k >= x
  <2>1. \A x \in S : n - x \in T
      OBVIOUS
  <2> QED BY <1>3, <2>1
<1>5. \E x \in S : \A y \in S : x >= y
    BY <1>4
<1>6. Max(S) \in S /\ \A y \in S : Max(S) >= y
    BY <1>5 DEF Max
<1> QED BY <1>6

(* The lists that programs use.                                            *)
LEMMA TextsOf ==
    ASSUME NEW texts \in NewList \union {Class[n].texts : n \in DOMAIN Class}
    PROVE  texts \in Seq(Texts)
PROOF
<1>1. texts \in Seq(ToSet(texts)) /\ ToSet(texts) \subseteq Texts
    BY TextsAssumption DEF Texts
<1> QED BY <1>1, SeqMonotonic

(* Evaluating a list numbers its distributions beyond all earlier ones.    *)
LEMMA Registering ==
    ASSUME Numbers, NEW texts \in Seq(Texts), NEW p, dist_ref_to_var_map' = Registered(texts, p)
    PROVE  /\ DOMAIN dist_ref_to_var_map \subseteq DOMAIN dist_ref_to_var_map'
           /\ \A d \in DOMAIN dist_ref_to_var_map : dist_ref_to_var_map'[d] = dist_ref_to_var_map[d]
           /\ Highest' \in Nat /\ DOMAIN dist_ref_to_var_map' \subseteq 1..Highest'
           /\ Evaluated(texts) \in Seq([text : Texts, id : Nat])
           /\ \A i \in DOMAIN Evaluated(texts) :
                 \/ Evaluated(texts)[i].id = 0
                 \/ /\ Evaluated(texts)[i].id \in DOMAIN dist_ref_to_var_map'
                    /\ Evaluated(texts)[i].id \notin DOMAIN dist_ref_to_var_map
PROOF
<1> DEFINE D == DOMAIN dist_ref_to_var_map
           new == {AuxId(texts, i) : i \in DistTexts(texts)}
           h == Highest
           n == Len(texts)
<1>1. h \in Nat /\ D \subseteq 1..h
    BY DEF Numbers
<1>2. n \in Nat /\ DOMAIN texts = 1..n /\ DistTexts(texts) \subseteq 1..n /\ \A i \in 1..n : texts[i] \in Texts
    BY DEF DistTexts
<1>3. \A i : AuxId(texts, i) = h + i
    BY DEF AuxId, Highest
<1>4. DOMAIN dist_ref_to_var_map' = D \union new
    BY DEF Registered
<1>5. new \subseteq (h + 1)..(h + n)
    BY <1>1, <1>2, <1>3
<1>6. D \intersect new = {}
    BY <1>1, <1>2, <1>5
<1>7. \A d \in D : dist_ref_to_var_map'[d] = dist_ref_to_var_map[d]
    BY <1>6 DEF Registered
<1>8. Highest' \in Nat /\ DOMAIN dist_ref_to_var_map' \subseteq 1..Highest'
  <2> DEFINE S == DOMAIN dist_ref_to_var_map' \union {0}
  <2>1. S \in SUBSET Nat /\ S # {} /\ h + n \in Nat /\ \A x \in S : x <= h + n
      BY <1>1, <1>2, <1>4, <1>5
  <2>2. \A x \in DOMAIN dist_ref_to_var_map' : x >= 1
    <3>1. \A x \in D : x >= 1
        BY <1>1
    <3>2. \A x \in new : x >= 1
        BY <1>1, <1>2, <1>5
    <3> HIDE DEF D, new
    <3> QED BY <1>4, <3>1, <3>2
  <2> HIDE DEF S
  <2>3. Max(S) \in S /\ \A x \in S : x <= Max(S)
      BY <2>1, BoundedMax
  <2>4. Highest' = Max(S)
      BY DEF Highest, S
  <2>5. DOMAIN dist_ref_to_var_map' \subseteq S
      BY DEF S
  <2>6. Max(S) \in Nat
      BY <2>1, <2>3
  <2>7. ASSUME NEW x \in DOMAIN dist_ref_to_var_map' PROVE x \in 1..Max(S)
    <3>1. x \in S /\ x \in Nat /\ x >= 1 /\ x <= Max(S)
        BY <2>1, <2>2, <2>3, <2>5
    <3> QED BY <2>6, <3>1
  <2> QED BY <2>4, <2>6, <2>7
<1>9. /\ DOMAIN Evaluated(texts) = 1..n
      /\ \A i \in 1..n : Evaluated(texts)[i] = [text |-> texts[i],
                             id |-> IF Distributes(texts[i]) THEN AuxId(texts, i) ELSE 0]
    BY <1>2 DEF Evaluated
<1>10. \A i \in 1..n : Evaluated(texts)[i] \in [text : Texts, id : Nat]
    BY <1>1, <1>2, <1>3, <1>9
<1>11. Evaluated(texts) \in Seq([text : Texts, id : Nat])
  <2> DEFINE X == [text : Texts, id : Nat]
             E == Evaluated(texts)
  <2>1. E = [i \in 1..n |-> E[i]]
      BY <1>2 DEF Evaluated
  <2>2. \A i \in 1..n : E[i] \in X
      BY <1>10
  <2> HIDE DEF n, X, E
  <2>3. E \in [1..n -> X]
      BY <2>1, <2>2
  <2>4. E \in Seq(X)
      BY <1>2, <2>3, IndexedSeq
  <2> QED BY <2>4 DEF X, E
<1>12. ASSUME NEW i \in 1..n
       PROVE  \/ Evaluated(texts)[i].id = 0
              \/ Evaluated(texts)[i].id \in new
  <2>1. CASE ~Distributes(texts[i])
      BY <2>1, <1>9
  <2>2. CASE Distributes(texts[i])
    <3>1. i \in DistTexts(texts)
        BY <2>2, <1>2 DEF DistTexts
    <3>2. Evaluated(texts)[i].id = AuxId(texts, i)
        BY <2>2, <1>9
    <3> QED BY <3>1, <3>2
  <2> QED BY <2>1, <2>2
<1> HIDE DEF new
<1> QED BY <1>4, <1>6, <1>7, <1>8, <1>9, <1>11, <1>12

(* Lists that stay, while more distributions may be registered.            *)
LEMMA NumbersStay ==
    ASSUME TreeInv, Numbers, SameTree(objs'),
           \A q \in DOMAIN objs : objs'[q].list = objs[q].list,
           DOMAIN dist_ref_to_var_map \subseteq DOMAIN dist_ref_to_var_map',
           Highest' \in Nat, DOMAIN dist_ref_to_var_map' \subseteq 1..Highest'
    PROVE  Numbers'
PROOF
<1>1. Constraints' = Constraints /\ \A c \in Constraints : objs'[c].list = objs[c].list
    BY SameSets DEF TreeInv, Addresses, Constraints, Live
<1>2. \A c \in Constraints : objs'[c].list \in Seq([text : Texts, id : Nat])
    BY <1>1 DEF Numbers
<1>3. \A c \in Constraints : \A i \in DOMAIN objs'[c].list :
          objs'[c].list[i].id \in DOMAIN dist_ref_to_var_map' \union {0}
    BY <1>1 DEF Numbers
<1>4. ASSUME NEW c \in Constraints, NEW d \in Constraints,
             NEW i \in DOMAIN objs'[c].list, NEW j \in DOMAIN objs'[d].list,
             objs'[c].list[i].id = objs'[d].list[j].id, objs'[c].list[i].id # 0
      PROVE  c = d
  <2>1. objs'[c].list = objs[c].list /\ objs'[d].list = objs[d].list
      BY <1>1
  <2>2. /\ i \in DOMAIN objs[c].list /\ j \in DOMAIN objs[d].list
        /\ objs[c].list[i].id = objs[d].list[j].id /\ objs[c].list[i].id # 0
      BY <2>1, <1>4
  <2> QED BY <2>2 DEF Numbers
<1> QED BY <1>1, <1>2, <1>3, <1>4 DEF Numbers

ListBefore(c, old) == old = <<>> \/ (c \in Constraints /\ old = objs[c].list)

(* A list that is replaced or extended.                                    *)
LEMMA NumbersEdited ==
    ASSUME TreeInv, Numbers, SameTree(objs'), NEW c, NEW old, NEW texts \in Seq(Texts), NEW p,
           dist_ref_to_var_map' = Registered(texts, p),
           ListBefore(c, old), Lists(objs', c, old \o Evaluated(texts))
    PROVE  Numbers'
PROOF
<1> DEFINE D == DOMAIN dist_ref_to_var_map
           Dn == DOMAIN dist_ref_to_var_map'
           E == Evaluated(texts)
           X == [text : Texts, id : Nat]
<1>1. /\ D \subseteq Dn /\ Highest' \in Nat /\ Dn \subseteq 1..Highest' /\ E \in Seq(X)
      /\ \A i \in DOMAIN E : E[i].id = 0 \/ (E[i].id \in Dn /\ E[i].id \notin D)
    BY Registering
<1>2. Constraints' = Constraints /\ Constraints \subseteq DOMAIN objs
    BY SameSets DEF TreeInv, Addresses, Constraints, Live
<1>3. /\ \A x \in Constraints : objs[x].list \in Seq(X)
      /\ \A x \in Constraints : \A i \in DOMAIN objs[x].list : objs[x].list[i].id \in D \union {0}
      /\ \A x, y \in Constraints : \A i \in DOMAIN objs[x].list : \A j \in DOMAIN objs[y].list :
            objs[x].list[i].id = objs[y].list[j].id /\ objs[x].list[i].id # 0 => x = y
    BY DEF Numbers
<1>4. old \in Seq(X)
  <2> HIDE DEF X
  <2>1. CASE old = <<>>
      BY <2>1, EmptySeq
  <2>2. CASE c \in Constraints /\ old = objs[c].list
      BY <2>2, <1>3
  <2> QED BY <2>1, <2>2 DEF ListBefore
<1> HIDE DEF X, E, D, Dn
<1>5. /\ old \o E \in Seq(X)
      /\ \A i \in DOMAIN (old \o E) : \/ \E j \in DOMAIN old : (old \o E)[i] = old[j]
                                      \/ \E j \in DOMAIN E : (old \o E)[i] = E[j]
  <2>1. /\ old \o E \in Seq(X) /\ Len(old \o E) = Len(old) + Len(E)
        /\ \A i \in 1..(Len(old) + Len(E)) :
              (old \o E)[i] = IF i <= Len(old) THEN old[i] ELSE E[i - Len(old)]
      BY <1>1, <1>4, ConcatProperties
  <2>2. /\ DOMAIN old = 1..Len(old) /\ DOMAIN E = 1..Len(E) /\ Len(old) \in Nat /\ Len(E) \in Nat
        /\ DOMAIN (old \o E) = 1..(Len(old) + Len(E))
      BY <1>1, <1>4, <2>1
  <2>3. ASSUME NEW i \in 1..(Len(old) + Len(E))
        PROVE  \/ \E j \in DOMAIN old : (old \o E)[i] = old[j]
               \/ \E j \in DOMAIN E : (old \o E)[i] = E[j]
    <3>1. CASE i <= Len(old)
        BY <2>1, <2>2, <3>1
    <3>2. CASE ~(i <= Len(old))
      <4>1. i - Len(old) \in DOMAIN E
          BY <2>2, <3>2
      <4> QED BY <2>1, <3>2, <4>1
    <3> QED BY <3>1, <3>2
  <2> QED BY <2>1, <2>2, <2>3
<1>6. \A x \in Constraints : objs'[x].list = IF x = c THEN old \o E ELSE objs[x].list
    BY <1>2 DEF E, Lists
<1>7. ASSUME NEW x \in Constraints, NEW i \in DOMAIN objs'[x].list
      PROVE  \/ \E j \in DOMAIN objs[x].list : objs'[x].list[i].id = objs[x].list[j].id
             \/ x = c /\ objs'[x].list[i].id \notin D /\ objs'[x].list[i].id \in Dn
             \/ objs'[x].list[i].id = 0
  <2>1. CASE x # c
      BY <2>1, <1>6
  <2>2. CASE x = c
    <3>1. objs'[x].list = old \o E
        BY <2>2, <1>6
    <3>2. \/ \E j \in DOMAIN old : (old \o E)[i] = old[j]
          \/ \E j \in DOMAIN E : (old \o E)[i] = E[j]
        BY <3>1, <1>5
    <3>3. CASE \E j \in DOMAIN old : (old \o E)[i] = old[j]
      <4>1. old # <<>>
          BY <3>3
      <4> QED BY <2>2, <3>1, <3>3, <4>1 DEF ListBefore
    <3>4. CASE \E j \in DOMAIN E : (old \o E)[i] = E[j]
        BY <2>2, <3>1, <3>4, <1>1
    <3> QED BY <3>2, <3>3, <3>4
  <2> QED BY <2>1, <2>2
<1>8. \A x \in Constraints : objs'[x].list \in Seq(X)
    BY <1>3, <1>5, <1>6
<1>9. \A x \in Constraints : \A i \in DOMAIN objs'[x].list : objs'[x].list[i].id \in Dn \union {0}
    BY <1>1, <1>3, <1>7
<1>10. ASSUME NEW x \in Constraints, NEW y \in Constraints,
              NEW i \in DOMAIN objs'[x].list, NEW j \in DOMAIN objs'[y].list,
              objs'[x].list[i].id = objs'[y].list[j].id, objs'[x].list[i].id # 0
       PROVE  x = y
  <2>1. \/ \E k \in DOMAIN objs[x].list : objs'[x].list[i].id = objs[x].list[k].id
        \/ x = c /\ objs'[x].list[i].id \notin D
      BY <1>7, <1>10
  <2>2. \/ \E k \in DOMAIN objs[y].list : objs'[y].list[j].id = objs[y].list[k].id
        \/ y = c /\ objs'[y].list[j].id \notin D
      BY <1>7, <1>10
  <2> QED BY <2>1, <2>2, <1>3, <1>10
<1> QED BY <1>1, <1>2, <1>8, <1>9, <1>10 DEF Numbers, X, Dn

(***************************************************************************)
(* The invariant of the generators.                                        *)
(***************************************************************************)
(* What is in a generator that will not be rebuilt.                        *)
LEMMA InGenerator ==
    ASSUME BuiltIsCurrent, Numbers, NEW o \in Items, objs[o].built, NEW x \in objs[o].gen
    PROVE  x.expr.id \in DOMAIN dist_ref_to_var_map \union {0}
PROOF
<1>1. x \in Build(objs, o)
    BY DEF BuiltIsCurrent
<1>2. PICK c \in Constraints \intersect Subtree(o) :
          \E i \in DOMAIN objs[c].list :
              x = [name |-> <<objs[c].full, i>>, of |-> c, expr |-> objs[c].list[i],
                   soft |-> objs[c].class.kind = "soft"]
    BY <1>1, BuildMember
<1>3. PICK i \in DOMAIN objs[c].list : x.expr = objs[c].list[i]
    BY <1>2
<1> QED BY <1>3 DEF Numbers

(* A step that changes no generator but to forget it.                      *)
LEMMA AloneKept ==
    ASSUME TreeInv, BuiltIsCurrent, Numbers, UserDistributionAlone, SameTree(objs'),
           DOMAIN dist_ref_to_var_map \subseteq DOMAIN dist_ref_to_var_map',
           \A d \in DOMAIN dist_ref_to_var_map : dist_ref_to_var_map'[d] = dist_ref_to_var_map[d],
           NEW o \in Items, objs'[o].built, objs[o].built, objs'[o].gen = objs[o].gen,
           NEW v \in VariableChildren(o)', NEW x \in objs'[o].gen, NEW y \in objs'[o].gen,
           x.expr.id # 0, dist_ref_to_var_map'[x.expr.id].var = v, x.of # Default(v)',
           y.expr.id # 0, dist_ref_to_var_map'[y.expr.id].var = v
    PROVE  y.of # Default(v)'
PROOF
<1>1. o \in DOMAIN objs /\ objs'[o].children = objs[o].children
    BY DEF Items, Live, SameTree, SameNode
<1>2. v \in ToSet(objs[o].children) /\ Kind(v)' = "variable"
    BY <1>1 DEF VariableChildren
<1>3. v \in DOMAIN objs
    BY <1>1, <1>2 DEF ToSet, TreeInv, TreeSound, Live
<1>4. Kind(v) = "variable" /\ Default(v)' = Default(v)
    BY <1>2, <1>3, SameSets DEF TreeInv, Addresses
<1>5. v \in VariableChildren(o)
    BY <1>2, <1>4 DEF VariableChildren
<1>6. /\ x.expr.id \in DOMAIN dist_ref_to_var_map
      /\ y.expr.id \in DOMAIN dist_ref_to_var_map
    BY InGenerator
<1>7. dist_ref_to_var_map[x.expr.id].var = v /\ dist_ref_to_var_map[y.expr.id].var = v
    BY <1>6
<1> DEFINE on == {z \in objs[o].gen : z.expr.id # 0 /\ dist_ref_to_var_map[z.expr.id].var = v}
<1>8. (\E z \in on : z.of # Default(v)) => \A z \in on : z.of # Default(v)
    BY <1>5 DEF UserDistributionAlone
<1>9. x \in on /\ y \in on
    BY <1>7
<1> HIDE DEF on
<1> QED BY <1>4, <1>8, <1>9

LEMMA AloneNow ==
    ASSUME \A o \in Items' : objs'[o].built => \A v \in VariableChildren(o)' :
               \A x, y \in objs'[o].gen :
                   /\ x.expr.id # 0 /\ dist_ref_to_var_map'[x.expr.id].var = v /\ x.of # Default(v)'
                   /\ y.expr.id # 0 /\ dist_ref_to_var_map'[y.expr.id].var = v
                   => y.of # Default(v)'
    PROVE  UserDistributionAlone'
PROOF
<1> SUFFICES ASSUME NEW o \in Items', objs'[o].built, NEW v \in VariableChildren(o)'
             PROVE  LET on == {x \in objs'[o].gen :
                                  x.expr.id # 0 /\ dist_ref_to_var_map'[x.expr.id].var = v} IN
                    (\E x \in on : x.of # Default(v)') => \A x \in on : x.of # Default(v)'
    BY DEF UserDistributionAlone
<1> QED OBVIOUS

(* Steps after which every generator is forgotten or as it was.            *)
LEMMA GeneratorsKept ==
    ASSUME TreeInv, BuiltIsCurrent, Numbers, UserDistributionAlone, SameTree(objs'), Current(objs'),
           \A q \in Items : objs'[q].built => objs[q].built /\ objs'[q].gen = objs[q].gen,
           DOMAIN dist_ref_to_var_map \subseteq DOMAIN dist_ref_to_var_map',
           \A d \in DOMAIN dist_ref_to_var_map : dist_ref_to_var_map'[d] = dist_ref_to_var_map[d]
    PROVE  BuiltIsCurrent' /\ UserDistributionAlone'
PROOF
<1>1. Root0 \in DOMAIN objs
    BY DEF TreeInv, Addresses
<1>2. BuiltIsCurrent' /\ Items' = Items
    BY <1>1, CurrentNow, SameSets
<1>3. UserDistributionAlone'
    BY <1>2, AloneKept, AloneNow
<1> QED BY <1>2, <1>3

(* Steps that add or remove objects.                                       *)
LEMMA GeneratorsElsewhere ==
    ASSUME TreeInv, BuiltIsCurrent, Numbers, UserDistributionAlone,
           dist_ref_to_var_map' = dist_ref_to_var_map,
           \A o \in Items' : objs'[o].built =>
               /\ o \in Items /\ objs'[o] = objs[o]
               /\ \A v \in ToSet(objs[o].children) : objs'[v] = objs[v]
               /\ Constraints \intersect Subtree(o) \subseteq Constraints' \intersect Subtree(o)'
               /\ \A c \in Constraints' \intersect Subtree(o)' :
                     objs'[c].list = <<>> \/ c \in Constraints \intersect Subtree(o),
           \A c \in Constraints' : objs'[c].list = <<>> \/ c \in Constraints,
           \A c \in Constraints' \intersect Constraints :
               /\ objs'[c].list = objs[c].list /\ objs'[c].active = objs[c].active
               /\ objs'[c].full = objs[c].full /\ objs'[c].class = objs[c].class
    PROVE  BuiltIsCurrent' /\ Numbers' /\ UserDistributionAlone'
PROOF
<1>1. ASSUME NEW o \in Items', objs'[o].built
      PROVE  objs'[o].gen = Build(objs, o)'
  <2>1. /\ objs'[o] = objs[o] /\ objs[o].gen = Build(objs, o)
      BY <1>1 DEF BuiltIsCurrent
  <2>2. ASSUME NEW x
        PROVE  x \in Build(objs, o)' <=> x \in Build(objs, o)
    <3>1. x \in Build(objs, o)' <=>
             \E c \in Constraints' \intersect Subtree(o)' : objs'[c].active /\
                \E i \in DOMAIN objs'[c].list :
                    x = [name |-> <<objs'[c].full, i>>, of |-> c, expr |-> objs'[c].list[i],
                         soft |-> objs'[c].class.kind = "soft"]
        BY DEF Build
    <3>2. x \in Build(objs, o) <=>
             \E c \in Constraints \intersect Subtree(o) : objs[c].active /\
                \E i \in DOMAIN objs[c].list :
                    x = [name |-> <<objs[c].full, i>>, of |-> c, expr |-> objs[c].list[i],
                         soft |-> objs[c].class.kind = "soft"]
        BY BuildMember
    <3>3. ASSUME NEW c \in Constraints' \intersect Subtree(o)', objs'[c].active,
                 NEW i \in DOMAIN objs'[c].list,
                 x = [name |-> <<objs'[c].full, i>>, of |-> c, expr |-> objs'[c].list[i],
                         soft |-> objs'[c].class.kind = "soft"]
          PROVE  x \in Build(objs, o)
      <4>1. objs'[c].list # <<>>
          BY <3>3
      <4>2. c \in Constraints \intersect Subtree(o)
          BY <4>1, <1>1
      <4>3. /\ objs'[c].list = objs[c].list /\ objs'[c].active = objs[c].active
            /\ objs'[c].full = objs[c].full /\ objs'[c].class = objs[c].class
          BY <4>2
      <4> QED BY <3>2, <3>3, <4>2, <4>3
    <3>4. ASSUME NEW c \in Constraints \intersect Subtree(o), objs[c].active,
                 NEW i \in DOMAIN objs[c].list,
                 x = [name |-> <<objs[c].full, i>>, of |-> c, expr |-> objs[c].list[i],
                         soft |-> objs[c].class.kind = "soft"]
          PROVE  x \in Build(objs, o)'
      <4>1. c \in Constraints' \intersect Subtree(o)'
          BY <1>1
      <4>2. /\ objs'[c].list = objs[c].list /\ objs'[c].active = objs[c].active
            /\ objs'[c].full = objs[c].full /\ objs'[c].class = objs[c].class
          BY <4>1
      <4> QED BY <3>1, <3>4, <4>1, <4>2
    <3> QED BY <3>1, <3>2, <3>3, <3>4
  <2> QED BY <2>1, <2>2
<1>2. BuiltIsCurrent'
    BY <1>1 DEF BuiltIsCurrent
<1>3. Numbers'
  <2> DEFINE X == [text : Texts, id : Nat]
             D == DOMAIN dist_ref_to_var_map
  <2>1. Highest' = Highest /\ DOMAIN dist_ref_to_var_map' = D
      BY DEF Highest
  <2>2. Highest \in Nat /\ D \subseteq 1..Highest
      BY DEF Numbers
  <2>3. /\ \A x \in Constraints : objs[x].list \in Seq(X)
        /\ \A x \in Constraints : \A i \in DOMAIN objs[x].list : objs[x].list[i].id \in D \union {0}
        /\ \A x, y \in Constraints : \A i \in DOMAIN objs[x].list : \A j \in DOMAIN objs[y].list :
              objs[x].list[i].id = objs[y].list[j].id /\ objs[x].list[i].id # 0 => x = y
      BY DEF Numbers
  <2> HIDE DEF X, D
  <2>4. <<>> \in Seq(X)
      BY EmptySeq
  <2>5. \A c \in Constraints' : objs'[c].list \in Seq(X)
      BY <2>3, <2>4
  <2>6. ASSUME NEW c \in Constraints', NEW i \in DOMAIN objs'[c].list
        PROVE  c \in Constraints /\ objs'[c].list = objs[c].list
      OBVIOUS
  <2>7. \A c \in Constraints' : \A i \in DOMAIN objs'[c].list : objs'[c].list[i].id \in D \union {0}
      BY <2>3, <2>6
  <2>8. ASSUME NEW c \in Constraints', NEW d \in Constraints',
               NEW i \in DOMAIN objs'[c].list, NEW j \in DOMAIN objs'[d].list,
               objs'[c].list[i].id = objs'[d].list[j].id, objs'[c].list[i].id # 0
        PROVE  c = d
    <3>1. /\ c \in Constraints /\ objs'[c].list = objs[c].list
          /\ d \in Constraints /\ objs'[d].list = objs[d].list
        BY <2>6
    <3>2. /\ i \in DOMAIN objs[c].list /\ j \in DOMAIN objs[d].list
          /\ objs[c].list[i].id = objs[d].list[j].id /\ objs[c].list[i].id # 0
        BY <3>1, <2>8
    <3> QED BY <3>1, <3>2, <2>3
  <2> QED BY <2>1, <2>2, <2>5, <2>7, <2>8 DEF Numbers, X, D
<1>4. ASSUME NEW o \in Items', objs'[o].built, NEW v \in VariableChildren(o)',
             NEW x \in objs'[o].gen, NEW y \in objs'[o].gen,
             x.expr.id # 0, dist_ref_to_var_map'[x.expr.id].var = v, x.of # Default(v)',
             y.expr.id # 0, dist_ref_to_var_map'[y.expr.id].var = v
      PROVE  y.of # Default(v)'
  <2>1. o \in Items /\ objs'[o] = objs[o] /\ objs[o].built
      BY <1>4
  <2>2. v \in ToSet(objs[o].children) /\ objs'[v] = objs[v]
      BY <2>1, <1>4 DEF VariableChildren
  <2>3. v \in VariableChildren(o) /\ Default(v)' = Default(v)
      BY <2>2 DEF VariableChildren, Kind, Default
  <2> DEFINE on == {z \in objs[o].gen : z.expr.id # 0 /\ dist_ref_to_var_map[z.expr.id].var = v}
  <2>4. (\E z \in on : z.of # Default(v)) => \A z \in on : z.of # Default(v)
      BY <2>1, <2>3 DEF UserDistributionAlone
  <2>5. x \in on /\ y \in on
      BY <2>1, <1>4
  <2> HIDE DEF on
  <2> QED BY <2>3, <2>4, <2>5, <1>4
<1>5. UserDistributionAlone'
    BY <1>4, AloneNow
<1> QED BY <1>2, <1>3, <1>5

(* The constructor of crv_object.                                          *)
LEMMA NewGenerators ==
    ASSUME TreeInv, BuiltIsCurrent, Numbers, UserDistributionAlone, NEW class, NEW orig,
           NewObject(class, orig), dist_ref_to_var_map' = dist_ref_to_var_map
    PROVE  BuiltIsCurrent' /\ Numbers' /\ UserDistributionAlone'
PROOF
<1> DEFINE n == created + 1
<1>1. /\ n \notin DOMAIN objs /\ n # Root0
      /\ DOMAIN objs' = DOMAIN objs \union {n}
      /\ Live' = Live \union {n}
      /\ \A q \in DOMAIN objs : q # Parent => objs'[q] = objs[q]
      /\ \A q \in DOMAIN objs : SameBody(objs'[q], objs[q])
    BY NewFacts
<1>2. objs'[n].built = FALSE /\ objs'[n].list = <<>>
  <2>1. objs'[n] = Object(class, Parent, objs[Parent].above \union {n}, orig,
                          NameFor(objs[Parent].local_name_map, orig), NewFull(orig))
      BY NewFacts
  <2> HIDE DEF n
  <2> QED BY <2>1 DEF Object
<1> HIDE DEF n
<1>3. Live \subseteq DOMAIN objs
    BY DEF Live
<1>4. \A q \in DOMAIN objs : /\ Kind(q)' = Kind(q) /\ Ancestors(q)' = Ancestors(q)
                             /\ objs'[q].built = objs[q].built
                             /\ objs'[q].list = objs[q].list /\ objs'[q].active = objs[q].active
                             /\ objs'[q].full = objs[q].full /\ objs'[q].class = objs[q].class
    BY <1>1 DEF SameBody, Kind, Ancestors
<1>5. /\ \A c \in Constraints' : c = n \/ c \in Constraints
      /\ \A o \in Items' : o = n \/ o \in Items
      /\ Constraints \subseteq Constraints'
    BY <1>1, <1>3, <1>4 DEF Constraints, IsConstraint, Items
<1>6. \A o \in Items : objs[o].built => o # Parent
    BY ParentFacts, <1>3 DEF TreeInv, Addresses, Constructing, Items
<1>7. ASSUME NEW o \in Items, objs[o].built, NEW v \in ToSet(objs[o].children)
      PROVE  objs'[v] = objs[v]
  <2>1. o \in DOMAIN objs /\ o \in Live
      BY <1>3 DEF Items
  <2>2. v \in Live /\ objs[v].parent = o
      BY <2>1 DEF ToSet, TreeInv, TreeSound
  <2>3. v # Parent
    <3> SUFFICES ASSUME v = Parent PROVE FALSE
        OBVIOUS
    <3> DEFINE k == Len(crv_obj_stack)
    <3>1. v # Root0 /\ o # Root0
        BY <2>1, <2>2 DEF Live
    <3>2. crv_obj_stack # <<>> /\ v = crv_obj_stack[k] /\ k \in 1..k /\ k \in Nat /\ k \in DOMAIN crv_obj_stack
        BY <3>1, ParentFacts
    <3>3. objs[v].parent = IF k = 1 THEN Root0 ELSE crv_obj_stack[k - 1]
        BY <3>2 DEF TreeInv, TreeSound
    <3> HIDE DEF k
    <3>4. k # 1 /\ o = crv_obj_stack[k - 1]
        BY <3>1, <3>3, <2>2
    <3>5. k - 1 \in 1..Len(crv_obj_stack)
      <4>1. k - 1 \in 1..k
          BY <3>2, <3>4
      <4> QED BY <4>1 DEF k
    <3> QED BY <3>4, <3>5, <1>7 DEF TreeInv, Constructing
  <2> QED BY <2>2, <2>3, <1>1, <1>3
<1>8. ASSUME NEW o \in Items', objs'[o].built
      PROVE  /\ o \in Items /\ objs'[o] = objs[o]
             /\ \A v \in ToSet(objs[o].children) : objs'[v] = objs[v]
             /\ Constraints \intersect Subtree(o) \subseteq Constraints' \intersect Subtree(o)'
             /\ \A c \in Constraints' \intersect Subtree(o)' :
                   objs'[c].list = <<>> \/ c \in Constraints \intersect Subtree(o)
  <2>1. o # n /\ o \in Items /\ o \in DOMAIN objs
      BY <1>2, <1>3, <1>5, <1>8 DEF Items
  <2>2. objs[o].built /\ objs'[o] = objs[o]
      BY <1>1, <1>4, <1>6, <1>8, <2>1
  <2>3. Constraints \subseteq DOMAIN objs
      BY <1>3 DEF Constraints
  <2>4. Constraints \intersect Subtree(o) \subseteq Constraints' \intersect Subtree(o)'
      BY <1>1, <1>4, <1>5, <2>3 DEF Subtree
  <2>5. \A c \in Constraints' \intersect Subtree(o)' :
                   objs'[c].list = <<>> \/ c \in Constraints \intersect Subtree(o)
      BY <1>1, <1>2, <1>4, <1>5, <2>3 DEF Subtree
  <2> QED BY <1>7, <2>1, <2>2, <2>4, <2>5
<1>9. \A c \in Constraints' : objs'[c].list = <<>> \/ c \in Constraints
    BY <1>2, <1>5
<1>10. \A c \in Constraints' \intersect Constraints :
               /\ objs'[c].list = objs[c].list /\ objs'[c].active = objs[c].active
               /\ objs'[c].full = objs[c].full /\ objs'[c].class = objs[c].class
    BY <1>3, <1>4 DEF Constraints
<1> QED BY <1>8, <1>9, <1>10, GeneratorsElsewhere

LEMMA DeclareKeeps ==
    ASSUME IInv, NEW d \in Declared, DeclareObject(d)
    PROVE  IInv'
PROOF
<1>1. /\ crv_obj_stack = <<>> /\ NewObject(Class[d.class], d.name) /\ frames' = <<0>>
      /\ dist_ref_to_var_map' = dist_ref_to_var_map /\ error' = error
    BY DEF DeclareObject, Declare
<1>2. \E n \in DOMAIN Class : Class[d.class] = Class[n]
    BY DeclaredAssumption
<1>3. frames' \in Seq(Nat) /\ Len(frames') = Len(crv_obj_stack) + 1
    BY <1>1
<1>4. TreeInv'
  <2> DEFINE class == Class[d.class]
             orig == d.name
  <2>1. NewObject(class, orig) /\ \E n \in DOMAIN Class : class = Class[n]
      BY <1>1, <1>2
  <2> HIDE DEF class, orig
  <2> QED BY <1>1, <1>3, <2>1, NewKeepsTree DEF IInv
<1>5. BuiltIsCurrent' /\ Numbers' /\ UserDistributionAlone'
    BY <1>1, NewGenerators DEF IInv
<1> QED BY <1>1, <1>4, <1>5 DEF IInv, NoClash

LEMMA MemberKeeps ==
    ASSUME IInv, ConstructMember
    PROVE  IInv'
PROOF
<1> DEFINE top == Last(crv_obj_stack)
           m == objs[top].class.members[Last(frames) + 1]
<1>1. /\ frames # <<>> /\ Last(frames) < Len(objs[top].class.members)
      /\ NewObject(Class[m.class], m.name)
      /\ frames' = Append([frames EXCEPT ![Len(frames)] = @ + 1], 0)
      /\ dist_ref_to_var_map' = dist_ref_to_var_map /\ error' = error
    BY DEF ConstructMember, Member
<1>2. frames \in Seq(Nat) /\ Len(frames) = Len(crv_obj_stack) /\ crv_obj_stack \in Seq(Live)
    BY DEF IInv, TreeInv, Constructing
<1>3. Last(frames) \in Nat /\ crv_obj_stack # <<>> /\ top \in Live
    BY <1>1, <1>2 DEF Last
<1>4. PICK n \in DOMAIN Class : objs[top].class = Class[n]
    BY <1>3 DEF IInv, TreeInv, Addresses
<1>5. /\ Class[n].members \in Seq(ToSet(Class[n].members))
      /\ \A x \in ToSet(Class[n].members) : x.class \in DOMAIN Class /\ x.name = <<x.name[1], -1>>
    BY ClassAssumption
<1>6. m \in ToSet(Class[n].members)
  <2> DEFINE ms == Class[n].members
             S == ToSet(ms)
  <2>1. ms \in Seq(S) /\ Last(frames) + 1 \in 1..Len(ms) /\ m = ms[Last(frames) + 1]
      BY <1>1, <1>3, <1>4, <1>5
  <2> HIDE DEF ms, S, m
  <2>2. ms[Last(frames) + 1] \in S
      BY <2>1
  <2> QED BY <2>1, <2>2 DEF ms, S
<1>7. (\E k \in DOMAIN Class : Class[m.class] = Class[k]) /\ m.name = <<m.name[1], -1>>
    BY <1>5, <1>6
<1>8. frames' \in Seq(Nat) /\ Len(frames') = Len(crv_obj_stack) + 1
  <2> DEFINE g == [frames EXCEPT ![Len(frames)] = @ + 1]
  <2>1. g \in Seq(Nat) /\ Len(g) = Len(frames)
      BY <1>1, <1>2
  <2> HIDE DEF g
  <2> QED BY <1>1, <1>2, <2>1 DEF g
<1>9. TreeInv'
  <2> DEFINE class == Class[m.class]
             orig == m.name
  <2>1. NewObject(class, orig) /\ (\E k \in DOMAIN Class : class = Class[k]) /\ orig = <<orig[1], -1>>
      BY <1>1, <1>7
  <2> HIDE DEF class, orig
  <2> QED BY <1>8, <2>1, NewKeepsTree DEF IInv
<1>10. BuiltIsCurrent' /\ Numbers' /\ UserDistributionAlone'
    BY <1>1, NewGenerators DEF IInv
<1> QED BY <1>1, <1>9, <1>10 DEF IInv, NoClash

LEMMA DestroyKeeps ==
    ASSUME IInv, NEW o \in Live, DestroyObject(o)
    PROVE  IInv'
PROOF
<1>1. Destroy(o) /\ dist_ref_to_var_map' = dist_ref_to_var_map /\ error' = error
    BY DEF DestroyObject
<1>2. TreeInv'
    BY <1>1, DestroyKeepsTree DEF IInv
<1>3. /\ Live' \subseteq Live /\ Live \subseteq DOMAIN objs /\ Live' \subseteq DOMAIN objs'
      /\ \A q \in Live' : objs'[q] = objs[q]
      /\ \A q \in Live : q \notin Live' => \A a \in objs[q].above : a \in Live' => FALSE
    BY <1>1, DestroyFacts DEF IInv, Live
<1>4. /\ \A q \in Live' : Kind(q)' = Kind(q) /\ Ancestors(q)' = Ancestors(q)
      /\ Items' = Items \intersect Live' /\ Constraints' = Constraints \intersect Live'
    BY <1>3 DEF Items, Constraints, IsConstraint, Kind, Ancestors
<1>5. ASSUME NEW i \in Items', NEW q \in Live, i \in objs[q].above
      PROVE  q \in Live'
    BY <1>3, <1>4, <1>5
<1>6. ASSUME NEW i \in Items', NEW v \in ToSet(objs[i].children)
      PROVE  objs'[v] = objs[v]
  <2>1. i \in DOMAIN objs /\ i \in objs[i].above
      BY <1>3, <1>4 DEF IInv, TreeInv, Around, Ancestors
  <2>2. v \in Live /\ objs[v].parent = i
      BY <2>1 DEF ToSet, IInv, TreeInv, TreeSound
  <2>3. objs[v].above = {v} \union objs[i].above
      BY <2>2 DEF IInv, TreeInv, TreeSound, Ancestors
  <2> QED BY <2>1, <2>2, <2>3, <1>3, <1>5
<1>7. ASSUME NEW i \in Items'
      PROVE  Constraints \intersect Subtree(i) = Constraints' \intersect Subtree(i)'
  <2>1. ASSUME NEW c \in Constraints, i \in objs[c].above
        PROVE  c \in Constraints'
      BY <1>4, <1>5, <2>1 DEF Constraints
  <2> QED BY <1>3, <1>4, <2>1 DEF Subtree, Ancestors, Constraints
<1>8. \A i \in Items' : objs'[i].built =>
               /\ i \in Items /\ objs'[i] = objs[i]
               /\ \A v \in ToSet(objs[i].children) : objs'[v] = objs[v]
               /\ Constraints \intersect Subtree(i) \subseteq Constraints' \intersect Subtree(i)'
               /\ \A c \in Constraints' \intersect Subtree(i)' :
                     objs'[c].list = <<>> \/ c \in Constraints \intersect Subtree(i)
    BY <1>3, <1>4, <1>6, <1>7
<1>9. \A c \in Constraints' : c \in Constraints /\ objs'[c] = objs[c]
    BY <1>3, <1>4
<1>10. BuiltIsCurrent' /\ Numbers' /\ UserDistributionAlone'
    BY <1>1, <1>8, <1>9, GeneratorsElsewhere DEF IInv
<1> QED BY <1>1, <1>2, <1>10 DEF IInv, NoClash

LEMMA TreeAlone ==
    ASSUME TreeInv
    PROVE  SameTree(objs)
BY DEF SameTree, SameNode, TreeInv, Addresses

LEMMA CopyKeeps ==
    ASSUME IInv, NEW o \in Live, CopyAndDestroy(o)
    PROVE  IInv'
PROOF
<1>1. /\ crv_obj_map' = Unset(crv_obj_map, objs[o].full) /\ objs' = objs /\ created' = created
      /\ crv_obj_stack' = crv_obj_stack /\ frames' = frames
      /\ dist_ref_to_var_map' = dist_ref_to_var_map /\ error' = error
    BY DEF CopyAndDestroy, DestroyCopy
<1>2. SameTree(objs')
    BY <1>1, TreeAlone DEF IInv
<1>3. /\ DOMAIN crv_obj_map' \subseteq DOMAIN crv_obj_map
      /\ \A f \in DOMAIN crv_obj_map' : crv_obj_map'[f] = crv_obj_map[f]
    BY <1>1 DEF Unset
<1>4. TreeInv'
    BY <1>1, <1>2, <1>3, TreeKept DEF IInv
<1>5. BuiltIsCurrent' /\ Numbers' /\ UserDistributionAlone' /\ NoClash'
  <2>1. Items' = Items /\ Constraints' = Constraints
      BY <1>1 DEF Items, Constraints, Live, Kind, IsConstraint
  <2>2. \A i : Build(objs, i)' = Build(objs, i)
      BY <1>1, <2>1 DEF Build, Subtree, Ancestors
  <2>3. BuiltIsCurrent'
      BY <1>1, <2>1, <2>2 DEF IInv, BuiltIsCurrent
  <2>4. Numbers'
    <3>1. Highest' = Highest /\ Highest \in Nat /\ DOMAIN dist_ref_to_var_map \subseteq 1..Highest
        BY <1>1 DEF IInv, Numbers, Highest
    <3> QED BY <1>1, <1>2, <3>1, NumbersStay DEF IInv
  <2>5. UserDistributionAlone'
      BY <1>1, <2>1 DEF IInv, UserDistributionAlone, VariableChildren, Default, Kind
  <2> QED BY <1>1, <2>3, <2>4, <2>5 DEF IInv, NoClash
<1> QED BY <1>4, <1>5 DEF IInv

(* c = {...}, c &= {...} and the bodies of constructors.                   *)
LEMMA ListKeeps ==
    ASSUME IInv, NEW c, NEW old, NEW texts \in NewList \union {Class[n].texts : n \in DOMAIN Class},
           NEW p, dist_ref_to_var_map' = Registered(texts, p),
           ListBefore(c, old), objs' = RequestRebuild(WithList(c, old \o Evaluated(texts)), {c})
    PROVE  /\ SameTree(objs') /\ \A q \in DOMAIN objs : objs'[q].built => objs[q].built
           /\ BuiltIsCurrent' /\ Numbers' /\ UserDistributionAlone'
PROOF
<1>1. TreeInv /\ BuiltIsCurrent /\ Numbers /\ UserDistributionAlone
    BY DEF IInv
<1>2. texts \in Seq(Texts)
    BY TextsOf
<1> DEFINE l == old \o Evaluated(texts)
           os == WithList(c, l)
<1>l. l = old \o Evaluated(texts) /\ objs' = RequestRebuild(os, {c})
    OBVIOUS
<1> HIDE DEF l
<1>o. /\ SameTree(os) /\ Lists(os, c, l)
      /\ \A q \in DOMAIN objs :
            /\ os[q].built = objs[q].built /\ os[q].gen = objs[q].gen
            /\ os[q].active = objs[q].active
    BY <1>1, ListEdited
<1> HIDE DEF os
<1>3. /\ SameTree(objs') /\ Current(objs')
      /\ \A q \in DOMAIN objs : objs'[q].list = os[q].list
      /\ \A q \in Items : objs'[q].built => objs[q].built /\ objs'[q].gen = objs[q].gen
      /\ \A q \in DOMAIN objs : objs'[q].built => objs[q].built
  <2> DEFINE C == {c}
  <2>1. objs' = RequestRebuild(os, C)
      BY <1>l
  <2>2. \A q \in DOMAIN objs : q \notin C => os[q].active = objs[q].active /\ os[q].list = objs[q].list
      BY <1>o DEF Lists
  <2>3. \A q \in DOMAIN objs : os[q].built = objs[q].built /\ os[q].gen = objs[q].gen
      BY <1>o, Zenon
  <2> HIDE DEF C
  <2>4. LET rs == RequestRebuild(os, C) IN
        /\ SameTree(rs) /\ Current(rs)
        /\ \A q \in DOMAIN objs : rs[q].active = os[q].active /\ rs[q].list = os[q].list
        /\ \A q \in Items : rs[q].built => objs[q].built /\ rs[q].gen = objs[q].gen
        /\ \A q \in DOMAIN objs : rs[q].built => objs[q].built
      BY <1>1, <1>o, <2>2, <2>3, RequestReaches, Zenon
  <2> QED BY <2>1, <2>4, Zenon
<1>4. /\ DOMAIN dist_ref_to_var_map \subseteq DOMAIN dist_ref_to_var_map'
      /\ \A d \in DOMAIN dist_ref_to_var_map : dist_ref_to_var_map'[d] = dist_ref_to_var_map[d]
    BY <1>1, <1>2, Registering
<1>5. Lists(objs', c, old \o Evaluated(texts))
  <2>1. Lists(objs', c, l)
      BY <1>3, <1>o DEF Lists
  <2> QED BY <2>1, <1>l
<1>6. Numbers'
    BY <1>1, <1>2, <1>3, <1>5, NumbersEdited
<1>7. BuiltIsCurrent' /\ UserDistributionAlone'
    BY <1>1, <1>3, <1>4, GeneratorsKept
<1> QED BY <1>3, <1>6, <1>7

(* Nothing changes but the stack.                                          *)
LEMMA StillKeeps ==
    ASSUME IInv, objs' = objs, dist_ref_to_var_map' = dist_ref_to_var_map
    PROVE  SameTree(objs') /\ BuiltIsCurrent' /\ Numbers' /\ UserDistributionAlone'
PROOF
<1>1. SameTree(objs')
    BY TreeAlone DEF IInv
<1>2. Items' = Items /\ Constraints' = Constraints
    BY DEF Items, Constraints, Live, Kind, IsConstraint
<1>3. \A i : Build(objs, i)' = Build(objs, i)
    BY <1>2 DEF Build, Subtree, Ancestors
<1>4. BuiltIsCurrent'
    BY <1>2, <1>3 DEF IInv, BuiltIsCurrent
<1>5. Numbers'
  <2>1. Highest' = Highest /\ Highest \in Nat /\ DOMAIN dist_ref_to_var_map \subseteq 1..Highest
      BY DEF IInv, Numbers, Highest
  <2> QED BY <1>1, <2>1, NumbersStay DEF IInv
<1>6. UserDistributionAlone'
    BY <1>2 DEF IInv, UserDistributionAlone, VariableChildren, Default, Kind
<1> QED BY <1>1, <1>4, <1>5, <1>6

LEMMA EndKeeps ==
    ASSUME IInv, EndConstruction
    PROVE  IInv'
PROOF
<1> DEFINE o == Last(crv_obj_stack)
           texts == objs[o].class.texts
           c == IF IsConstraint(o) THEN o ELSE Default(o)
<1>1. frames # <<>> /\ EndOfName /\ created' = created /\ crv_obj_map' = crv_obj_map /\ error' = error
    BY DEF EndConstruction, MembersDone
<1>2. crv_obj_stack # <<>> /\ o \in Live
    BY <1>1 DEF IInv, TreeInv, Constructing, Last
<1>3. texts \in {Class[n].texts : n \in DOMAIN Class}
    BY <1>2 DEF IInv, TreeInv, Addresses
<1>4. /\ SameTree(objs') /\ \A q \in DOMAIN objs : objs'[q].built => objs[q].built
      /\ BuiltIsCurrent' /\ Numbers' /\ UserDistributionAlone'
  <2>1. CASE texts = <<>>
    <3>1. objs' = objs /\ dist_ref_to_var_map' = dist_ref_to_var_map
        BY <2>1 DEF EndConstruction
    <3> QED BY <3>1, StillKeeps
  <2>2. CASE texts # <<>>
    <3>1. /\ objs' = RequestRebuild([objs EXCEPT ![c].list = Evaluated(texts)], {c})
          /\ dist_ref_to_var_map' = Registered(texts, objs[c].parent)
        BY <2>2 DEF EndConstruction
    <3> DEFINE p == objs[c].parent
               E == Evaluated(texts)
    <3>2. E = <<>> \o E
      <4>1. texts \in Seq(Texts)
          BY <1>3, TextsOf
      <4> HIDE DEF texts
      <4>2. E \in Seq([text : Texts, id : Nat])
          BY <3>1, <4>1, Registering DEF IInv
      <4> DEFINE X == [text : Texts, id : Nat]
      <4> HIDE DEF X, E
      <4> QED BY <4>2, ConcatEmptySeq DEF X
    <3>3. /\ dist_ref_to_var_map' = Registered(texts, p)
          /\ objs' = RequestRebuild(WithList(c, <<>> \o Evaluated(texts)), {c})
        BY <3>1, <3>2 DEF WithList
    <3>4. ListBefore(c, <<>>)
        BY DEF ListBefore
    <3> HIDE DEF p, E, c, texts
    <3> QED BY <1>3, <3>3, <3>4, ListKeeps
  <2> QED BY <2>1, <2>2
<1> HIDE DEF o, texts, c
<1>5. TreeInv'
    BY <1>1, <1>2, <1>4, TreeKept DEF IInv
<1> QED BY <1>1, <1>4, <1>5 DEF IInv, NoClash

LEMMA EditKeeps ==
    ASSUME IInv, NEW c \in Constraints, NEW texts \in NewList, NEW old,
           old = <<>> \/ old = objs[c].list, Edit(c, texts, old)
    PROVE  IInv'
PROOF
<1>1. /\ created' = created /\ crv_obj_stack' = crv_obj_stack /\ frames' = frames
      /\ crv_obj_map' = crv_obj_map
    BY DEF Edit
<1>2. /\ SameTree(objs') /\ \A q \in DOMAIN objs : objs'[q].built => objs[q].built
      /\ BuiltIsCurrent' /\ Numbers' /\ UserDistributionAlone'
      /\ error' # "Constraint already exists"
  <2>1. CASE Overlapping(texts)
    <3>1. objs' = objs /\ dist_ref_to_var_map' = dist_ref_to_var_map
          /\ error' = "Overlapping range exists"
        BY <2>1 DEF Edit
    <3> QED BY <3>1, StillKeeps
  <2>2. CASE ~Overlapping(texts)
    <3> DEFINE p == objs[c].parent
    <3>1. /\ objs' = RequestRebuild(WithList(c, old \o Evaluated(texts)), {c})
          /\ dist_ref_to_var_map' = Registered(texts, p)
          /\ error' = "none"
        BY <2>2 DEF Edit, WithList
    <3> HIDE DEF p
    <3>2. ListBefore(c, old)
        BY DEF ListBefore
    <3>3. /\ SameTree(objs') /\ \A q \in DOMAIN objs : objs'[q].built => objs[q].built
          /\ BuiltIsCurrent' /\ Numbers' /\ UserDistributionAlone'
        BY <3>1, <3>2, ListKeeps
    <3> QED BY <3>1, <3>3
  <2> QED BY <2>1, <2>2
<1>3. TreeInv'
    BY <1>1, <1>2, TreeKept DEF IInv
<1> QED BY <1>2, <1>3 DEF IInv, NoClash

(* activate() and deactivate().                                            *)
LEMMA SwitchKeeps ==
    ASSUME IInv, NEW C, NEW b, objs' = SetActive(objs, C, b),
           UNCHANGED <<created, crv_obj_stack, frames, crv_obj_map, dist_ref_to_var_map, error>>
    PROVE  IInv'
PROOF
<1>1. /\ SameTree(objs') /\ Current(objs')
      /\ \A q \in DOMAIN objs : objs'[q].list = objs[q].list
      /\ \A q \in Items : objs'[q].built => objs[q].built /\ objs'[q].gen = objs[q].gen
      /\ \A q \in DOMAIN objs : objs'[q].built => objs[q].built
    BY Switched DEF IInv
<1>2. TreeInv'
    BY <1>1, TreeKept DEF IInv
<1>3. Numbers'
  <2>1. Highest' = Highest /\ Highest \in Nat /\ DOMAIN dist_ref_to_var_map \subseteq 1..Highest
      BY DEF IInv, Numbers, Highest
  <2> QED BY <1>1, <2>1, NumbersStay DEF IInv
<1>4. BuiltIsCurrent' /\ UserDistributionAlone'
    BY <1>1, GeneratorsKept DEF IInv
<1> QED BY <1>2, <1>3, <1>4 DEF IInv, NoClash

LEMMA BuildOf ==
    ASSUME NEW os, NEW o, NEW x \in Build(os, o)
    PROVE  /\ x.of \in Constraints \intersect Subtree(o) /\ os[x.of].active
           /\ \E i \in DOMAIN os[x.of].list :
                 x = [name |-> <<os[x.of].full, i>>, of |-> x.of, expr |-> os[x.of].list[i],
                      soft |-> os[x.of].class.kind = "soft"]
PROOF
<1>1. PICK c \in Constraints \intersect Subtree(o) : os[c].active /\
             \E i \in DOMAIN os[c].list :
                 x = [name |-> <<os[c].full, i>>, of |-> c, expr |-> os[c].list[i],
                      soft |-> os[c].class.kind = "soft"]
    BY BuildMember
<1>2. x.of = c
    BY <1>1
<1> QED BY <1>1, <1>2

(* Building a generator meets no name twice.                               *)
LEMMA NoNameTwice ==
    ASSUME TreeInv, NEW os, SameTree(os), NEW o \in Items
    PROVE  ~NameClash(Build(os, o))
PROOF
<1> SUFFICES ASSUME NEW x \in Build(os, o), NEW y \in Build(os, o), x.name = y.name
             PROVE  x = y
    BY DEF NameClash
<1> DEFINE c == x.of
           d == y.of
<1>0. c \in Constraints \intersect Subtree(o) /\ d \in Constraints \intersect Subtree(o)
    BY BuildOf
<1>1. PICK i \in DOMAIN os[c].list :
          x = [name |-> <<os[c].full, i>>, of |-> c, expr |-> os[c].list[i],
               soft |-> os[c].class.kind = "soft"]
    BY BuildOf
<1>2. PICK j \in DOMAIN os[d].list :
          y = [name |-> <<os[d].full, j>>, of |-> d, expr |-> os[d].list[j],
               soft |-> os[d].class.kind = "soft"]
    BY BuildOf
<1> HIDE DEF c, d
<1>3. os[c].full = os[d].full /\ i = j
    BY <1>1, <1>2
<1>4. c \in Live /\ d \in Live /\ o \in Ancestors(c) /\ o \in Ancestors(d) /\ o # Root0
    BY <1>0 DEF Constraints, Subtree, Items, Live
<1>5. objs[c].full = objs[d].full
    BY <1>3, <1>4 DEF SameTree, SameNode, Live
<1>6. c = d
    BY <1>4, <1>5 DEF TreeInv, FullApart
<1> QED BY <1>1, <1>2, <1>3, <1>6

(* Two distributions of a variable.                                        *)
LEMMA TwoDists ==
    ASSUME Numbers, NEW v, NEW a \in DistsOf(v), NEW b \in DistsOf(v), a # b
    PROVE  Cardinality(DistsOf(v)) > 1
PROOF
<1> DEFINE S == DistsOf(v)
<1>1. Highest \in Nat /\ S \subseteq 1..Highest
    BY DEF Numbers, DistsOf
<1>2. IsFiniteSet(1..Highest)
    BY <1>1, FS_Interval
<1>3. IsFiniteSet(S) /\ a \in S /\ b \in S
    BY <1>1, <1>2, FS_Subset
<1> HIDE DEF S
<1>4. IsFiniteSet({a}) /\ Cardinality({a}) = 1
    BY FS_Singleton
<1>5. Cardinality({a} \union {b}) = 2
  <2>1. Cardinality({a} \union {b}) = IF b \in {a} THEN Cardinality({a}) ELSE Cardinality({a}) + 1
      BY <1>4, FS_AddElement
  <2> QED BY <1>4, <2>1
<1>6. Cardinality({a} \union {b}) <= Cardinality(S) /\ Cardinality(S) \in Nat
    BY <1>3, FS_Subset, FS_CardinalityType
<1> QED BY <1>5, <1>6 DEF S

(* crosscheck_constraints leaves a variable that a generator distributes   *)
(* twice without its default constraint.                                   *)
LEMMA CrosscheckAlone ==
    ASSUME IInv, NEW o \in Items, NEW v \in VariableChildren(o),
           NEW x \in Build(Crosscheck(o), o), NEW y \in Build(Crosscheck(o), o),
           x.expr.id # 0, dist_ref_to_var_map[x.expr.id].var = v, x.of # Default(v),
           y.expr.id # 0, dist_ref_to_var_map[y.expr.id].var = v
    PROVE  y.of # Default(v)
PROOF
<1> SUFFICES ASSUME y.of = Default(v) PROVE FALSE
    OBVIOUS
<1> DEFINE twice == {w \in VariableChildren(o) : Cardinality(DistsOf(w)) > 1 /\ IsConstraint(Default(w))}
           C == {Default(w) : w \in twice}
           os == Crosscheck(o)
<1>1. os = SetActive(objs, C, FALSE)
    BY DEF Crosscheck
<1> HIDE DEF C, os
<1>2. /\ SameTree(os)
      /\ \A q \in DOMAIN objs : os[q].list = objs[q].list /\ (q \in C => os[q].active = FALSE)
  <2>1. TreeInv /\ BuiltIsCurrent
      BY DEF IInv
  <2>2. LET rs == SetActive(objs, C, FALSE) IN
        /\ SameTree(rs)
        /\ \A q \in DOMAIN objs : rs[q].list = objs[q].list /\ (q \in C => rs[q].active = FALSE)
      BY <2>1, Switched, Zenon
  <2> QED BY <1>1, <2>2, Zenon
<1> DEFINE c == x.of
           d == y.of
<1>b. x \in Build(os, o) /\ y \in Build(os, o)
    BY DEF os
<1>4. c \in Constraints /\ d \in Constraints /\ os[d].active
    BY <1>b, BuildOf
<1>3. PICK i \in DOMAIN os[c].list : x.expr = os[c].list[i]
    BY <1>b, BuildOf
<1>5. PICK j \in DOMAIN os[d].list : y.expr = os[d].list[j]
    BY <1>b, BuildOf
<1>6. c \in DOMAIN objs /\ d \in DOMAIN objs
    BY <1>4 DEF Constraints, Live
<1>7. /\ x.of = c /\ x.expr = objs[c].list[i] /\ i \in DOMAIN objs[c].list
      /\ y.of = d /\ y.expr = objs[d].list[j] /\ j \in DOMAIN objs[d].list
    BY <1>2, <1>3, <1>5, <1>6
<1>8. c # d /\ d = Default(v)
    BY <1>7
<1> HIDE DEF c, d
<1>n. /\ \A e \in Constraints : \A k \in DOMAIN objs[e].list :
            objs[e].list[k].id \in DOMAIN dist_ref_to_var_map \union {0}
      /\ \A e, f \in Constraints : \A k \in DOMAIN objs[e].list : \A m \in DOMAIN objs[f].list :
            objs[e].list[k].id = objs[f].list[m].id /\ objs[e].list[k].id # 0 => e = f
    BY DEF IInv, Numbers
<1>9. x.expr.id # y.expr.id
    BY <1>4, <1>7, <1>8, <1>n
<1>10. x.expr.id \in DistsOf(v) /\ y.expr.id \in DistsOf(v)
  <2>1. x.expr.id \in DOMAIN dist_ref_to_var_map /\ y.expr.id \in DOMAIN dist_ref_to_var_map
      BY <1>4, <1>7, <1>n
  <2> QED BY <2>1 DEF DistsOf
<1>11. Cardinality(DistsOf(v)) > 1
    BY <1>9, <1>10, TwoDists DEF IInv
<1>12. IsConstraint(Default(v))
    BY <1>4, <1>8 DEF Constraints
<1>13. Default(v) \in C
    BY <1>11, <1>12 DEF C
<1> QED BY <1>2, <1>4, <1>6, <1>8, <1>13

(* What randomize() makes of the item.                                     *)
WithGenerator(os, o, gen) ==
    [os EXCEPT ![o].gen = gen, ![o].null = FALSE, ![o].goal = FALSE, ![o].built = ~NameClash(gen)]

LEMMA GeneratorSet ==
    ASSUME NEW os, SameTree(os), NEW o \in Items, NEW gen
    PROVE  LET rs == WithGenerator(os, o, gen) IN
           /\ SameTree(rs)
           /\ \A q \in DOMAIN objs : /\ rs[q].active = os[q].active /\ rs[q].list = os[q].list
                                     /\ q # o => rs[q] = os[q]
           /\ rs[o].gen = gen
PROOF
<1> DEFINE rs == WithGenerator(os, o, gen)
<1>1. DOMAIN rs = DOMAIN objs
    BY DEF WithGenerator, SameTree
<1>2. o \in DOMAIN objs /\ o \in DOMAIN os
    BY DEF Items, Live, SameTree
<1>3. \A q \in DOMAIN objs : q # o => rs[q] = os[q]
    BY DEF WithGenerator, SameTree
<1>4. \A q \in DOMAIN objs : IsObject(os[q]) /\ SameNode(os[q], objs[q])
    BY DEF SameTree
<1> DEFINE b == ~NameClash(gen)
<1>5. rs[o] = [os[o] EXCEPT !.gen = gen, !.null = FALSE, !.goal = FALSE, !.built = b]
    BY <1>2 DEF WithGenerator
<1> HIDE DEF rs, b
<1>6. IsObject(rs[o])
    BY <1>2, <1>4, <1>5 DEF IsObject
<1>7. SameNode(rs[o], os[o])
    BY <1>2, <1>4, <1>5 DEF IsObject, SameNode
<1>8. rs[o].active = os[o].active /\ rs[o].list = os[o].list /\ rs[o].gen = gen
    BY <1>2, <1>4, <1>5 DEF IsObject
<1>9. SameNode(rs[o], objs[o])
    BY <1>2, <1>4, <1>7 DEF SameNode
<1>10. SameTree(rs)
    BY <1>1, <1>3, <1>4, <1>6, <1>9 DEF SameTree
<1>11. \A q \in DOMAIN objs : rs[q].active = os[q].active /\ rs[q].list = os[q].list
    BY <1>3, <1>8
<1> QED BY <1>3, <1>8, <1>10, <1>11 DEF rs

LEMMA RandomizeKeeps ==
    ASSUME IInv, NEW o \in Items, Randomize(o)
    PROVE  IInv'
PROOF
<1>1. /\ crv_obj_stack = <<>>
      /\ created' = created /\ crv_obj_stack' = crv_obj_stack /\ frames' = frames
      /\ crv_obj_map' = crv_obj_map /\ dist_ref_to_var_map' = dist_ref_to_var_map
    BY DEF Randomize, Idle
<1>2. CASE objs[o].built
  <2>1. objs' = objs /\ error' = "none"
      BY <1>2 DEF Randomize
  <2>2. SameTree(objs') /\ BuiltIsCurrent' /\ Numbers' /\ UserDistributionAlone'
      BY <1>1, <2>1, StillKeeps
  <2>3. TreeInv'
      BY <1>1, <2>2, TreeKept DEF IInv
  <2> QED BY <2>1, <2>2, <2>3 DEF IInv, NoClash
<1>3. CASE ~objs[o].built
  <2> DEFINE os == Crosscheck(o)
             gen == Build(os, o)
             C == {Default(w) : w \in {u \in VariableChildren(o) :
                                          Cardinality(DistsOf(u)) > 1 /\ IsConstraint(Default(u))}}
  <2>1. /\ objs' = WithGenerator(os, o, gen)
        /\ error' = IF NameClash(gen) THEN "Constraint already exists" ELSE "none"
      BY <1>3 DEF Randomize, WithGenerator
  <2>2. os = SetActive(objs, C, FALSE)
      BY DEF Crosscheck
  <2>3. TreeInv /\ BuiltIsCurrent /\ Numbers /\ UserDistributionAlone
      BY DEF IInv
  <2>4. gen = Build(os, o) /\ os = Crosscheck(o)
      OBVIOUS
  <2> HIDE DEF C, gen, os
  <2>5. /\ SameTree(os) /\ Current(os)
        /\ \A q \in DOMAIN objs : os[q].list = objs[q].list
        /\ \A q \in Items : os[q].built => objs[q].built /\ os[q].gen = objs[q].gen
    <3> DEFINE off == FALSE
    <3>0. os = SetActive(objs, C, off)
        BY <2>2
    <3> HIDE DEF off
    <3>1. LET rs == SetActive(objs, C, off) IN
          /\ SameTree(rs) /\ Current(rs)
          /\ \A q \in DOMAIN objs : rs[q].list = objs[q].list
          /\ \A q \in Items : rs[q].built => objs[q].built /\ rs[q].gen = objs[q].gen
        BY <2>3, Switched
    <3> QED BY <3>0, <3>1, Zenon
  <2>6. /\ SameTree(objs')
        /\ \A q \in DOMAIN objs : /\ objs'[q].active = os[q].active /\ objs'[q].list = os[q].list
                                  /\ q # o => objs'[q] = os[q]
        /\ objs'[o].gen = gen
    <3>1. LET rs == WithGenerator(os, o, gen) IN
          /\ SameTree(rs)
          /\ \A q \in DOMAIN objs : /\ rs[q].active = os[q].active /\ rs[q].list = os[q].list
                                    /\ q # o => rs[q] = os[q]
          /\ rs[o].gen = gen
        BY <2>5, GeneratorSet
    <3> QED BY <2>1, <3>1, Zenon
  <2>7. TreeInv'
      BY <1>1, <2>3, <2>6, TreeKept
  <2>8. Items \subseteq DOMAIN objs /\ Constraints \subseteq DOMAIN objs /\ Root0 \in DOMAIN objs
      BY <2>3 DEF Items, Constraints, Live, TreeInv, Addresses
  <2>9. ASSUME NEW q \in Items PROVE Build(objs', q) = Build(os, q)
    <3>1. ASSUME NEW c \in Constraints \intersect Subtree(q)
          PROVE  /\ objs'[c].active = os[c].active /\ objs'[c].list = os[c].list
                 /\ objs'[c].full = os[c].full /\ objs'[c].class = os[c].class
        BY <2>5, <2>6, <2>8 DEF SameTree, SameNode
    <3> QED BY <3>1, BuildSame
  <2>10. Current(objs')
    <3>1. ASSUME NEW q \in Items, objs'[q].built PROVE objs'[q].gen = Build(objs', q)
      <4>1. CASE q = o
          BY <4>1, <2>4, <2>6, <2>9
      <4>2. CASE q # o
          BY <4>2, <2>5, <2>6, <2>8, <2>9, <3>1 DEF Current
      <4> QED BY <4>1, <4>2
    <3> QED BY <3>1 DEF Current
  <2>11. BuiltIsCurrent' /\ Items' = Items
      BY <2>6, <2>8, <2>10, CurrentNow, SameSets
  <2>12. Numbers'
    <3>1. Highest' = Highest /\ Highest \in Nat /\ DOMAIN dist_ref_to_var_map \subseteq 1..Highest
        BY <1>1, <2>3 DEF Numbers, Highest
    <3>2. \A q \in DOMAIN objs : objs'[q].list = objs[q].list
        BY <2>5, <2>6
    <3> QED BY <1>1, <2>3, <2>6, <3>1, <3>2, NumbersStay
  <2>13. ASSUME NEW q \in Items', objs'[q].built, NEW v \in VariableChildren(q)',
                NEW x \in objs'[q].gen, NEW y \in objs'[q].gen,
                x.expr.id # 0, dist_ref_to_var_map'[x.expr.id].var = v, x.of # Default(v)',
                y.expr.id # 0, dist_ref_to_var_map'[y.expr.id].var = v
         PROVE  y.of # Default(v)'
    <3>1. q \in Items
        BY <2>11
    <3>2. CASE q # o
      <4>1. objs[q].built /\ objs'[q].gen = objs[q].gen
          BY <3>1, <3>2, <2>5, <2>6, <2>8, <2>13
      <4> QED BY <1>1, <2>3, <2>6, <2>13, <3>1, <4>1, AloneKept
    <3>3. CASE q = o
      <4>1. v \in VariableChildren(o) /\ Default(v)' = Default(v)
        <5>1. o \in DOMAIN objs /\ objs'[o].children = objs[o].children
            BY <2>6, <2>8 DEF SameTree, SameNode
        <5>2. v \in ToSet(objs[o].children) /\ Kind(v)' = "variable"
            BY <3>3, <5>1 DEF VariableChildren
        <5>3. v \in DOMAIN objs
            BY <2>3, <5>1, <5>2 DEF ToSet, TreeInv, TreeSound, Live
        <5>4. Kind(v) = "variable" /\ Default(v)' = Default(v)
            BY <2>6, <2>8, <5>2, <5>3, SameSets
        <5> QED BY <5>2, <5>4 DEF VariableChildren
      <4>2. x \in Build(Crosscheck(o), o) /\ y \in Build(Crosscheck(o), o)
          BY <3>3, <2>4, <2>6
      <4> QED BY <1>1, <2>13, <4>1, <4>2, CrosscheckAlone
    <3> QED BY <3>2, <3>3
  <2>14. UserDistributionAlone'
      BY <2>13, AloneNow
  <2>15. error' = "none"
      BY <2>1, <2>3, <2>4, <2>5, NoNameTwice
  <2> QED BY <2>7, <2>11, <2>12, <2>14, <2>15 DEF IInv, NoClash
<1> QED BY <1>2, <1>3

LEMMA RandomizeWithKeeps ==
    ASSUME IInv, NEW o \in Items, NEW texts \in NewList, RandomizeWith(o, texts)
    PROVE  IInv'
PROOF
<1>1. /\ objs' = objs /\ created' = created /\ crv_obj_stack' = crv_obj_stack /\ frames' = frames
      /\ crv_obj_map' = crv_obj_map /\ dist_ref_to_var_map' = Registered(texts, o)
      /\ error' = IF NameClash(Build(objs, o)) THEN "Constraint already exists" ELSE "none"
    BY DEF RandomizeWith, hierarchyVars
<1>2. TreeInv /\ BuiltIsCurrent /\ Numbers /\ UserDistributionAlone /\ SameTree(objs)
    BY TreeAlone DEF IInv
<1>3. SameTree(objs') /\ error' = "none"
    BY <1>1, <1>2, NoNameTwice
<1>4. texts \in Seq(Texts)
    BY TextsOf
<1>5. /\ DOMAIN dist_ref_to_var_map \subseteq DOMAIN dist_ref_to_var_map'
      /\ \A d \in DOMAIN dist_ref_to_var_map : dist_ref_to_var_map'[d] = dist_ref_to_var_map[d]
      /\ Highest' \in Nat /\ DOMAIN dist_ref_to_var_map' \subseteq 1..Highest'
    BY <1>1, <1>2, <1>4, Registering
<1>6. TreeInv'
    BY <1>1, <1>2, <1>3, TreeKept
<1>7. Numbers'
    BY <1>1, <1>2, <1>3, <1>5, NumbersStay
<1>8. Current(objs')
  <2>1. Current(objs)
      BY <1>2 DEF BuiltIsCurrent, Current
  <2> QED BY <1>1, <2>1
<1>9. BuiltIsCurrent' /\ UserDistributionAlone'
    BY <1>1, <1>2, <1>3, <1>5, <1>8, GeneratorsKept
<1> QED BY <1>3, <1>6, <1>7, <1>9 DEF IInv, NoClash

WithGoal(o) == [objs EXCEPT ![o].goal = TRUE]

LEMMA GoalSet ==
    ASSUME TreeInv, NEW o
    PROVE  LET rs == WithGoal(o) IN
           /\ SameTree(rs)
           /\ \A q \in DOMAIN objs :
                 /\ rs[q].active = objs[q].active /\ rs[q].list = objs[q].list
                 /\ rs[q].built = objs[q].built /\ rs[q].gen = objs[q].gen
PROOF
<1> DEFINE rs == WithGoal(o)
<1>1. DOMAIN rs = DOMAIN objs
    BY DEF WithGoal
<1>2. ASSUME NEW q \in DOMAIN objs
      PROVE  /\ IsObject(rs[q]) /\ SameNode(rs[q], objs[q])
             /\ rs[q].active = objs[q].active /\ rs[q].list = objs[q].list
             /\ rs[q].built = objs[q].built /\ rs[q].gen = objs[q].gen
  <2>1. IsObject(objs[q])
      BY DEF TreeInv, Addresses
  <2>2. CASE q # o
    <3>1. rs[q] = objs[q]
        BY <2>2 DEF WithGoal
    <3> QED BY <2>1, <3>1 DEF SameNode
  <2>3. CASE q = o
    <3>1. rs[q] = [objs[q] EXCEPT !.goal = TRUE]
        BY <2>3 DEF WithGoal
    <3> HIDE DEF rs
    <3>2. IsObject(rs[q])
        BY <2>1, <3>1 DEF IsObject
    <3>3. SameNode(rs[q], objs[q])
        BY <2>1, <3>1 DEF IsObject, SameNode
    <3>4. /\ rs[q].active = objs[q].active /\ rs[q].list = objs[q].list
          /\ rs[q].built = objs[q].built /\ rs[q].gen = objs[q].gen
        BY <2>1, <3>1 DEF IsObject
    <3> QED BY <3>2, <3>3, <3>4
  <2> QED BY <2>2, <2>3
<1> QED BY <1>1, <1>2 DEF SameTree

LEMMA GoalKeeps ==
    ASSUME IInv, NEW o \in Items, AddGoal(o)
    PROVE  IInv'
PROOF
<1>1. /\ created' = created /\ crv_obj_stack' = crv_obj_stack /\ frames' = frames
      /\ crv_obj_map' = crv_obj_map /\ dist_ref_to_var_map' = dist_ref_to_var_map
      /\ error' # "Constraint already exists"
    BY DEF AddGoal
<1>2. TreeInv /\ BuiltIsCurrent /\ Numbers /\ UserDistributionAlone
    BY DEF IInv
<1>3. objs' = objs \/ objs' = WithGoal(o)
    BY DEF AddGoal, WithGoal
<1>4. /\ SameTree(objs')
      /\ \A q \in DOMAIN objs :
            /\ objs'[q].active = objs[q].active /\ objs'[q].list = objs[q].list
            /\ objs'[q].built = objs[q].built /\ objs'[q].gen = objs[q].gen
  <2>1. CASE objs' = objs
      BY <2>1, <1>2, TreeAlone
  <2>2. CASE objs' = WithGoal(o)
      BY <2>2, <1>2, GoalSet
  <2> QED BY <1>3, <2>1, <2>2
<1>5. TreeInv'
    BY <1>1, <1>2, <1>4, TreeKept
<1>6. Numbers'
  <2>1. Highest' = Highest /\ Highest \in Nat /\ DOMAIN dist_ref_to_var_map \subseteq 1..Highest
      BY <1>1, <1>2 DEF Numbers, Highest
  <2> QED BY <1>1, <1>2, <1>4, <2>1, NumbersStay
<1>7. Current(objs')
  <2>1. ASSUME NEW q \in Items, objs'[q].built PROVE objs'[q].gen = Build(objs', q)
    <3>1. q \in DOMAIN objs /\ Constraints \subseteq DOMAIN objs
        BY DEF Items, Constraints, Live
    <3>2. \A c \in Constraints \intersect Subtree(q) :
              /\ objs'[c].active = objs[c].active /\ objs'[c].list = objs[c].list
              /\ objs'[c].full = objs[c].full /\ objs'[c].class = objs[c].class
        BY <1>4, <3>1 DEF SameTree, SameNode
    <3>3. Build(objs', q) = Build(objs, q)
        BY <3>2, BuildSame
    <3> QED BY <1>2, <1>4, <2>1, <3>1, <3>3 DEF BuiltIsCurrent
  <2> QED BY <2>1 DEF Current
<1>8. \A q \in Items : objs'[q].built => objs[q].built /\ objs'[q].gen = objs[q].gen
    BY <1>4 DEF Items, Live
<1>9. BuiltIsCurrent' /\ UserDistributionAlone'
    BY <1>1, <1>2, <1>4, <1>7, <1>8, GeneratorsKept
<1> QED BY <1>1, <1>5, <1>6, <1>9 DEF IInv, NoClash

LEMMA InitInv == Init => IInv
PROOF
<1> SUFFICES ASSUME Init PROVE IInv
    OBVIOUS
<1> DEFINE root == Object([kind |-> "root", members |-> <<>>, texts |-> <<>>], NoParent, {Root0},
                          Plain("root"), Plain("root"), <<Plain("root")>>)
<1>1. /\ objs = [o \in {Root0} |-> root] /\ created = 0
      /\ crv_obj_stack = <<>> /\ frames = <<>> /\ crv_obj_map = [f \in {} |-> 0]
      /\ dist_ref_to_var_map = [d \in {} |-> [var |-> 0, ranges |-> <<>>]] /\ error = "none"
    BY DEF Init, HierarchyInit
<1>2. /\ IsObject(root) /\ root.children = <<>> /\ root.class.kind = "root" /\ root.above = {Root0}
    BY DEF Object, IsObject
<1> HIDE DEF root
<1>3. DOMAIN objs = {Root0} /\ objs[Root0] = root /\ Live = {}
    BY <1>1 DEF Live
<1>4. Items = {} /\ Constraints = {}
    BY <1>3 DEF Items, Constraints
<1>5. Addresses
  <2>1. root.children \in Seq(Nat)
      BY <1>2
  <2>2. DOMAIN objs \subseteq 0..created
      BY <1>1, <1>3 DEF Root0
  <2> QED BY <1>1, <1>2, <1>3, <2>1, <2>2 DEF Addresses, Kind, Ancestors
<1>6. Around
    BY <1>2, <1>3 DEF Around, Ancestors
<1>7. TreeSound
    BY <1>1, <1>2, <1>3 DEF TreeSound
<1>8. Constructing
  <2>1. crv_obj_stack \in Seq(Live) /\ frames \in Seq(Nat) /\ Len(crv_obj_stack) = 0 /\ Len(frames) = 0
      BY <1>1, EmptySeq
  <2> QED BY <2>1 DEF Constructing
<1>9. FullNames /\ Counted /\ NamesApart /\ FullApart
    BY <1>3 DEF FullNames, Counted, NamesApart, FullApart
<1>10. FindSound
    BY <1>1 DEF FindSound
<1>11. BuiltIsCurrent /\ UserDistributionAlone /\ NoClash
    BY <1>1, <1>4 DEF BuiltIsCurrent, UserDistributionAlone, NoClash
<1>12. Numbers
  <2>1. DOMAIN dist_ref_to_var_map = {}
      BY <1>1
  <2> DEFINE S == DOMAIN dist_ref_to_var_map \union {0}
  <2>2. S = {0}
      BY <2>1
  <2> HIDE DEF S
  <2>3. Max(S) \in S
    <3>1. S \in SUBSET Nat /\ S # {} /\ 0 \in Nat /\ \A x \in S : x <= 0
        BY <2>2
    <3> QED BY <3>1, BoundedMax
  <2>4. Highest = 0
      BY <2>2, <2>3 DEF Highest, S
  <2> QED BY <1>4, <2>1, <2>4 DEF Numbers
<1> QED BY <1>5, <1>6, <1>7, <1>8, <1>9, <1>10, <1>11, <1>12 DEF IInv, TreeInv

LEMMA NextKeeps == IInv /\ [Next]_vars => IInv'
PROOF
<1> SUFFICES ASSUME IInv, [Next]_vars PROVE IInv'
    OBVIOUS
<1>1. ASSUME NEW d \in Declared, DeclareObject(d) PROVE IInv'
    BY <1>1, DeclareKeeps
<1>2. CASE ConstructMember
    BY <1>2, MemberKeeps
<1>3. CASE EndConstruction
    BY <1>3, EndKeeps
<1>4. ASSUME NEW o \in Live, DestroyObject(o) PROVE IInv'
    BY <1>4, DestroyKeeps
<1>5. ASSUME NEW o \in Live, CopyAndDestroy(o) PROVE IInv'
    BY <1>5, CopyKeeps
<1>6. ASSUME NEW c \in Constraints, Activate(c) PROVE IInv'
    BY <1>6, SwitchKeeps DEF Activate
<1>7. ASSUME NEW c \in Constraints, Deactivate(c) PROVE IInv'
    BY <1>7, SwitchKeeps DEF Deactivate
<1>8. ASSUME NEW c \in Constraints, NEW texts \in NewList, AssignList(c, texts) PROVE IInv'
    BY <1>8, EditKeeps DEF AssignList
<1>9. ASSUME NEW c \in Constraints, NEW texts \in NewList, JoinList(c, texts) PROVE IInv'
    BY <1>9, EditKeeps DEF JoinList
<1>10. ASSUME NEW o \in Items, Randomize(o) PROVE IInv'
    BY <1>10, RandomizeKeeps
<1>11. ASSUME NEW o \in Items, NEW texts \in NewList, RandomizeWith(o, texts) PROVE IInv'
    BY <1>11, RandomizeWithKeeps
<1>12. ASSUME NEW o \in Items, AddGoal(o) PROVE IInv'
    BY <1>12, GoalKeeps
<1>13. CASE UNCHANGED vars
  <2>1. /\ objs' = objs /\ created' = created /\ crv_obj_stack' = crv_obj_stack /\ frames' = frames
        /\ crv_obj_map' = crv_obj_map /\ dist_ref_to_var_map' = dist_ref_to_var_map /\ error' = error
      BY <1>13 DEF vars, hierarchyVars
  <2>2. SameTree(objs') /\ BuiltIsCurrent' /\ Numbers' /\ UserDistributionAlone'
      BY <2>1, StillKeeps
  <2>3. TreeInv'
      BY <2>1, <2>2, TreeKept DEF IInv
  <2> QED BY <2>1, <2>2, <2>3 DEF IInv, NoClash
<1> QED BY <1>1, <1>2, <1>3, <1>4, <1>5, <1>6, <1>7, <1>8, <1>9, <1>10, <1>11, <1>12, <1>13 DEF Next

(***************************************************************************)
(* Draws from a distribution.                                              *)
(***************************************************************************)
ExactDraws(rs) ==
    /\ Len(rs) > 1 /\ Last(rs).accum > 0 =>
          \A i \in DOMAIN rs :
              Cardinality({r \in RandomNumbers(rs) : Selected(rs, r) = i}) = rs[i].weight
    /\ \A x \in NextValue(rs) : InRanges(rs, x)
    /\ \A i, j \in DOMAIN rs : rs[i].left # rs[j].left =>
          (rs[i].left..rs[i].right) \intersect (rs[j].left..rs[j].right) = {}

LEMMA Smallest ==
    ASSUME NEW S \in SUBSET Nat, S # {}
    PROVE  \E k \in S : \A m \in S : k <= m
PROOF
<1>1. PICK k \in S : \A m \in S : ~(<<m, k>> \in OpToRel(<, Nat))
    BY NatLessThanWellFounded, WFMin, Zenon
<1>2. \A m \in S : ~(m < k)
    BY <1>1 DEF OpToRel
<1> QED BY <1>2

(* The accumulated weights are defined: there are such numbers for every   *)
(* length.                                                                 *)
LEMMA AccumExist ==
    ASSUME NEW M \in Nat \ {0}, NEW n \in Nat, NEW w \in [1..n -> 0..(M - 1)]
    PROVE  \E f \in [1..n -> 0..(M - 1)] :
             \A i \in 1..n : f[i] = IF i = 1 THEN w[1] ELSE (f[i - 1] + w[i]) % M
PROOF
<1> DEFINE Accum(k, f) == \A i \in 1..k : f[i] = IF i = 1 THEN w[1] ELSE (f[i - 1] + w[i]) % M
           T == {k \in 0..n : ~ \E f \in [1..k -> 0..(M - 1)] : Accum(k, f)}
<1>1. SUFFICES T = {}
  <2>1. n \in 0..n
      OBVIOUS
  <2>2. T = {} => \E f \in [1..n -> 0..(M - 1)] : Accum(n, f)
      BY <2>1
  <2> QED BY <2>2
<1>2. SUFFICES ASSUME T # {} PROVE FALSE
    OBVIOUS
<1>3. PICK k \in T : \A m \in T : k <= m
  <2>1. T \in SUBSET Nat
      OBVIOUS
  <2> HIDE DEF T
  <2> QED BY <1>2, <2>1, Smallest
<1>4. k \in 0..n /\ ~ \E f \in [1..k -> 0..(M - 1)] : Accum(k, f)
    OBVIOUS
<1>5. k # 0
  <2>1. [i \in 1..0 |-> 0] \in [1..0 -> 0..(M - 1)]
      OBVIOUS
  <2>2. Accum(0, [i \in 1..0 |-> 0])
      OBVIOUS
  <2> HIDE DEF Accum
  <2> QED BY <1>4, <2>1, <2>2
<1>6. k - 1 \in 0..n /\ k - 1 \notin T
  <2>1. k \in Int /\ k - 1 \in 0..n /\ ~(k <= k - 1)
      BY <1>4, <1>5
  <2> HIDE DEF T
  <2> QED BY <1>3, <2>1
<1>7. PICK f \in [1..(k - 1) -> 0..(M - 1)] : Accum(k - 1, f)
    BY <1>6
<1> DEFINE x == IF k = 1 THEN w[1] ELSE (f[k - 1] + w[k]) % M
           g == [i \in 1..k |-> IF i = k THEN x ELSE f[i]]
<1>8. k \in 1..n /\ w[k] \in 0..(M - 1) /\ w[1] \in 0..(M - 1)
    BY <1>4, <1>5
<1>9. x \in 0..(M - 1)
  <2>1. CASE k = 1
      BY <1>8, <2>1
  <2>2. CASE k # 1
    <3>1. k - 1 \in 1..(k - 1)
        BY <1>8, <2>2
    <3>2. f[k - 1] \in 0..(M - 1)
        BY <3>1
    <3>3. f[k - 1] + w[k] \in Int
        BY <1>8, <3>2
    <3> QED BY <2>2, <3>3
  <2> QED BY <2>1, <2>2
<1> HIDE DEF x
<1>10. g \in [1..k -> 0..(M - 1)]
  <2>1. \A i \in 1..k : i # k => i \in 1..(k - 1)
      BY <1>8
  <2> QED BY <1>9, <2>1
<1>11. Accum(k, g)
  <2> SUFFICES ASSUME NEW i \in 1..k
               PROVE  g[i] = IF i = 1 THEN w[1] ELSE (g[i - 1] + w[i]) % M
      OBVIOUS
  <2>1. i # 1 => i - 1 \in 1..k /\ i - 1 # k /\ i - 1 \in 1..(k - 1)
      BY <1>8
  <2>2. i # 1 => g[i - 1] = f[i - 1]
      BY <2>1
  <2>3. CASE i = k
      BY <2>2, <2>3 DEF x
  <2>4. CASE i # k
    <3>1. i \in 1..(k - 1)
        BY <1>8, <2>4
    <3>2. f[i] = IF i = 1 THEN w[1] ELSE (f[i - 1] + w[i]) % M
        BY <1>7, <3>1
    <3>3. g[i] = f[i]
        BY <2>4
    <3> QED BY <2>2, <3>2, <3>3
  <2> QED BY <2>3, <2>4
<1> HIDE DEF Accum, g
<1> QED BY <1>4, <1>10, <1>11

LEMMA AddRangesFacts ==
    ASSUME NEW wrs \in Seq(GivenRange)
    PROVE  LET rs == AddRanges(wrs)
               n == Len(wrs) IN
           /\ n \in Nat /\ DOMAIN rs = 1..n /\ Len(rs) = n /\ rs \in Seq([accum : Nat, weight : Nat, left : Int, right : Int])
           /\ \A i \in 1..n :
                /\ rs[i].left = wrs[i].left /\ rs[i].right = wrs[i].right
                /\ rs[i].accum \in 0..(2 ^ WeightBits - 1)
                /\ rs[i].accum = IF i = 1 THEN rs[1].weight ELSE AsWeight(rs[i - 1].accum + rs[i].weight)
PROOF
<1> DEFINE n == Len(wrs)
           M == 2 ^ WeightBits
           rs == AddRanges(wrs)
           P(f) == f = [i \in DOMAIN wrs |->
                          IF i = 1 THEN wrs[1].weight ELSE AsWeight(f[i - 1] + wrs[i].weight)]
           accum == CHOOSE f : P(f)
<1>1. M \in Nat \ {0}
    BY BitsAssumption
<1>2. n \in Nat /\ DOMAIN wrs = 1..n /\ wrs \in [1..n -> GivenRange]
    OBVIOUS
<1>3. rs = [i \in DOMAIN wrs |-> [wrs[i] EXCEPT !.accum = accum[i]]]
    BY Zenon DEF AddRanges
<1>4. \A x : AsWeight(x) = x % M
    BY DEF AsWeight
<1> DEFINE w == [i \in 1..n |-> wrs[i].weight]
<1>5. \A i \in 1..n : /\ wrs[i] \in GivenRange
                      /\ wrs[i].weight \in 0..(M - 1) /\ wrs[i].left \in Int /\ wrs[i].right \in Int
    BY <1>2 DEF GivenRange
<1>6. w \in [1..n -> 0..(M - 1)]
    BY <1>5
<1> HIDE DEF n, M, rs, P, accum
<1>7. PICK g \in [1..n -> 0..(M - 1)] :
        \A i \in 1..n : g[i] = IF i = 1 THEN w[1] ELSE (g[i - 1] + w[i]) % M
  <2> HIDE DEF w
  <2> QED BY <1>1, <1>2, <1>6, AccumExist
<1>8. P(g)
  <2>1. \A i \in 1..n : g[i] = IF i = 1 THEN wrs[1].weight ELSE AsWeight(g[i - 1] + wrs[i].weight)
      BY <1>2, <1>4, <1>7
  <2> QED BY <1>2, <2>1 DEF P
<1>9. P(accum)
    BY <1>8, Zenon DEF accum
<1>10. /\ DOMAIN accum = 1..n
       /\ \A i \in 1..n : accum[i] = IF i = 1 THEN wrs[1].weight ELSE AsWeight(accum[i - 1] + wrs[i].weight)
  <2>1. accum = [i \in 1..n |->
                   IF i = 1 THEN wrs[1].weight ELSE AsWeight(accum[i - 1] + wrs[i].weight)]
      BY <1>2, <1>9 DEF P
  <2> QED BY <2>1
<1>11. \A i \in 1..n : accum[i] \in 0..(M - 1)
  <2> DEFINE T == {i \in 1..n : accum[i] \notin 0..(M - 1)}
  <2> SUFFICES ASSUME T # {} PROVE FALSE
      OBVIOUS
  <2>1. T \in SUBSET Nat
      BY <1>2
  <2>2. PICK k \in T : \A m \in T : k <= m
    <3> HIDE DEF T
    <3> QED BY <2>1, Smallest
  <2>3. k \in 1..n /\ accum[k] \notin 0..(M - 1)
      OBVIOUS
  <2>4. k # 1
      BY <1>5, <1>10, <2>3
  <2>5. k - 1 \in 1..n /\ ~(k <= k - 1)
      BY <1>2, <2>3, <2>4
  <2>6. k - 1 \notin T
    <3> HIDE DEF T
    <3> QED BY <2>2, <2>5
  <2>7. accum[k - 1] \in 0..(M - 1)
      BY <2>5, <2>6
  <2>8. accum[k] = (accum[k - 1] + wrs[k].weight) % M
      BY <1>4, <1>10, <2>3, <2>4
  <2>9. accum[k - 1] + wrs[k].weight \in Int
      BY <1>1, <1>5, <2>3, <2>7
  <2>10. \A x \in Int : x % M \in 0..(M - 1)
      BY <1>1
  <2> QED BY <2>3, <2>8, <2>9, <2>10
<1>12. ASSUME NEW i \in 1..n
       PROVE  rs[i] = [accum |-> accum[i], weight |-> wrs[i].weight, left |-> wrs[i].left, right |-> wrs[i].right]
  <2>1. wrs[i] = [accum |-> wrs[i].accum, weight |-> wrs[i].weight, left |-> wrs[i].left, right |-> wrs[i].right]
      BY <1>5 DEF GivenRange
  <2>2. rs[i] = [wrs[i] EXCEPT !.accum = accum[i]]
      BY <1>2, <1>3
  <2> QED BY <2>1, <2>2
<1> DEFINE X == [accum : Nat, weight : Nat, left : Int, right : Int]
<1>13. rs \in [1..n -> X]
  <2>1. ASSUME NEW i \in 1..n PROVE rs[i] \in X
    <3>1. accum[i] \in Nat /\ wrs[i].weight \in Nat /\ wrs[i].left \in Int /\ wrs[i].right \in Int
        BY <1>1, <1>5, <1>11
    <3>2. rs[i] = [accum |-> accum[i], weight |-> wrs[i].weight, left |-> wrs[i].left, right |-> wrs[i].right]
        BY <1>12
    <3> QED BY <3>1, <3>2
  <2>2. rs = [i \in 1..n |-> rs[i]]
      BY <1>2, <1>3
  <2> HIDE DEF X
  <2> QED BY <2>1, <2>2
<1>14. rs \in Seq(X) /\ Len(rs) = n /\ DOMAIN rs = 1..n
  <2> HIDE DEF X
  <2> QED BY <1>2, <1>13, SeqDef
<1>15. ASSUME NEW i \in 1..n
       PROVE  /\ rs[i].left = wrs[i].left /\ rs[i].right = wrs[i].right
              /\ rs[i].accum \in 0..(M - 1)
              /\ rs[i].accum = IF i = 1 THEN rs[1].weight ELSE AsWeight(rs[i - 1].accum + rs[i].weight)
  <2>1. i # 1 => i - 1 \in 1..n
      BY <1>2
  <2>2. 1 \in 1..n
      BY <1>2
  <2>3. \A j \in 1..n : /\ rs[j].left = wrs[j].left /\ rs[j].right = wrs[j].right
                         /\ rs[j].accum = accum[j] /\ rs[j].weight = wrs[j].weight
    <3> TAKE j \in 1..n
    <3>1. rs[j] = [accum |-> accum[j], weight |-> wrs[j].weight, left |-> wrs[j].left, right |-> wrs[j].right]
        BY <1>12
    <3> QED BY <3>1
  <2>4. rs[i].accum \in 0..(M - 1)
      BY <1>11, <2>3
  <2>5. accum[i] = IF i = 1 THEN wrs[1].weight ELSE AsWeight(accum[i - 1] + wrs[i].weight)
      BY <1>10
  <2>6. rs[i].accum = IF i = 1 THEN rs[1].weight ELSE AsWeight(rs[i - 1].accum + rs[i].weight)
    <3>1. CASE i = 1
        BY <2>2, <2>3, <2>5, <3>1
    <3>2. CASE i # 1
        BY <2>1, <2>3, <2>5, <3>2
    <3> QED BY <3>1, <3>2
  <2> QED BY <2>3, <2>4, <2>6
<1> QED BY <1>2, <1>14, <1>15 DEF n, M, rs

(* Without a cut off sum the accumulated weights are the ends of adjacent  *)
(* intervals.                                                              *)
LEMMA AccumGrows ==
    ASSUME NEW wrs \in Seq(GivenRange), Fits(AddRanges(wrs))
    PROVE  LET rs == AddRanges(wrs) IN
           /\ \A i \in 1..Len(rs) : rs[i].accum = IF i = 1 THEN rs[1].weight ELSE rs[i - 1].accum + rs[i].weight
           /\ \A i, j \in 1..Len(rs) : i <= j => rs[i].accum <= rs[j].accum
PROOF
<1> DEFINE rs == AddRanges(wrs)
           n == Len(wrs)
           M == 2 ^ WeightBits
           X == [accum : Nat, weight : Nat, left : Int, right : Int]
<1>1. M \in Nat \ {0}
    BY BitsAssumption
<1>2. /\ n \in Nat /\ DOMAIN rs = 1..n /\ Len(rs) = n /\ rs \in Seq(X)
      /\ \A i \in 1..n : rs[i].accum = IF i = 1 THEN rs[1].weight ELSE AsWeight(rs[i - 1].accum + rs[i].weight)
    BY AddRangesFacts
<1>3. ASSUME NEW i \in 1..n PROVE rs[i].accum \in Nat /\ rs[i].weight \in Nat
  <2>1. rs[i] \in X
    <3> HIDE DEF rs, n, X
    <3> QED BY <1>2
  <2> HIDE DEF rs
  <2> QED BY <2>1
<1>4. \A i \in (1..n) \ {1} : rs[i - 1].accum + rs[i].weight < M
    BY <1>2 DEF Fits
<1>5. \A x : AsWeight(x) = x % M
    BY DEF AsWeight
<1> HIDE DEF rs, n, M, X
<1>6. \A x \in Nat : x < M => x % M = x
    BY <1>1
<1>7. ASSUME NEW i \in 1..n
      PROVE  rs[i].accum = IF i = 1 THEN rs[1].weight ELSE rs[i - 1].accum + rs[i].weight
  <2>1. CASE i = 1
      BY <1>2, <2>1
  <2>2. CASE i # 1
    <3>1. i - 1 \in 1..n
        BY <1>2, <2>2
    <3> DEFINE x == rs[i - 1].accum + rs[i].weight
    <3>2. x \in Nat /\ x < M
        BY <1>3, <1>4, <2>2, <3>1
    <3>3. rs[i].accum = AsWeight(x)
        BY <1>2, <2>2
    <3> HIDE DEF x
    <3>4. rs[i].accum = x
        BY <1>5, <1>6, <3>2, <3>3
    <3> QED BY <2>2, <3>4 DEF x
  <2> QED BY <2>1, <2>2
<1>8. \A i, j \in 1..n : i <= j => rs[i].accum <= rs[j].accum
  <2> DEFINE T == {j \in 1..n : \E i \in 1..n : i <= j /\ ~(rs[i].accum <= rs[j].accum)}
  <2> SUFFICES ASSUME T # {} PROVE FALSE
      OBVIOUS
  <2>1. T \in SUBSET Nat
      BY <1>2
  <2>2. PICK k \in T : \A m \in T : k <= m
    <3> HIDE DEF T
    <3> QED BY <2>1, Smallest
  <2>3. k \in 1..n
      OBVIOUS
  <2>4. PICK i \in 1..n : i <= k /\ ~(rs[i].accum <= rs[k].accum)
      OBVIOUS
  <2>5. i # k
      BY <1>3, <2>4
  <2>6. k # 1 /\ k - 1 \in 1..n /\ i <= k - 1 /\ ~(k <= k - 1)
      BY <1>2, <2>3, <2>4, <2>5
  <2>7. k - 1 \notin T
    <3> HIDE DEF T
    <3> QED BY <2>2, <2>6
  <2>8. rs[i].accum <= rs[k - 1].accum
      BY <2>6, <2>7
  <2>9. rs[k].accum = rs[k - 1].accum + rs[k].weight
      BY <1>7, <2>3, <2>6
  <2>10. rs[k - 1].accum \in Nat /\ rs[k].weight \in Nat /\ rs[i].accum \in Nat
      BY <1>3, <2>3, <2>6
  <2> QED BY <2>4, <2>8, <2>9, <2>10
<1> QED BY <1>2, <1>7, <1>8 DEF rs

(* The random numbers that select a range are as many as its weight.       *)
LEMMA DrawnByWeight ==
    ASSUME NEW wrs \in Seq(GivenRange), Fits(AddRanges(wrs)),
           Len(AddRanges(wrs)) > 1, Last(AddRanges(wrs)).accum > 0,
           NEW i \in DOMAIN AddRanges(wrs)
    PROVE  LET rs == AddRanges(wrs) IN
           Cardinality({r \in RandomNumbers(rs) : Selected(rs, r) = i}) = rs[i].weight
PROOF
<1> DEFINE rs == AddRanges(wrs)
           n == Len(rs)
           M == 2 ^ WeightBits
           a == rs[n].accum
           lo == IF i = 1 THEN 0 ELSE rs[i - 1].accum
           X == [accum : Nat, weight : Nat, left : Int, right : Int]
<1>1. M \in Nat \ {0}
    BY BitsAssumption
<1>2. /\ n \in Nat /\ DOMAIN rs = 1..n /\ rs \in Seq(X)
      /\ \A j \in 1..n : rs[j].accum \in 0..(M - 1)
    BY AddRangesFacts
<1>3. /\ \A j \in 1..n : rs[j].accum = IF j = 1 THEN rs[1].weight ELSE rs[j - 1].accum + rs[j].weight
      /\ \A j, k \in 1..n : j <= k => rs[j].accum <= rs[k].accum
    BY AccumGrows
<1>4. n > 1 /\ i \in 1..n /\ n \in 1..n
    BY <1>2
<1>5. a > 0 /\ RandomNumbers(rs) = 0..((a - 1) % M)
    BY DEF Last, RandomNumbers, AsWeight
<1>6. ASSUME NEW j \in 1..n PROVE rs[j].weight \in Nat /\ rs[j].accum \in Nat
  <2>1. rs[j] \in X
    <3> HIDE DEF rs, X
    <3> QED BY <1>2
  <2> HIDE DEF rs
  <2> QED BY <2>1
<1>7. \A r : Selected(rs, r) =
        LET above == {j \in DOMAIN rs : r < rs[j].accum} IN
        IF above = {} THEN n ELSE CHOOSE j \in above : \A k \in above : j <= k
    BY DEF Selected
<1> HIDE DEF rs, n, M, X
<1>8. a \in 1..(M - 1) /\ RandomNumbers(rs) = 0..(a - 1)
  <2>1. a \in 1..(M - 1)
      BY <1>1, <1>2, <1>4, <1>5
  <2>2. (a - 1) % M = a - 1
    <3> HIDE DEF a
    <3> QED BY <1>1, <2>1
  <2> QED BY <1>5, <2>1, <2>2
<1>9. lo \in Nat /\ rs[i].accum = lo + rs[i].weight /\ rs[i].accum <= a
  <2>1. CASE i = 1
      BY <1>3, <1>4, <1>6, <2>1
  <2>2. CASE i # 1
    <3>1. i - 1 \in 1..n
        BY <1>4, <2>2, <1>2
    <3> QED BY <1>3, <1>4, <1>6, <2>2, <3>1
  <2> QED BY <2>1, <2>2
<1>10. ASSUME NEW r \in 0..(a - 1)
       PROVE  Selected(rs, r) = i <=> lo <= r /\ r < rs[i].accum
  <2> DEFINE above == {j \in 1..n : r < rs[j].accum}
             least == CHOOSE j \in above : \A k \in above : j <= k
  <2>1. r \in Nat /\ r < a
      BY <1>8
  <2>2. n \in above /\ above \in SUBSET Nat
      BY <1>2, <1>4, <2>1
  <2>3. Selected(rs, r) = least
      BY <1>2, <1>7, <2>2
  <2> HIDE DEF above
  <2>4. \E j \in above : \A k \in above : j <= k
      BY <2>2, Smallest
  <2>5. least \in above /\ \A k \in above : least <= k
      BY <2>4
  <2> HIDE DEF least
  <2>6. least \in 1..n /\ r < rs[least].accum
      BY <2>5 DEF above
  <2>7. ASSUME least = i PROVE lo <= r /\ r < rs[i].accum
    <3>1. CASE i = 1
        BY <2>1, <2>6, <2>7, <3>1
    <3>2. CASE i # 1
      <4>1. i - 1 \in 1..n /\ ~(i <= i - 1)
          BY <1>2, <1>4, <3>2
      <4>2. i - 1 \notin above
          BY <2>5, <2>7, <4>1
      <4>3. ~(r < rs[i - 1].accum) /\ rs[i - 1].accum \in Nat
          BY <1>6, <4>1, <4>2 DEF above
      <4> QED BY <2>1, <2>6, <2>7, <3>2, <4>3
    <3> QED BY <3>1, <3>2
  <2>8. ASSUME lo <= r, r < rs[i].accum PROVE least = i
    <3>1. i \in above
        BY <1>4, <2>8 DEF above
    <3>2. least <= i
        BY <2>5, <3>1
    <3>3. ~(least < i)
      <4> SUFFICES ASSUME least < i PROVE FALSE
          OBVIOUS
      <4>1. i # 1 /\ i - 1 \in 1..n /\ least <= i - 1
          BY <1>2, <1>4, <2>6
      <4>2. rs[least].accum <= rs[i - 1].accum /\ lo = rs[i - 1].accum
          BY <1>3, <2>6, <4>1
      <4>3. rs[least].accum \in Nat /\ rs[i - 1].accum \in Nat
          BY <1>6, <2>6, <4>1
      <4> QED BY <2>1, <2>6, <2>8, <4>2, <4>3
    <3> QED BY <1>4, <2>6, <3>2, <3>3
  <2> QED BY <2>3, <2>7, <2>8
<1> DEFINE up == rs[i].accum - 1
<1>11. up \in Int /\ up <= a - 1 /\ a \in Int
    BY <1>4, <1>6, <1>8, <1>9
<1>12. \A r \in 0..(a - 1) : Selected(rs, r) = i <=> lo <= r /\ r <= up
    BY <1>4, <1>6, <1>10
<1> HIDE DEF lo, up, a
<1>13. {r \in RandomNumbers(rs) : Selected(rs, r) = i} = lo..up
    BY <1>8, <1>9, <1>11, <1>12
<1>14. Cardinality(lo..up) = IF lo > up THEN 0 ELSE up - lo + 1
    BY <1>9, <1>11, FS_Interval
<1>15. (IF lo > up THEN 0 ELSE up - lo + 1) = rs[i].weight
    BY <1>4, <1>6, <1>9 DEF up
<1> QED BY <1>13, <1>14, <1>15 DEF rs

(* Ranges of which addRange() refused none: what holds of the draws.       *)
LEMMA DrawsFrom ==
    ASSUME NEW wrs \in Seq(GivenRange), Fits(AddRanges(wrs)),
           \A i, j \in 1..Len(wrs) : i # j => ~Overlap(wrs[i], wrs[j])
    PROVE  ExactDraws(AddRanges(wrs))
PROOF
<1> DEFINE rs == AddRanges(wrs)
           n == Len(rs)
           X == [accum : Nat, weight : Nat, left : Int, right : Int]
<1>1. /\ n \in Nat /\ n = Len(wrs) /\ DOMAIN rs = 1..n /\ rs \in Seq(X)
      /\ \A i \in 1..n : rs[i].left = wrs[i].left /\ rs[i].right = wrs[i].right
    BY AddRangesFacts
<1>2. n > 1 /\ Last(rs).accum > 0 =>
        \A i \in DOMAIN rs : Cardinality({r \in RandomNumbers(rs) : Selected(rs, r) = i}) = rs[i].weight
    BY DrawnByWeight
<1> HIDE DEF rs
<1>3. ASSUME NEW i \in 1..n PROVE rs[i].left \in Int /\ rs[i].right \in Int
  <2>1. rs[i] \in X
    <3> HIDE DEF X
    <3> QED BY <1>1
  <2> QED BY <2>1
<1>4. ASSUME NEW x \in NextValue(rs) PROVE InRanges(rs, x)
  <2>1. CASE rs = <<>>
      BY <2>1 DEF InRanges
  <2>2. CASE rs # <<>>
    <3>1. n # 0
      <4> HIDE DEF X
      <4> QED BY <1>1, <2>2, EmptySeq
    <3> DEFINE selected == IF n = 1 THEN {1} ELSE {Selected(rs, r) : r \in RandomNumbers(rs)}
    <3>2. NextValue(rs) = UNION {rs[i].left..rs[i].right : i \in selected}
        BY <2>2 DEF NextValue
    <3>3. selected \subseteq 1..n
      <4>1. ASSUME NEW r PROVE Selected(rs, r) \in 1..n
        <5> DEFINE above == {j \in DOMAIN rs : r < rs[j].accum}
        <5>1. CASE above = {}
            BY <1>1, <3>1, <5>1 DEF Selected
        <5>2. CASE above # {}
          <6>1. above \in SUBSET Nat /\ above \subseteq 1..n
              BY <1>1
          <6>2. Selected(rs, r) = CHOOSE j \in above : \A k \in above : j <= k
              BY <5>2 DEF Selected
          <6> HIDE DEF above
          <6>3. \E j \in above : \A k \in above : j <= k
              BY <5>2, <6>1, Smallest
          <6> QED BY <6>1, <6>2, <6>3
        <5> QED BY <5>1, <5>2
      <4>2. 1 \in 1..n
          BY <1>1, <3>1
      <4> QED BY <4>1, <4>2
    <3> HIDE DEF selected
    <3>4. PICK i \in selected : x \in rs[i].left..rs[i].right
        BY <3>2
    <3>5. i \in DOMAIN rs /\ rs[i].left <= x /\ x <= rs[i].right
        BY <1>1, <1>3, <3>3, <3>4
    <3> QED BY <3>5 DEF InRanges
  <2> QED BY <2>1, <2>2
<1>5. ASSUME NEW i \in 1..n, NEW j \in 1..n, rs[i].left # rs[j].left
      PROVE  (rs[i].left..rs[i].right) \intersect (rs[j].left..rs[j].right) = {}
  <2>1. i # j /\ ~Overlap(wrs[i], wrs[j])
      BY <1>1, <1>5
  <2>2. ~(rs[i].left < rs[j].left /\ rs[i].right >= rs[j].left) /\ ~(rs[i].left > rs[j].left /\ rs[i].left <= rs[j].right)
      BY <1>1, <2>1 DEF Overlap
  <2> QED BY <1>3, <1>5, <2>2
<1> QED BY <1>1, <1>2, <1>4, <1>5 DEF ExactDraws, rs

(* make_distribution() and inside() of ranges that are not refused.        *)
LEMMA DistributionDraws ==
    ASSUME NEW texts \in NewList \union {Class[n].texts : n \in DOMAIN Class}, ~Overlapping(texts),
           NEW i \in DistTexts(texts)
    PROVE  ExactDraws(DistributionOf(texts[i]))
PROOF
<1> DEFINE wrs == texts[i].ranges
           n == Len(wrs)
           rev == Reverse(wrs)
<1>1. wrs \in Seq(GivenRange) /\ Fits(DistributionOf(texts[i])) /\ Accepted(wrs)
    BY DistributionsAssumption DEF Overlapping
<1>2. DistributionOf(texts[i]) = AddRanges(wrs) \/ DistributionOf(texts[i]) = AddRanges(rev)
    BY DEF DistributionOf, InsideDistribution, MakeDistribution
<1> HIDE DEF wrs
<1>3. n \in Nat /\ DOMAIN wrs = 1..n /\ \A j \in 1..n : wrs[j] \in GivenRange
    BY <1>1
<1>4. \A a, b \in GivenRange : Overlap(a, b) <=> Overlap(b, a)
    BY DEF Overlap, GivenRange
<1>5. ASSUME NEW j \in 1..n, NEW k \in 1..n, j < k PROVE ~Overlap(wrs[k], wrs[j])
  <2> DEFINE later == SubSeq(wrs, j + 1, n)
  <2>1. ~Refuses(later, wrs[j])
      BY <1>1, <1>3 DEF Accepted
  <2>2. k - j \in 1..(n - (j + 1) + 1) /\ (j + 1) + (k - j) - 1 = k
      BY <1>3, <1>5
  <2>3. k - j \in DOMAIN later /\ later[k - j] = wrs[k]
      BY <1>1, <1>3, <1>5, <2>2
  <2> HIDE DEF later
  <2> QED BY <2>1, <2>3 DEF Refuses
<1>6. \A j, k \in 1..n : j # k => ~Overlap(wrs[j], wrs[k])
  <2> SUFFICES ASSUME NEW j \in 1..n, NEW k \in 1..n, j # k PROVE ~Overlap(wrs[j], wrs[k])
      OBVIOUS
  <2>1. CASE j < k
      BY <1>3, <1>4, <1>5, <2>1
  <2>2. CASE k < j
      BY <1>5, <2>2
  <2> QED BY <1>3, <2>1, <2>2
<1>7. /\ rev \in Seq(GivenRange) /\ Len(rev) = n
      /\ \A j \in 1..n : n - j + 1 \in 1..n /\ rev[j] = wrs[n - j + 1]
  <2>1. \A j \in 1..n : n - j + 1 \in 1..n
      BY <1>3
  <2>2. rev = [j \in 1..n |-> wrs[n - j + 1]]
      BY DEF Reverse
  <2> HIDE DEF rev
  <2>3. rev \in [1..n -> GivenRange]
      BY <1>3, <2>1, <2>2
  <2>4. rev \in Seq(GivenRange) /\ DOMAIN rev = 1..n
      BY <1>3, <2>3, SeqDef
  <2>5. Len(rev) = n
      BY <1>3, <2>4, LenProperties
  <2> QED BY <2>1, <2>2, <2>4, <2>5
<1>8. \A j, k \in 1..n : j # k => ~Overlap(rev[j], rev[k])
  <2> SUFFICES ASSUME NEW j \in 1..n, NEW k \in 1..n, j # k PROVE ~Overlap(rev[j], rev[k])
      OBVIOUS
  <2>1. n - j + 1 # n - k + 1
      BY <1>3
  <2>2. ~Overlap(wrs[n - j + 1], wrs[n - k + 1])
      BY <1>6, <1>7, <2>1
  <2> HIDE DEF rev
  <2> QED BY <1>7, <2>2
<1> HIDE DEF rev
<1>9. CASE DistributionOf(texts[i]) = AddRanges(wrs)
    BY <1>1, <1>6, <1>9, DrawsFrom
<1>10. CASE DistributionOf(texts[i]) = AddRanges(rev)
    BY <1>1, <1>7, <1>8, <1>10, DrawsFrom
<1> QED BY <1>2, <1>9, <1>10

LEMMA DrawsOf == DrawsExact <=> \A d \in DOMAIN dist_ref_to_var_map : ExactDraws(dist_ref_to_var_map[d].ranges)
PROOF BY DEF DrawsExact, ExactDraws

LEMMA DrawsRegistered ==
    ASSUME DrawsExact, NEW texts \in NewList \union {Class[n].texts : n \in DOMAIN Class},
           ~Overlapping(texts), NEW p, dist_ref_to_var_map' = Registered(texts, p)
    PROVE  DrawsExact'
PROOF
<1> DEFINE new == {AuxId(texts, i) : i \in DistTexts(texts)}
<1>1. ASSUME NEW d \in DOMAIN dist_ref_to_var_map' PROVE ExactDraws(dist_ref_to_var_map'[d].ranges)
  <2>1. CASE d \in new
    <3> DEFINE i == CHOOSE j \in DistTexts(texts) : AuxId(texts, j) = d
    <3>1. i \in DistTexts(texts)
        BY <2>1
    <3>2. dist_ref_to_var_map'[d] = [var |-> Lookup(p, texts[i].var), ranges |-> DistributionOf(texts[i])]
        BY <2>1 DEF Registered
    <3> HIDE DEF i
    <3> QED BY <3>1, <3>2, DistributionDraws
  <2>2. CASE d \notin new
    <3>1. d \in DOMAIN dist_ref_to_var_map /\ dist_ref_to_var_map'[d] = dist_ref_to_var_map[d]
        BY <2>2 DEF Registered
    <3> QED BY <3>1, DrawsOf
  <2> QED BY <2>1, <2>2
<1> QED BY <1>1 DEF DrawsExact, ExactDraws

(* No step registers anything else.                                        *)
LEMMA DrawsKept == IInv /\ DrawsExact /\ [Next]_vars => DrawsExact'
PROOF
<1> SUFFICES ASSUME IInv, DrawsExact, [Next]_vars PROVE DrawsExact'
    OBVIOUS
<1> DEFINE Given == NewList \union {Class[n].texts : n \in DOMAIN Class}
<1>1. ASSUME dist_ref_to_var_map' = dist_ref_to_var_map PROVE DrawsExact'
  <2>1. \A d \in DOMAIN dist_ref_to_var_map' : ExactDraws(dist_ref_to_var_map'[d].ranges)
      BY <1>1, DrawsOf
  <2> QED BY <2>1 DEF DrawsExact, ExactDraws
<1>2. ASSUME NEW texts \in Given, ~Overlapping(texts), NEW p, dist_ref_to_var_map' = Registered(texts, p)
      PROVE  DrawsExact'
    BY <1>2, DrawsRegistered
<1> HIDE DEF Given
<1>3. CASE EndConstruction
  <2> DEFINE o == Last(crv_obj_stack)
             texts == objs[o].class.texts
  <2>1. frames # <<>>
      BY <1>3 DEF EndConstruction, MembersDone
  <2>2. o \in Live
      BY <2>1 DEF IInv, TreeInv, Constructing, Last
  <2>3. PICK n \in DOMAIN Class : texts = Class[n].texts
      BY <2>2 DEF IInv, TreeInv, Addresses
  <2>4. texts \in Given /\ ~Overlapping(texts)
      BY <2>3, DistributionsAssumption DEF Given
  <2>5. \/ dist_ref_to_var_map' = dist_ref_to_var_map
        \/ \E p : dist_ref_to_var_map' = Registered(texts, p)
      BY <1>3 DEF EndConstruction
  <2> HIDE DEF texts
  <2> QED BY <1>1, <1>2, <2>4, <2>5
<1>4. ASSUME NEW c, NEW texts \in NewList, NEW old, Edit(c, texts, old) PROVE DrawsExact'
  <2>1. CASE Overlapping(texts)
      BY <1>1, <1>4, <2>1 DEF Edit
  <2>2. CASE ~Overlapping(texts)
    <3>1. dist_ref_to_var_map' = Registered(texts, objs[c].parent)
        BY <1>4, <2>2 DEF Edit
    <3>2. texts \in Given
        BY DEF Given
    <3> QED BY <1>2, <2>2, <3>1, <3>2
  <2> QED BY <2>1, <2>2
<1>5. ASSUME NEW o, NEW texts \in NewList, RandomizeWith(o, texts) PROVE DrawsExact'
  <2>1. dist_ref_to_var_map' = Registered(texts, o) /\ ~Overlapping(texts)
      BY <1>5 DEF RandomizeWith
  <2>2. texts \in Given
      BY DEF Given
  <2> QED BY <1>2, <2>1, <2>2
<1>6. ASSUME NEW d, DeclareObject(d) PROVE DrawsExact'
    BY <1>1, <1>6 DEF DeclareObject
<1>7. CASE ConstructMember
    BY <1>1, <1>7 DEF ConstructMember
<1>8. ASSUME NEW o, DestroyObject(o) \/ CopyAndDestroy(o) \/ Randomize(o) \/ AddGoal(o)
      PROVE  DrawsExact'
    BY <1>1, <1>8 DEF DestroyObject, CopyAndDestroy, Randomize, AddGoal
<1>9. ASSUME NEW c, Activate(c) \/ Deactivate(c) PROVE DrawsExact'
    BY <1>1, <1>9 DEF Activate, Deactivate
<1>10. ASSUME NEW c, NEW texts \in NewList, AssignList(c, texts) \/ JoinList(c, texts)
       PROVE  DrawsExact'
    BY <1>4, <1>10 DEF AssignList, JoinList
<1>11. CASE UNCHANGED vars
    BY <1>1, <1>11 DEF vars
<1> QED BY <1>3, <1>5, <1>6, <1>7, <1>8, <1>9, <1>10, <1>11 DEF Next

(***************************************************************************)
(* The theorems.                                                           *)
(***************************************************************************)
(* The tree of the objects, their names, the generators and the numbers of *)
(* the distributions stay as the constructors, destructors and calls of    *)
(* crv_object, crv_constraint and crv_sequence_item leave them.            *)
THEOREM Invariance == Spec => []IInv
PROOF BY InitInv, NextKeeps, PTL DEF Spec

(* Whatever is declared, copied and destroyed in whatever order, parents   *)
(* and children agree, find() returns no object that was destroyed, and    *)
(* randomize() never fails on two constraints of one name (crv_object(),   *)
(* remove_child, ConstraintManager::makeConstraint).                       *)
THEOREM HierarchySoundAlways == Spec => []HierarchySound
PROOF
<1>1. IInv => HierarchySound
    BY DEF IInv, TreeInv, HierarchySound, NoClash
<1> QED BY <1>1, Invariance, PTL

(* An item that will not rebuild solves exactly the constraints active     *)
(* below it, however deep and however they were switched and edited        *)
(* (request_rebuild, randomize).                                           *)
THEOREM BuiltIsCurrentAlways == Spec => []BuiltIsCurrent
PROOF
<1>1. IInv => BuiltIsCurrent
    BY DEF IInv
<1> QED BY <1>1, Invariance, PTL

(* No generator distributes a member variable by its default constraint    *)
(* and by another one (crosscheck_constraints).                            *)
THEOREM UserDistributionAloneAlways == Spec => []UserDistributionAlone
PROOF
<1>1. IInv => UserDistributionAlone
    BY DEF IInv
<1> QED BY <1>1, Invariance, PTL

(* However long a program runs and whatever it distributes, the number     *)
(* drawn picks each range by its weight, a value drawn satisfies the       *)
(* constraint that dist() makes of the ranges, and no value is in ranges   *)
(* that start apart (addRange, overlap, nextValue).                        *)
THEOREM DrawsExactAlways == Spec => []DrawsExact
PROOF
<1>1. Init => DrawsExact
    BY DEF Init, DrawsExact
<1> QED BY <1>1, Invariance, DrawsKept, PTL DEF Spec

=============================================================================
