----------------------------- MODULE BddSolver -----------------------------
(***************************************************************************)
(* metaSMT's CUDD back ends.  A BDD is the set of the assignments that     *)
(* satisfy it; the levels of the diagram are the variables of the manager  *)
(* in the order of their creation (order).  CUDD_Context picks some path   *)
(* of the diagram; CUDD_Distributed draws one by the number of solutions   *)
(* on either side, and keeps the numbers as long as the formula is the     *)
(* same.                                                                   *)
(***************************************************************************)
EXTENDS Integers, Sequences, FiniteSets

CONSTANTS
    Var,         \* the variables of the user
    WordBits     \* width of unsigned, in which solutions are counted

ASSUME BddAssumption == WordBits \in Nat \ {0} /\ IsFiniteSet(Var)

Assignment == [Var -> BOOLEAN]
Word(n) == n % 2^WordBits

Zero == {}
One == Assignment
IsConstant(f) == f \in {Zero, One}
Cofactor(f, v, b) == {a \in Assignment : [a EXCEPT ![v] = b] \in f}
DependsOn(f, v) == Cofactor(f, v, TRUE) # Cofactor(f, v, FALSE)

(* Cudd_ReadPerm of the topmost variable; the constants are below all the  *)
(* variables that the manager has, which are size.                         *)
Level(order, size, f) ==
    IF IsConstant(f) THEN size + 1
    ELSE CHOOSE k \in 1..Len(order) :
            DependsOn(f, order[k]) /\ \A j \in 1..(k - 1) : ~DependsOn(f, order[j])
Top(order, f) == order[Level(order, Len(order), f)]
Skipped(order, size, parent, child) ==
    Level(order, size, child) - Level(order, size, parent) - 1

(* count_1 of a node (count_0 is that of the complement): the solutions in *)
(* the variables from its level down.                                      *)
Count(order, size, f) ==
    LET count[g \in SUBSET Assignment] ==
            CASE g = Zero -> 0
              [] g = One -> 1
              [] OTHER -> LET Below(child) == count[child] * 2^Skipped(order, size, g, child)
                              v == Top(order, g)
                          IN  Word(Below(Cofactor(g, v, TRUE)) + Below(Cofactor(g, v, FALSE)))
    IN  count[f]

(* The numbers that a step of store_solution compares.  map_0 and map_1    *)
(* have them from the call that counted, when the manager had counted      *)
(* variables; the distance is that of today.                               *)
DrawRoot(order, counted, f) == Count(order, counted, f)
DrawThen(order, counted, f, child) ==
    Word(Count(order, counted, child) * 2^Skipped(order, Len(order), f, child))
MayThen(order, counted, f, child) == DrawThen(order, counted, f, child) > 0
(* Mutant: the number drawn is compared with <=.                           *)
MayElseStrict(order, counted, f, child) ==
    Word(DrawRoot(order, counted, f) - 1) > DrawThen(order, counted, f, child)
MayElse(order, counted, f, child) ==
    Word(DrawRoot(order, counted, f) - 1) >= DrawThen(order, counted, f, child)

(* The solutions that a walk to a constant can store: values for the       *)
(* variables on its way.                                                   *)
EmptyCube == [v \in {} |-> TRUE]
Extend(v, b, cubes) == {[w \in DOMAIN c \union {v} |-> IF w = v THEN b ELSE c[w]] : c \in cubes}
Draws(order, counted, f) ==
    LET draws[g \in SUBSET Assignment] ==
            IF IsConstant(g) THEN {EmptyCube}
            ELSE LET v == Top(order, g)
                     t == Cofactor(g, v, TRUE)
                     e == Cofactor(g, v, FALSE)
                 IN  (IF MayThen(order, counted, g, t) THEN Extend(v, TRUE, draws[t]) ELSE {})
                     \union (IF MayElse(order, counted, g, t) THEN Extend(v, FALSE, draws[e]) ELSE {})
    IN  draws[f]

(* Cudd_bddPickOneCube: a path to One.  A path has values for the          *)
(* variables at which it stops: at each one, what its earlier values have  *)
(* left of the formula depends on that variable.                           *)
At(f, cube) == {a \in Assignment : [v \in Var |-> IF v \in DOMAIN cube THEN cube[v] ELSE a[v]] \in f}
Above(order, k, cube) == [v \in DOMAIN cube \intersect {order[j] : j \in 1..(k - 1)} |-> cube[v]]
IsPath(order, f, cube) ==
    \A k \in 1..Len(order) :
        order[k] \in DOMAIN cube <=> DependsOn(At(f, Above(order, k, cube)), order[k])
Cubes(order, f) ==
    {c \in UNION {[met -> BOOLEAN] : met \in SUBSET {order[k] : k \in 1..Len(order)}} :
        IsPath(order, f, c) /\ At(f, c) = One}

-----------------------------------------------------------------------------
BddInit ==
    [assertions |-> One, assumptions |-> One, order |-> <<>>, previous |-> Zero, counted |-> 0]
BddVar(s, v) ==
    [s |-> [s EXCEPT !.order = Append(@, v)], result |-> {a \in Assignment : a[v]}]

BddNot(f) == Assignment \ f
BddXor(f, g) == (f \ g) \union (g \ f)
BddOp(s, tag, args) ==
    CASE tag = "true" -> One
      [] tag = "false" -> Zero
      [] tag = "not" -> BddNot(args[1])
      [] tag \in {"equal", "xnor"} -> BddNot(BddXor(args[1], args[2]))
      [] tag \in {"nequal", "xor", "distinct"} -> BddXor(args[1], args[2])
      [] tag = "and" -> args[1] \intersect args[2]
      [] tag = "nand" -> BddNot(args[1] \intersect args[2])
      [] tag = "implies" -> BddNot(args[1]) \union args[2]
      [] tag = "or" -> args[1] \union args[2]
      [] tag = "nor" -> BddNot(args[1] \union args[2])
      [] tag = "ite" -> (args[1] \intersect args[2]) \union (args[3] \ args[1])

BddAssert(s, f) == [s EXCEPT !.assertions = @ \intersect f]
BddAssume(s, f) == [s EXCEPT !.assumptions = @ \intersect f]

Complete(s) == s.assertions \intersect s.assumptions
(* CUDD_Distributed: the counts of another formula are thrown away.        *)
Recount(s) ==
    IF s.previous = Complete(s) THEN s
    ELSE [s EXCEPT !.previous = Complete(s), !.counted = Len(s.order)]

BddSolutions(kind, s) ==
    IF Complete(s) = Zero THEN {}
    ELSE CASE kind = "CUDD_Context" -> Cubes(s.order, Complete(s))
           [] kind = "CUDD_Distributed" -> Draws(s.order, Recount(s).counted, Complete(s))
BddSolved(kind, s) ==
    [IF kind = "CUDD_Context" THEN s ELSE Recount(s) EXCEPT !.assumptions = One]
=============================================================================
