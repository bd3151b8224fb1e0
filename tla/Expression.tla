----------------------------- MODULE Expression -----------------------------
(***************************************************************************)
(* The expression trees of ir/Node.hpp as the operators of Context build   *)
(* them.  A node is a record; a variable is its id, and the width and the  *)
(* sign of its C++ type are its own.                                       *)
(***************************************************************************)
EXTENDS Integers, Bitwise

CONSTANT Bits    \* width of uint64_t

ASSUME BitsAssumption == Bits \in Nat \ {0}

VariableExpr(id, bits, sign) == [op |-> "var", id |-> id, bits |-> bits, sign |-> sign]
Constant(val, bits, sign) == [op |-> "const", val |-> val, bits |-> bits, sign |-> sign]

UnaryOp == {"not", "neg", "compl"}
Unary(op, e) == [op |-> op, e |-> e]
ExtendExpr(e, value) == [op |-> "extend", e |-> e, value |-> value]
InsideExpr(e, set) == [op |-> "inside", e |-> e, set |-> set]
Bitslice(e, hi, lo) == [op |-> "slice", e |-> e, hi |-> hi, lo |-> lo]

BitOp == {"and", "or", "xor"}
LogicalOp == {"land", "lor"}
RelationOp == {"eq", "ne", "lt", "le", "gt", "ge"}
ArithmeticOp == {"plus", "minus", "times", "div", "mod"}
ShiftOp == {"shl", "shr"}
BinaryOp == BitOp \union LogicalOp \union RelationOp \union ArithmeticOp \union ShiftOp
Binary(op, l, r) == [op |-> op, l |-> l, r |-> r]

IfThenElse(c, t, e) == [op |-> "ite", c |-> c, t |-> t, e |-> e]
Constant1 == Constant(1, 1, TRUE)
IfThen(c, t) == IfThenElse(c, t, Constant1)

(* Vectors: the index variable of a foreach is a placeholder.              *)
Placeholder(id) == [op |-> "placeholder", id |-> id]
VectorExpr(id, bits, sign) == [op |-> "vector", id |-> id, bits |-> bits, sign |-> sign]
VectorAccess(vec, index) == Binary("access", vec, index)
ForEach(vec, body) == Binary("foreach", vec, body)
Unique(vec) == Unary("unique", vec)
Terminal == {"var", "const", "vector", "placeholder"}
VectorOp == {"access", "foreach"}

(* new_value(n): a number that is not negative gets the fewest bits that   *)
(* hold it and no sign, unless the width of its type is needed.            *)
BitsFor(n, width) ==
    IF \E j \in 1..(width - 1) : n \div 2^j = 0
    THEN CHOOSE j \in 1..(width - 1) : n \div 2^j = 0 /\ \A k \in 1..(j - 1) : n \div 2^k # 0
    ELSE width
NewValue(n, width, sign) ==
    LET bits == BitsFor(n, width)
    IN  IF n >= 0 /\ bits < width THEN Constant(n, bits, FALSE) ELSE Constant(n, width, sign)

(* inside(x, set) equates x with a new variable tmp and restricts tmp.     *)
InsideSet(x, tmp, set) == Binary("land", Binary("eq", x, tmp), InsideExpr(tmp, set))

(* dist(x, ranges) does the same with the ends of the ranges.              *)
InRange(tmp, bits, sign, r) ==
    Binary("land", Binary("le", Constant(r[1], bits, sign), tmp),
                   Binary("le", tmp, Constant(r[2], bits, sign)))

-----------------------------------------------------------------------------
(***************************************************************************)
(* Evaluator and EvalVisitor: an expression is evaluated under the values  *)
(* assigned to variables.                                                  *)
(*                                                                         *)
(* The visitor keeps a stack of intermediate results; here the entry that  *)
(* an expression leaves on it is the result of Eval, together with the     *)
(* assignments, which an equality may change.  Values are the uint64_t of  *)
(* a Constant, with Bits for 64; the visitor carries the width of a        *)
(* Constant along and never reads it, so it is left out.                   *)
(***************************************************************************)
Word == 0..(2^Bits - 1)
Wrap(n) == n % 2^Bits
AsSigned(w) == IF w >= 2^(Bits - 1) THEN w - 2^Bits ELSE w

Entry(val, sign, ok) == [val |-> val, sign |-> sign, ok |-> ok]
Truth(b, ok) == Entry(IF b THEN 1 ELSE 0, TRUE, ok)
Unknown == Entry(0, TRUE, FALSE)

-----------------------------------------------------------------------------
(* The operators.                                                          *)
TruncatedDiv(a, b) ==
    LET Abs(n) == IF n < 0 THEN -n ELSE n
        q == Abs(a) \div Abs(b)
    IN  IF (a < 0) = (b < 0) THEN q ELSE -q

Divided(op, l, r) ==
    LET signed == l.sign \/ r.sign
        a == IF signed THEN AsSigned(l.val) ELSE l.val
        b == IF signed THEN AsSigned(r.val) ELSE r.val
        q == TruncatedDiv(a, b)
    IN  Entry(Wrap(IF op = "div" THEN q ELSE a - b * q), signed, l.ok /\ r.ok)

Arithmetic(op, a, b) ==
    CASE op = "and"   -> a & b
      [] op = "or"    -> a | b
      [] op = "xor"   -> a ^^ b
      [] op = "plus"  -> Wrap(a + b)
      [] op = "minus" -> Wrap(a - b)
      [] op = "times" -> Wrap(a * b)
      [] op = "shl"   -> Wrap(a * 2^b)      \* defined for b below the width only
      [] op = "shr"   -> a \div 2^b

(* All comparisons are those of unsigned words, whatever the sign.         *)
Relation(op, a, b) ==
    CASE op = "land" -> a # 0 /\ b # 0
      [] op = "lor"  -> a # 0 \/ b # 0
      [] op = "eq"   -> a = b
      [] op = "ne"   -> a # b
      [] op = "lt"   -> a < b
      [] op = "le"   -> a <= b
      [] op = "gt"   -> a > b
      [] op = "ge"   -> a >= b

(* visitBitslice: the result is never taken to be known.                   *)
SliceResult(s, e) == Entry((e.val \div 2^s.lo) % 2^(s.hi - s.lo + 1), FALSE, FALSE)

UnaryResult(s, e) ==
    CASE s.op = "not"    -> Truth(e.val = 0, e.ok)
      [] s.op = "neg"    -> Entry(Wrap(-e.val), e.sign, e.ok)
      [] s.op = "compl"  -> Entry(2^Bits - 1 - e.val, e.sign, e.ok)
      [] s.op = "extend" -> e
      [] s.op = "inside" -> Truth(e.val \in s.set, e.ok)
      [] s.op = "slice"  -> SliceResult(s, e)

BinaryResult(s, l, r) ==
    CASE s.op \in RelationOp \union LogicalOp ->
            Truth(Relation(s.op, l.val, r.val), l.ok /\ r.ok)
      [] s.op \in {"div", "mod"} ->
            IF r.val = 0 THEN Unknown ELSE Divided(s.op, l, r)
      [] OTHER ->
            Entry(Arithmetic(s.op, l.val, r.val), l.sign \/ r.sign, l.ok /\ r.ok)

(* visitIfThenElse: whether the condition was known does not matter.       *)
Chosen(c, t, e) == IF c.val # 0 THEN t ELSE e

-----------------------------------------------------------------------------
(* The map of assignments is a function on the variables assigned.         *)
Assign(map, id, c) == [v \in DOMAIN map \union {id} |-> IF v = id THEN c ELSE map[v]]

(* visitEqualOpr: if one of two variables is known the other one gets its  *)
(* value, and keeps it after the evaluation.                               *)
Equate(map, x, y) ==
    CASE x \in DOMAIN map /\ y \notin DOMAIN map -> Assign(map, y, map[x])
      [] x \notin DOMAIN map /\ y \in DOMAIN map -> Assign(map, x, map[y])
      [] OTHER -> map

(* Both operands of an equality are looked at as variables.  Where one is  *)
(* not a variable the visitor reads bytes that are not an id; what it then *)
(* inserts in the map is taken to be no variable that an expression has.   *)
Before(map, e) ==
    IF e.op = "eq" /\ e.l.op = "var" /\ e.r.op = "var" THEN Equate(map, e.l.id, e.r.id) ELSE map

(* The entry of a node, on top of those of its operands, which are visited *)
(* from left to right.                                                     *)
RECURSIVE Eval(_, _)
Leaf(map, e) ==
    [map |-> map,
     top |-> IF e.op = "const" THEN Entry(Wrap(e.val), e.sign, TRUE)
             ELSE IF e.id \in DOMAIN map THEN Entry(map[e.id].val, map[e.id].sign, TRUE)
             ELSE Unknown]
EvalUnary(e, x) == [map |-> x.map, top |-> UnaryResult(e, x.top)]
EvalRight(e, l, r) == [map |-> r.map, top |-> BinaryResult(e, l.top, r.top)]
EvalBinary(e, l) == EvalRight(e, l, Eval(l.map, e.r))
EvalElse(c, t, x) == [map |-> x.map, top |-> Chosen(c.top, t.top, x.top)]
EvalThen(e, c, t) == EvalElse(c, t, Eval(t.map, e.e))
EvalTernary(e, c) == EvalThen(e, c, Eval(c.map, e.t))
Eval(map, e) ==
    CASE e.op \in {"var", "const"} -> Leaf(map, e)
      [] e.op \in BinaryOp -> EvalBinary(e, Eval(Before(map, e), e.l))
      [] e.op = "ite" -> EvalTernary(e, Eval(map, e.c))
      [] OTHER -> EvalUnary(e, Eval(map, e.e))

(* evaluate(expr) && result<bool>(), and the assignments afterwards.       *)
Result(st) == [true |-> st.top.ok /\ st.top.val # 0, map |-> st.map]
Evaluate(map, expr) == Result(Eval(map, expr))

=============================================================================
