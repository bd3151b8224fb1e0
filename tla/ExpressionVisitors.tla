------------------------- MODULE ExpressionVisitors -------------------------
(***************************************************************************)
(* The visitors that work on the trees of a constraint before they reach a *)
(* solver: FixWidthVisitor gives the operands of every operator the same   *)
(* width, GetSupportSetVisitor and ComplexityEstimationVisitor measure a   *)
(* tree, ReplaceVisitor instantiates the body of a foreach.  What the      *)
(* visitors leave on their stacks for a tree is here the result of an      *)
(* operator.                                                               *)
(***************************************************************************)
EXTENDS Expression, BitBlast, Sequences, Bitwise

CONSTANTS
    PlaceholderBits,   \* placeholder_bitsize()
    ComplexityBits     \* width of an unsigned int, in which complexities are added

-----------------------------------------------------------------------------
(* FixWidthVisitor: the tree and its width.  The narrower operand of an    *)
(* operator is extended, except in the accesses to a vector.               *)
Fixed(e, width) == [e |-> e, width |-> width]
Extended(x, width) == IF x.width < width THEN ExtendExpr(x.e, width - x.width) ELSE x.e
Wider(l, r) == IF l.width < r.width THEN r.width ELSE l.width

FixTerminal(e) == Fixed(e, IF e.op = "placeholder" THEN PlaceholderBits ELSE e.bits)
FixUnary(e, x) ==
    CASE e.op = "inside" -> Fixed(InsideExpr(x.e, e.set), 1)
      [] e.op = "extend" -> Fixed(ExtendExpr(x.e, e.value), x.width)
      [] e.op = "slice"  -> Fixed(Bitslice(x.e, e.hi, e.lo), e.hi - e.lo + 1)
      [] OTHER -> Fixed(Unary(e.op, x.e), x.width)
FixBinary(e, l, r) ==
    IF e.op \in VectorOp
    THEN Fixed(Binary(e.op, l.e, r.e), IF e.op = "access" THEN l.width ELSE 1)
    ELSE Fixed(Binary(e.op, Extended(l, Wider(l, r)), Extended(r, Wider(l, r))),
               IF e.op \in RelationOp \union LogicalOp THEN 1 ELSE Wider(l, r))

(* visitIfThenElse: the width is that of the condition.                    *)
FixTernary(c, t, e) == Fixed(IfThenElse(c.e, t.e, e.e), c.width)

RECURSIVE FixWidth(_)
FixWidth(e) ==
    CASE e.op \in Terminal -> FixTerminal(e)
      [] e.op \in BinaryOp \union VectorOp -> FixBinary(e, FixWidth(e.l), FixWidth(e.r))
      [] e.op = "ite" -> FixTernary(FixWidth(e.c), FixWidth(e.t), FixWidth(e.e))
      [] OTHER -> FixUnary(e, FixWidth(e.e))

-----------------------------------------------------------------------------
(* GetSupportSetVisitor                                                    *)
RECURSIVE SupportSet(_)
SupportSet(e) ==
    CASE e.op \in {"var", "vector"} -> {e.id}
      [] e.op \in {"const", "placeholder"} -> {}
      [] e.op \in BinaryOp \union VectorOp -> SupportSet(e.l) \union SupportSet(e.r)
      [] e.op = "ite" -> SupportSet(e.c) \union SupportSet(e.t) \union SupportSet(e.e)
      [] OTHER -> SupportSet(e.e)

-----------------------------------------------------------------------------
(* ComplexityEstimationVisitor, defined for scalar constraints: the other  *)
(* ones make it throw.  Sums and products of complexities wrap.            *)
AsUnsigned(n) == n % 2^ComplexityBits
(* Mutant: a factor without variables makes the product free of them.      *)
FactorsPlain(l, r) == AsUnsigned(l * r)
Factors(l, r) == IF l > 0 /\ r > 0 THEN AsUnsigned(l * r) ELSE l + r

RECURSIVE Complexity(_)
Complexity(e) ==
    CASE e.op = "const" -> 0
      [] e.op \in {"var", "vector"} -> e.bits
      [] e.op = "slice" -> e.hi - e.lo + 1
      [] e.op \in {"times", "div", "mod"} -> Factors(Complexity(e.l), Complexity(e.r))
      [] e.op \in BinaryOp -> AsUnsigned(Complexity(e.l) + Complexity(e.r))
      [] e.op = "ite" -> AsUnsigned(Complexity(e.c) + Complexity(e.t) + Complexity(e.e))
      [] OTHER -> Complexity(e.e)

-----------------------------------------------------------------------------
(* ReplaceVisitor: the tree for the element with index idx, whether all    *)
(* accesses in it are to elements of the vector (okay_), and the number    *)
(* that the visitor computes along for each subtree, for the case that it  *)
(* is the index of an access.  This number is 0 for a variable, so that it *)
(* may divide by 0 although the constraint does not: the result is not     *)
(* safe, the program ends.  Numbers are ints; no body overflows.           *)
Number(b) == IF b THEN 1 ELSE 0
Truncated(a, b) ==
    LET q == (IF a < 0 THEN -a ELSE a) \div (IF b < 0 THEN -b ELSE b)
    IN  IF (a < 0) = (b < 0) THEN q ELSE -q

Subscript2(op, a, b) ==
    CASE op = "plus"  -> a + b
      [] op = "minus" -> a - b
      [] op = "times" -> a * b
      [] op = "div"   -> IF b = 0 THEN 0 ELSE Truncated(a, b)
      [] op = "mod"   -> IF b = 0 THEN 0 ELSE a - b * Truncated(a, b)
      [] op = "and"   -> a & b
      [] op = "or"    -> a | b
      [] op = "xor"   -> a ^^ b
      [] op = "shl"   -> a * 2^b
      [] op = "shr"   -> a \div 2^b
      [] op = "land"  -> Number(a # 0 /\ b # 0)
      [] op = "lor"   -> Number(a # 0 \/ b # 0)
      [] op = "eq"    -> Number(a = b)
      [] op = "ne"    -> Number(a # b)
      [] op = "lt"    -> Number(a < b)
      [] op = "le"    -> Number(a <= b)
      [] op = "gt"    -> Number(a > b)
      [] op = "ge"    -> Number(a >= b)

(* A bitslice is taken for its negation; inside and extend change nothing. *)
Subscript1(op, a) ==
    CASE op \in {"not", "slice"} -> Number(a = 0)
      [] op = "neg" -> -a
      [] op = "compl" -> -a - 1
      [] OTHER -> a

Replaced(e, okay, sub, safe) == [e |-> e, okay |-> okay, sub |-> sub, safe |-> safe]
ReplaceTerminal(e, idx) ==
    CASE e.op = "placeholder" -> Replaced(Constant(idx, PlaceholderBits, FALSE), TRUE, idx, TRUE)
      [] e.op = "const" -> Replaced(e, TRUE, e.val, TRUE)
      [] OTHER -> Replaced(e, TRUE, 0, TRUE)

(* The element gets the type of the vector.  An access beyond the vector   *)
(* is replaced by one to the first element, and the tree is not used.      *)
Element(ids, v, i) ==
    VariableExpr(ids[IF i.sub \in 0..(Len(ids) - 1) THEN i.sub + 1 ELSE 1], v.e.bits, v.e.sign)
(* Mutant: an access before the first element is taken for one to it.      *)
ReplaceAccessClamped(ids, v, i) ==
    Replaced(Element(ids, v, i), i.okay /\ i.sub < Len(ids), 0, i.safe)
ReplaceAccess(ids, v, i) ==
    Replaced(Element(ids, v, i), i.okay /\ i.sub \in 0..(Len(ids) - 1), 0, i.safe)

ReplaceBinary(ids, e, l, r) ==
    IF e.op = "access" THEN ReplaceAccess(ids, l, r)
    ELSE Replaced(Binary(e.op, l.e, r.e), l.okay /\ r.okay, Subscript2(e.op, l.sub, r.sub),
                  l.safe /\ r.safe /\ (e.op \in {"div", "mod"} => r.sub # 0))
ReplaceTernary(c, t, e) ==
    Replaced(IfThenElse(c.e, t.e, e.e), c.okay /\ t.okay /\ e.okay,
             IF c.sub # 0 THEN t.sub ELSE e.sub, c.safe /\ t.safe /\ e.safe)
ReplaceUnary(e, x) == Replaced([e EXCEPT !.e = x.e], x.okay, Subscript1(e.op, x.sub), x.safe)

RECURSIVE Replace(_, _, _)
Replace(ids, idx, e) ==
    CASE e.op \in Terminal -> ReplaceTerminal(e, idx)
      [] e.op = "foreach" -> Replace(ids, idx, e.r)
      [] e.op \in BinaryOp \union VectorOp ->
            ReplaceBinary(ids, e, Replace(ids, idx, e.l), Replace(ids, idx, e.r))
      [] e.op = "ite" ->
            ReplaceTernary(Replace(ids, idx, e.c), Replace(ids, idx, e.t), Replace(ids, idx, e.e))
      [] OTHER -> ReplaceUnary(e, Replace(ids, idx, e.e))

-----------------------------------------------------------------------------
(***************************************************************************)
(* metaSMTVisitorImpl over a solver that is made with BitBlast: the        *)
(* translation of an expression tree to bit-vectors.                       *)
(*                                                                         *)
(* The entry of a tree on exprStack_ is a formula, Boolean or a            *)
(* bit-vector, with the sign of the expression; as in BitBlast a formula   *)
(* is its value under an assignment env of bits to the terminals.  ok      *)
(* becomes FALSE where BitBlast asserts that widths are equal or gets a    *)
(* Boolean where it needs a bit-vector: the program ends there.            *)
(***************************************************************************)
Formula(bits, isBv, sign, ok) == [bits |-> bits, isBv |-> isBv, sign |-> sign, ok |-> ok]
BvEntry(bits, sign, ok) == Formula(bits, TRUE, sign, ok)
Bool(b, sign, ok) == Formula(<<b>>, FALSE, sign, ok)

AreBv(x, y) == x.ok /\ y.ok /\ x.isBv /\ y.isBv /\ Len(x.bits) = Len(y.bits)
AreBool(x, y) == x.ok /\ y.ok /\ ~x.isBv /\ ~y.isBv
Compatible(x, y) == AreBv(x, y) \/ AreBool(x, y)
IsBool(e) == e.bits = 1 /\ e.sign


-----------------------------------------------------------------------------
VisitVariable(env, e) == Formula(env[e.id], ~IsBool(e), e.sign, TRUE)
VisitConstant(e) ==
    IF IsBool(e) THEN Bool(e.val # 0, e.sign, TRUE)
    ELSE BvEntry(IF e.sign THEN BvSint(e.val, e.bits) ELSE BvUint(e.val, e.bits), e.sign, TRUE)

(* visitInside: a disjunction of equalities with constants, which Context  *)
(* gives the type of the variable.                                         *)
Member(x, n) == VisitConstant(Constant(n, Len(x.bits), x.sign))
VisitInside(x, set) ==
    Bool(\E n \in set : x.bits = Member(x, n).bits, FALSE,
         x.ok /\ \A n \in set : Compatible(x, Member(x, n)))

VisitExtend(x, n) ==
    BvEntry(IF x.sign THEN SignExtend(n, x.bits) ELSE ZeroExtend(n, x.bits), x.sign, x.ok /\ x.isBv)

VisitUnary(e, x) ==
    CASE e.op = "not"    -> Bool(~x.bits[1], x.sign, x.ok /\ ~x.isBv)
      [] e.op = "neg"    -> BvEntry(BvNeg(x.bits), x.sign, x.ok /\ x.isBv)
      [] e.op = "compl"  -> BvEntry(BvNot(x.bits), x.sign, x.ok /\ x.isBv)
      [] e.op = "inside" -> VisitInside(x, e.set)
      [] e.op = "extend" -> VisitExtend(x, e.value)
      [] e.op = "slice"  -> BvEntry(Extract(e.hi, e.lo, x.bits), FALSE, x.ok /\ x.isBv)

-----------------------------------------------------------------------------
(* Operands of which only one is signed get a bit more and are then both   *)
(* signed.                                                                 *)
Mixed(x, y) == x.sign # y.sign
Widened(x) == IF x.sign THEN SignExtend(1, x.bits) ELSE ZeroExtend(1, x.bits)

UnsignedRelation(op, a, b) ==
    CASE op = "lt" -> BvUlt(a, b)
      [] op = "le" -> BvUle(a, b)
      [] op = "gt" -> BvUgt(a, b)
      [] op = "ge" -> BvUge(a, b)
SignedRelation(op, a, b) ==
    CASE op = "lt" -> BvSlt(a, b)
      [] op = "le" -> BvSle(a, b)
      [] op = "gt" -> BvSgt(a, b)
      [] op = "ge" -> BvSge(a, b)
(* Mutant: operands of different sign are compared as they are.            *)
OrderingPlain(op, x, y) ==
    IF x.sign \/ y.sign THEN SignedRelation(op, x.bits, y.bits)
    ELSE UnsignedRelation(op, x.bits, y.bits)
Ordering(op, x, y) ==
    IF Mixed(x, y) THEN SignedRelation(op, Widened(x), Widened(y))
    ELSE IF x.sign THEN SignedRelation(op, x.bits, y.bits)
    ELSE UnsignedRelation(op, x.bits, y.bits)

(* visitDevideOpr widens in the same way, visitModuloOpr does not.         *)
Divide(x, y) ==
    IF Mixed(x, y) THEN BvSdiv(Widened(x), Widened(y))
    ELSE IF x.sign THEN BvSdiv(x.bits, y.bits) ELSE BvUdiv(x.bits, y.bits)
Modulo(x, y) == IF x.sign THEN BvSrem(x.bits, y.bits) ELSE BvUrem(x.bits, y.bits)

NumberResult(op, x, y) ==
    CASE op = "and"   -> BvAnd(x.bits, y.bits)
      [] op = "or"    -> BvOr(x.bits, y.bits)
      [] op = "xor"   -> BvXor(x.bits, y.bits)
      [] op = "plus"  -> BvAdd(x.bits, y.bits)
      [] op = "minus" -> BvSub(x.bits, y.bits)
      [] op = "times" -> BvMul(x.bits, y.bits)
      [] op = "div"   -> Divide(x, y)
      [] op = "mod"   -> Modulo(x, y)
      [] op = "shl"   -> BvShl(x.bits, y.bits)
      [] op = "shr"   -> BvShr(x.bits, y.bits)

WellSorted(op, x, y) ==
    CASE op \in LogicalOp -> AreBool(x, y)
      [] op \in {"eq", "ne"} -> Compatible(x, y)
      [] OTHER -> AreBv(x, y)

VisitSorted(op, x, y) ==
    CASE op = "land" -> Bool(x.bits[1] /\ y.bits[1], x.sign \/ y.sign, TRUE)
      [] op = "lor"  -> Bool(x.bits[1] \/ y.bits[1], x.sign \/ y.sign, TRUE)
      [] op = "eq"   -> Bool(BvEqual(x.bits, y.bits), FALSE, TRUE)
      [] op = "ne"   -> Bool(BvNequal(x.bits, y.bits), FALSE, TRUE)
      [] op \in RelationOp -> Bool(Ordering(op, x, y), FALSE, TRUE)
      [] OTHER -> BvEntry(NumberResult(op, x, y),
                          x.sign \/ (op \notin ShiftOp /\ y.sign), TRUE)
Failed == Bool(FALSE, FALSE, FALSE)
VisitBinary(op, x, y) == IF WellSorted(op, x, y) THEN VisitSorted(op, x, y) ELSE Failed

VisitIfThenElse(c, t, e) ==
    IF c.ok /\ ~c.isBv /\ Compatible(t, e)
    THEN Formula(Ite(c.bits[1], t.bits, e.bits), t.isBv, FALSE, TRUE)
    ELSE Failed

RECURSIVE Translate(_, _)
Translate(env, e) ==
    CASE e.op = "var" -> VisitVariable(env, e)
      [] e.op = "const" -> VisitConstant(e)
      [] e.op \in BinaryOp -> VisitBinary(e.op, Translate(env, e.l), Translate(env, e.r))
      [] e.op = "ite" -> VisitIfThenElse(Translate(env, e.c), Translate(env, e.t), Translate(env, e.e))
      [] OTHER -> VisitUnary(e, Translate(env, e.e))

(* makeAssertion: the formula has to be true.                              *)
Asserted(x) == x.ok /\ ~x.isBv /\ x.bits[1]
=============================================================================
