------------------------ MODULE ConstraintSemantics ------------------------
(***************************************************************************)
(* What a constraint means on its way to the solver, and what it means to  *)
(* its author.  A case is a constraint with values for its variables, or a *)
(* pair of bit-vectors; the steps of this module choose one.  The code is  *)
(* in the modules it extends; here are the cases and the mathematics that  *)
(* the code is compared with.                                              *)
(***************************************************************************)
EXTENDS ExpressionVisitors, SmtBackends

CONSTANTS
    Types,         \* [bits, sign] of the variables of a constraint
    MaxWidth,      \* width of the bit-vectors given to BitBlast
    MaxIndex,      \* the greatest index of a vector
    MaxPredicates, \* of a cardinality constraint
    ElementType    \* [bits, sign] of the elements of a vector

ASSUME SemanticsAssumption ==
    /\ MaxWidth \in Nat \ {0} /\ MaxIndex \in Nat
    /\ MaxPredicates \in Nat \ {0}
    /\ ComplexityBits \in Nat \ {0}
    /\ \A t \in Types : t.bits \in 1..(2^ComplexityBits - 1) /\ t.sign \in BOOLEAN

VARIABLE case

None == [kind |-> "none"]
Init == case = None

-----------------------------------------------------------------------------
(* The cases.                                                              *)
Values(t) == IF t.sign THEN (-2^(t.bits - 1))..(2^(t.bits - 1) - 1) ELSE 0..(2^t.bits - 1)
Operand == UNION {{[t |-> t, v |-> v] : v \in Values(t)} : t \in Types}
Var(id, x) == VariableExpr(id, x.t.bits, x.t.sign)
BoolVar(id) == VariableExpr(id, 1, TRUE)

NumberOp == BitOp \union ArithmeticOp \union ShiftOp
Scalar(e, operands) == [kind |-> "scalar", e |-> e, operands |-> operands]
Choose(c) == case' = c

(* op(x, y) rel z                                                          *)
ChooseRelation ==
    /\ case = None
    /\ \E x, y, z \in Operand, op \in NumberOp, rel \in RelationOp :
           Choose(Scalar(Binary(rel, Binary(op, Var(1, x), Var(2, y)), Var(3, z)),
                         <<x, y, z>>))

(* x rel op(y), with the unary operators and with constants.               *)
ChooseUnary ==
    /\ case = None
    /\ \E x, y \in Operand, rel \in RelationOp :
           \/ \E op \in UnaryOp \ {"not"} :
                 Choose(Scalar(Binary(rel, Var(1, x), Unary(op, Var(2, y))), <<x, y>>))
           \/ \E lo, hi \in 0..(y.t.bits - 1) :
                 /\ lo <= hi
                 /\ Choose(Scalar(Binary(rel, Var(1, x), Bitslice(Var(2, y), hi, lo)), <<x, y>>))
           \/ \E n \in -2..5 :
                 \E op \in {"plus", "times"} :
                     Choose(Scalar(Binary(rel, Binary(op, Var(1, x), NewValue(n, 4, TRUE)), Var(2, y)),
                                   <<x, y>>))

(* Logical operators on relations and on variables of type bool.           *)
Condition(x, y) ==
    {Binary(rel, Var(1, x), Var(2, y)) : rel \in {"eq", "lt", "ge"}} \union {BoolVar(3)}
ChooseLogical ==
    /\ case = None
    /\ \E x, y \in Operand, b \in BOOLEAN :
           LET val == <<x, y, [t |-> [bits |-> 1, sign |-> TRUE], v |-> Number(b)]>>
           IN  \E p, q \in Condition(x, y) :
               \/ \E op \in LogicalOp \union {"eq", "ne"} : Choose(Scalar(Binary(op, p, Unary("not", q)), val))
               \/ \E r \in {BoolVar(3), Constant(0, 1, TRUE)} :
                     \/ Choose(Scalar(IfThenElse(p, q, r), val))
                     \/ Choose(Scalar(Binary("lor", IfThen(p, q), r), val))
               \/ \E n \in Values(x.t) :
                     \/ Choose(Scalar(InsideSet(Var(1, x), Var(4, x), {n, 0}), Append(val, x)))
                     \/ Choose(Scalar(Binary("land", Binary("eq", Var(1, x), Var(4, x)),
                                            InRange(Var(4, x), x.t.bits, x.t.sign, <<0, n>>)),
                                     Append(val, x)))

(* The body of a foreach over a vector of type ElementType.                *)
Vec == VectorExpr(1, ElementType.bits, ElementType.sign)
At(k) ==
    VectorAccess(Vec, IF k = 0 THEN Placeholder(9)
                      ELSE Binary(IF k > 0 THEN "plus" ELSE "minus", Placeholder(9),
                                  NewValue(IF k > 0 THEN k ELSE -k, 4, TRUE)))
Bodies ==
    {Binary("lor", Binary(g, Placeholder(9), NewValue(n, 4, TRUE)),
            Binary(rel, Binary(op, At(k), At(l)), NewValue(m, 4, TRUE))) :
        g \in {"eq", "ge"}, n \in {0, 1}, rel \in {"eq", "le"}, op \in {"plus", "times"},
        k, l \in {-1, 0, 1}, m \in {0, 3}}
    \union {Binary("eq", Binary("mod", At(k), NewValue(2, 4, TRUE)), NewValue(1, 4, TRUE)) : k \in {-2, 0, 2}}
ChooseForeach ==
    /\ case = None
    /\ \E body \in Bodies, n \in 1..(MaxIndex + 1) : \E idx \in 0..(n - 1) :
           \E vec \in [1..n -> {-1, 0, 1, 2} \intersect Values(ElementType)] :
               Choose([kind |-> "foreach", e |-> ForEach(Vec, body), vec |-> vec, idx |-> idx])

ChooseBits ==
    /\ case = None
    /\ \E n \in 1..MaxWidth : \E a, b \in BitVector(n) :
           Choose([kind |-> "bits", a |-> a, b |-> b])

(* How many of the predicates ps hold, compared with a number.             *)
ChooseCardinality ==
    /\ case = None
    /\ \E n \in 1..MaxPredicates : \E ps \in [1..n -> BOOLEAN], c \in 0..(n + 1) :
           Choose([kind |-> "cardinality", ps |-> ps, c |-> c])

Next ==
    \/ ChooseRelation
    \/ ChooseUnary
    \/ ChooseLogical
    \/ ChooseForeach
    \/ ChooseBits
    \/ ChooseCardinality

Spec == Init /\ [][Next]_case

-----------------------------------------------------------------------------
(* The mathematics: the value of an expression over the integers, the type *)
(* it has by the rule that the greatest width wins and a sign is kept, and *)
(* whether it is plain: no value leaves its type, no divisor is 0, no      *)
(* number is negative where only its bits would count.  index and vec are  *)
(* for the body of a foreach.                                              *)
Ref(v, w, sign, plain) == [v |-> v, w |-> w, sign |-> sign, plain |-> plain]
Fits(v, w, sign) == v \in Values([bits |-> w, sign |-> sign])
Truth1(b, plain) == Ref(Number(b), 1, FALSE, plain)

Widest(x, y) == IF x.w < y.w THEN y.w ELSE x.w
(* One width and one sign hold both numbers.                               *)
Comparable(x, y) == \E s \in BOOLEAN : Fits(x.v, Widest(x, y), s) /\ Fits(y.v, Widest(x, y), s)

RefOf(op, a, b) ==
    CASE op = "plus"  -> a + b
      [] op = "minus" -> a - b
      [] op = "times" -> a * b
      [] op = "div"   -> Truncated(a, b)
      [] op = "mod"   -> a - b * Truncated(a, b)
      [] op = "and"   -> a & b
      [] op = "or"    -> a | b
      [] op = "xor"   -> a ^^ b
      [] op = "shl"   -> a * 2^b
      [] op = "shr"   -> a \div 2^b

(* A quotient of numbers of which one is signed, and a remainder by a      *)
(* negative number, are no plain expressions: see the README.              *)
Admitted(op, x, y) ==
    CASE op \in {"plus", "minus", "times"} -> TRUE
      [] op = "div" -> y.v # 0 /\ x.sign = y.sign
      [] op = "mod" -> y.v > 0 /\ x.sign = y.sign
      [] OTHER -> x.v >= 0 /\ y.v >= 0

RefNumber(op, x, y) ==
    LET plain == x.plain /\ y.plain /\ Admitted(op, x, y)
        sign == x.sign \/ (op \notin ShiftOp /\ y.sign)
        v == IF plain THEN RefOf(op, x.v, y.v) ELSE 0
    IN  Ref(v, Widest(x, y), sign, plain /\ Fits(v, Widest(x, y), sign))

RefTruth(op, x, y) ==
    CASE op = "land" -> Truth1(x.v = 1 /\ y.v = 1, x.plain /\ y.plain)
      [] op = "lor"  -> Truth1(x.v = 1 \/ y.v = 1, x.plain /\ y.plain)
      [] op = "eq"   -> Truth1(x.v = y.v, x.plain /\ y.plain /\ Comparable(x, y))
      [] op = "ne"   -> Truth1(x.v # y.v, x.plain /\ y.plain /\ Comparable(x, y))
      [] op = "lt"   -> Truth1(x.v < y.v, x.plain /\ y.plain)
      [] op = "le"   -> Truth1(x.v <= y.v, x.plain /\ y.plain)
      [] op = "gt"   -> Truth1(x.v > y.v, x.plain /\ y.plain)
      [] op = "ge"   -> Truth1(x.v >= y.v, x.plain /\ y.plain)

RefUnary(e, x) ==
    CASE e.op = "not"    -> Truth1(x.v = 0, x.plain)
      [] e.op = "neg"    -> Ref(-x.v, x.w, x.sign, x.plain /\ Fits(-x.v, x.w, x.sign))
      [] e.op = "compl"  -> Ref(IF x.sign THEN -x.v - 1 ELSE 2^x.w - 1 - x.v, x.w, x.sign, x.plain)
      [] e.op = "slice"  -> Ref((x.v \div 2^e.lo) % 2^(e.hi - e.lo + 1), e.hi - e.lo + 1, FALSE, x.plain)
      [] e.op = "inside" -> Truth1(x.v \in e.set, x.plain)

(* Neighbour x of an element that is none makes the body no constraint.    *)
RefElement(vec, i) ==
    IF i.v \in 0..(Len(vec) - 1)
    THEN Ref(vec[i.v + 1], ElementType.bits, ElementType.sign, TRUE)
    ELSE Ref(0, ElementType.bits, ElementType.sign, FALSE)

RECURSIVE Exact(_, _, _)
Exact(val, idx, e) ==
    CASE e.op = "var" -> Ref(val[e.id], e.bits, e.sign, TRUE)
      [] e.op = "const" -> Ref(e.val, e.bits, e.sign, TRUE)
      [] e.op = "placeholder" -> Ref(idx, PlaceholderBits, FALSE, TRUE)
      [] e.op = "access" -> RefElement(val, Exact(val, idx, e.r))
      [] e.op = "foreach" -> Exact(val, idx, e.r)
      [] e.op \in NumberOp -> RefNumber(e.op, Exact(val, idx, e.l), Exact(val, idx, e.r))
      [] e.op \in BinaryOp -> RefTruth(e.op, Exact(val, idx, e.l), Exact(val, idx, e.r))
      [] e.op = "ite" -> LET c == Exact(val, idx, e.c)
                             t == Exact(val, idx, e.t)
                             f == Exact(val, idx, e.e)
                         IN  Truth1((IF c.v = 1 THEN t.v ELSE f.v) = 1, c.plain /\ t.plain /\ f.plain)
      [] OTHER -> RefUnary(e, Exact(val, idx, e.e))

-----------------------------------------------------------------------------
(* The bits that stand for a number, and what becomes of a constraint.     *)
AsBits(v, w) == BvUint(v, w)
Env(operands) == [i \in DOMAIN operands |-> AsBits(operands[i].v, operands[i].t.bits)]
Val(operands) == [i \in DOMAIN operands |-> operands[i].v]
Translated(c) == Translate(Env(c.operands), FixWidth(c.e).e)
Instance(c) == Replace([i \in DOMAIN c.vec |-> i], c.idx, FixWidth(c.e).e)

RECURSIVE MixedDivision(_)
MixedDivision(e) ==
    CASE e.op \in Terminal -> FALSE
      [] e.op \in BinaryOp ->
            \/ MixedDivision(e.l) \/ MixedDivision(e.r)
            \/ e.op = "div" /\ e.l.sign # e.r.sign
      [] OTHER -> FALSE

RECURSIVE Indices(_, _, _)
Indices(vec, idx, e) ==
    CASE e.op \in Terminal -> {}
      [] e.op = "access" -> {Exact(vec, idx, e.r).v}
      [] e.op \in BinaryOp \union VectorOp -> Indices(vec, idx, e.l) \union Indices(vec, idx, e.r)
      [] OTHER -> Indices(vec, idx, e.e)

-----------------------------------------------------------------------------
(* The parts of TheoryExact: BitBlast against the integers.                *)
UnsignedExact(a, b, x, y, m) ==
    /\ ToNat(BvAdd(a, b)) = (x + y) % m
    /\ ToNat(BvSub(a, b)) = (x - y) % m
    /\ ToNat(BvMul(a, b)) = (x * y) % m
    /\ ToNat(BvNeg(a)) = (-x) % m
    /\ y # 0 => ToNat(BvUdiv(a, b)) = x \div y /\ ToNat(BvUrem(a, b)) = x % y
    /\ ToNat(BvShl(a, b)) = (x * 2^y) % m
    /\ ToNat(BvShr(a, b)) = x \div 2^y
    /\ BvUlt(a, b) = (x < y) /\ BvUle(a, b) = (x <= y)
    /\ BvUgt(a, b) = (x > y) /\ BvUge(a, b) = (x >= y)
    /\ BvEqual(a, b) = (x = y) /\ BvNequal(a, b) = (x # y) /\ BvComp(a, b) = (IF x = y THEN Bit1 ELSE Bit0)
    /\ ToNat(Concat(a, b)) = m * x + y
    /\ ToNat(ZeroExtend(2, a)) = x
    /\ \A lo, hi \in 0..(Len(a) - 1) :
          lo <= hi => ToNat(Extract(hi, lo, a)) = (x \div 2^lo) % 2^(hi - lo + 1)
BitwiseExact(a, b, x, y, m) ==
    /\ ToNat(BvAnd(a, b)) = x & y /\ ToNat(BvNand(a, b)) = m - 1 - (x & y)
    /\ ToNat(BvOr(a, b)) = x | y /\ ToNat(BvNor(a, b)) = m - 1 - (x | y)
    /\ ToNat(BvXor(a, b)) = x ^^ y /\ ToNat(BvXnor(a, b)) = m - 1 - (x ^^ y)
    /\ BvBin(Reverse([i \in DOMAIN a |-> Number(a[i])])) = a
    /\ BvHex(<<x, y>>) = BvUint(16 * x + y, 8)
SignedExact(a, b, x, y, m) ==
    /\ BvSlt(a, b) = (x < y) /\ BvSle(a, b) = (x <= y)
    /\ BvSgt(a, b) = (x > y) /\ BvSge(a, b) = (x >= y)
    /\ ToInt(SignExtend(2, a)) = x
    /\ ToNat(BvAshr(a, b)) = (x \div 2^(y % m)) % m
    /\ y # 0 => ToNat(BvSdiv(a, b)) = Truncated(x, y) % m
    /\ y > 0 => ToNat(BvSrem(a, b)) = (x - y * Truncated(x, y)) % m
BitBlastExact ==
    case.kind = "bits" =>
        /\ UnsignedExact(case.a, case.b, ToNat(case.a), ToNat(case.b), 2^Len(case.a))
        /\ BitwiseExact(case.a, case.b, ToNat(case.a), ToNat(case.b), 2^Len(case.a))
        /\ SignedExact(case.a, case.b, ToInt(case.a), ToInt(case.b), 2^Len(case.a))

(* The five bit-vector back ends against BitBlast.                         *)
Circuit(tag, a, b) ==
    CASE tag = "bvand" -> BvAnd(a, b)   [] tag = "bvnand" -> BvNand(a, b)
      [] tag = "bvor"  -> BvOr(a, b)    [] tag = "bvnor"  -> BvNor(a, b)
      [] tag = "bvxor" -> BvXor(a, b)   [] tag = "bvxnor" -> BvXnor(a, b)
      [] tag = "bvadd" -> BvAdd(a, b)   [] tag = "bvsub"  -> BvSub(a, b)
      [] tag = "bvmul" -> BvMul(a, b)   [] tag = "concat" -> Concat(a, b)
      [] tag = "bvudiv" -> BvUdiv(a, b) [] tag = "bvurem" -> BvUrem(a, b)
      [] tag = "bvsdiv" -> BvSdiv(a, b) [] tag = "bvsrem" -> BvSrem(a, b)
      [] tag = "bvshl" -> BvShl(a, b)   [] tag = "bvshr"  -> BvShr(a, b)
      [] tag = "bvashr" -> BvAshr(a, b) [] tag = "bvcomp" -> BvComp(a, b)
CircuitRelation(tag, a, b) ==
    CASE tag = "bvult" -> BvUlt(a, b)  [] tag = "bvule" -> BvUle(a, b)
      [] tag = "bvugt" -> BvUgt(a, b)  [] tag = "bvuge" -> BvUge(a, b)
      [] tag = "bvslt" -> BvSlt(a, b)  [] tag = "bvsle" -> BvSle(a, b)
      [] tag = "bvsgt" -> BvSgt(a, b)  [] tag = "bvsge" -> BvSge(a, b)
      [] tag = "equal" -> BvEqual(a, b) [] OTHER -> BvNequal(a, b)
Meaning(tag, p, q) ==
    CASE tag = "and" -> p /\ q   [] tag = "nand" -> ~(p /\ q)
      [] tag = "or"  -> p \/ q   [] tag = "nor"  -> ~(p \/ q)
      [] tag \in {"xor", "nequal"} -> p # q
      [] tag \in {"xnor", "equal"} -> p = q
      [] tag = "implies" -> (p => q)
Covered(tag, b) ==
    /\ tag \in {"bvudiv", "bvurem", "bvsdiv", "bvsrem"} => ToNat(b) # 0
    /\ tag = "bvsrem" => ~Msb(b)
BackendsAgree ==
    case.kind = "bits" =>
        \A kind \in SmtKind :
            /\ \A tag \in WordTag :
                  Covered(tag, case.b) => WordOp(kind, tag, case.a, case.b) = Circuit(tag, case.a, case.b)
            /\ \A tag \in CompareTag \union EqualityTag :
                  RelationTerm(kind, tag, case.a, case.b) = CircuitRelation(tag, case.a, case.b)
            /\ \A tag \in PredicateTag \union {"equal", "nequal"} :
                  PredicateOp(kind, tag, Msb(case.a), Msb(case.b)) = Meaning(tag, Msb(case.a), Msb(case.b))
            /\ \A tag \in UnaryTag :
                  UnaryTerm(tag, case.a) = (IF tag = "bvnot" THEN BvNot(case.a) ELSE BvNeg(case.a))
            /\ \A i, j \in DOMAIN case.a :
                  i <= j => ExtractOp(j - 1, i - 1, case.a) = Extract(j - 1, i - 1, case.a)
            /\ ZeroExtendOp(kind, 2, case.a) = ZeroExtend(2, case.a)
            /\ SignExtendOp(kind, 2, case.a) = SignExtend(2, case.a)
            /\ ConstantOp(kind, ToNat(case.a), Len(case.a)) = case.a
            /\ ConstantOp(kind, ToInt(case.a), Len(case.a)) = case.a
            /\ \A x \in {BvUint(d, 4) : d \in 0..15} :
                  HexOp(kind, <<ToNat(x), ToNat(case.a) % 16>>) = Concat(x, BvUint(ToNat(case.a), 4))

(* Both encodings of a cardinality constraint, with their simplifications. *)
CardinalityExact ==
    case.kind = "cardinality" =>
        LET count == Len(SelectSeq(case.ps, LAMBDA p : p))
        IN  /\ \A tag \in CardinalityTag, encoding \in Encoding :
                  EvalCardinality(tag, case.ps, case.c, encoding) = Compared(tag, count, case.c)
            /\ OneHot(case.ps) = (count = 1)

(* The circuits of BitBlast compute the arithmetic of SMT-LIB on numbers   *)
(* of any width, signed and unsigned, and the five bit-vector back ends    *)
(* agree with them on every operation, so that the choice of a solver does *)
(* not change what a constraint means; cardinality constraints count the   *)
(* predicates that hold.  Left out are the cases in which BitBlast         *)
(* differs: a division by 0, and a remainder by a negative number.         *)
TheoryExact == BitBlastExact /\ BackendsAgree /\ CardinalityExact

(* A value comes back from a solver as it went in: constant, model value,  *)
(* string of digits and integer of the user denote one number, also where  *)
(* the vector is wider than the native integer, and a bit that the solver  *)
(* left open does not touch the others.                                    *)
OpenBit(a, k) == FromTribools([i \in DOMAIN a |-> IF i = k THEN "X" ELSE IF a[i] THEN "1" ELSE "0"])
ValuesReadBack ==
    case.kind = "bits" =>
        /\ \A kind \in SmtKind, random \in BOOLEAN :
              LET str == ReadValue(kind, ConstantOp(kind, ToNat(case.a), Len(case.a)))
              IN  /\ SetValue(str, FALSE, random) = ToNat(case.a)
                  /\ SetValue(str, TRUE, random) = ToInt(case.a)
                  /\ Len(case.a) = 1 => SetBool(str) = case.a[1]
                  /\ ToInteger(str, FALSE, Len(case.a)) = ToNat(case.a)
                  /\ ToInteger(str, TRUE, Len(case.a) - 1) = ToInt(case.a)
        /\ \A k \in DOMAIN case.a, random, sign \in BOOLEAN :
              LET str == OpenBit(case.a, k)
                  set == SetBit(case.a, k, random)
              IN  /\ BvUint(SetValue(str, sign, random), Len(case.a)) = set
                  /\ HasX(str) /\ ~HasX(RandX(str, random))
                  /\ AsBools(RandX(str, random)) = set
                  /\ AsTribools(str)[k] = "X"
                  /\ AsTribool(RandX(str, random)) = (IF ToNat(set) = 0 THEN "0" ELSE "1")
                  /\ AsTribool(str) \in {"X", AsTribool(RandX(str, random))}

(* The parts of ConstraintsExact: what the solver is given.                *)
AssertedIff(t, ref) == ref.plain => t.ok /\ ~t.isBv /\ Asserted(t) = (ref.v = 1)
SolverExact ==
    case.kind = "scalar" => AssertedIff(Translated(case), Exact(Val(case.operands), 0, case.e))

(* The widths, for expressions that overflow too.                          *)
WidthsAgree ==
    case.kind = "scalar" /\ ~MixedDivision(case.e) =>
        Translated(case).ok /\ Len(Translated(case).bits) = FixWidth(case.e).width

(* The evaluator, on numbers that are not negative.                        *)
RECURSIVE NonNegative(_, _)
NonNegative(val, e) ==
    /\ Exact(val, 0, e).v >= 0
    /\ CASE e.op \in Terminal -> TRUE
         [] e.op \in BinaryOp -> NonNegative(val, e.l) /\ NonNegative(val, e.r)
         [] e.op = "ite" -> NonNegative(val, e.c) /\ NonNegative(val, e.t) /\ NonNegative(val, e.e)
         [] e.op \in {"slice", "compl"} -> FALSE     \* unknown to, and wider for, the evaluator
         [] OTHER -> NonNegative(val, e.e)
Assignments(operands) ==
    [i \in DOMAIN operands |-> [val |-> Wrap(operands[i].v), sign |-> operands[i].t.sign]]
EvaluatorAgrees ==
    case.kind = "scalar" =>
        LET ref == Exact(Val(case.operands), 0, case.e)
        IN  ref.plain /\ NonNegative(Val(case.operands), case.e) =>
                Evaluate(Assignments(case.operands), case.e).true = (ref.v = 1)

(* The solver decides what the author of a constraint wrote: a constraint  *)
(* over the integers whose values stay within their types is asserted if   *)
(* and only if it is true, whatever widths and signs are mixed in it       *)
(* (metaSMTVisitor).  FixWidthVisitor keeps account of the widths of the   *)
(* bit-vectors that are made, so that no assertion of a back end fails; a  *)
(* quotient of a signed and an unsigned number is one bit wider and left   *)
(* out.  EvalVisitor agrees on numbers that are not negative: a covergroup *)
(* counts the values that a constraint of the same form generates.         *)
ConstraintsExact == SolverExact /\ WidthsAgree /\ EvaluatorAgrees

(* A foreach constrains exactly the elements of which all neighbours that  *)
(* it names exist, and each of them as if it were written out.             *)
ForeachExact ==
    case.kind = "foreach" =>
        LET r == Instance(case)
            ref == Exact(case.vec, case.idx, case.e)
        IN  /\ r.safe
            /\ r.okay = (Indices(case.vec, case.idx, case.e) \subseteq 0..(Len(case.vec) - 1))
            /\ r.okay => AssertedIff(Translate([i \in DOMAIN case.vec |->
                                                  AsBits(case.vec[i], ElementType.bits)], r.e), ref)

RECURSIVE Sliced(_)
Sliced(e) ==
    CASE e.op \in Terminal -> FALSE
      [] e.op \in BinaryOp -> Sliced(e.l) \/ Sliced(e.r)
      [] OTHER -> e.op = "slice"

(* The estimate in numbers without bounds.                                 *)
RECURSIVE Estimate(_)
Estimate(e) ==
    CASE e.op \in Terminal -> IF e.op = "const" THEN 0 ELSE e.bits
      [] e.op \in {"times", "div", "mod"} ->
           LET l == Estimate(e.l) r == Estimate(e.r) IN IF 0 \in {l, r} THEN l + r ELSE l * r
      [] e.op \in BinaryOp -> Estimate(e.l) + Estimate(e.r)
      [] e.op = "ite" -> Estimate(e.c) + Estimate(e.t) + Estimate(e.e)
      [] OTHER -> Estimate(e.e)

(* The estimate that decides whether a constraint goes to a BDD solver is  *)
(* no less than the width of any variable of the constraint, and 0 only    *)
(* for a constraint without variables, unless it is too large for the word *)
(* in which ComplexityEstimationVisitor computes it: then it may be        *)
(* anything, 0 included.                                                   *)
ComplexityBounds ==
    case.kind = "scalar" /\ ~Sliced(case.e) /\ Estimate(case.e) < 2^ComplexityBits =>
        /\ (Complexity(case.e) = 0) = (SupportSet(case.e) = {})
        /\ \A i \in SupportSet(case.e) : Complexity(case.e) >= case.operands[i].t.bits
=============================================================================
