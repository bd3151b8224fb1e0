---------------------------- MODULE SmtBackends ----------------------------
(***************************************************************************)
(* How metaSMT's bit-vector backends (Z3, STP, CVC4, Yices2, Boolector)    *)
(* hand an operation to their library, make its constants and read its     *)
(* values back.  A term is known by its value under an assignment: a       *)
(* Boolean, or a sequence of bits, the least significant one first.        *)
(***************************************************************************)
EXTENDS BitBlast

CONSTANT NativeBits    \* the bits of the widest native integer, 64 in the code
ASSUME NativeBitsAssumption == NativeBits \in Nat \ {0}

SmtKind == {"Z3", "STP", "CVC4", "Yices2", "Boolector"}

PredicateTag == {"and", "nand", "or", "nor", "xor", "xnor", "implies"}
EqualityTag == {"equal", "nequal", "distinct"}
WordTag == {"bvand", "bvnand", "bvor", "bvnor", "bvxor", "bvxnor", "bvadd", "bvsub", "bvmul",
            "bvudiv", "bvurem", "bvsdiv", "bvsrem", "bvshl", "bvshr", "bvashr", "concat", "bvcomp"}
CompareTag == {"bvult", "bvule", "bvugt", "bvuge", "bvslt", "bvsle", "bvsgt", "bvsge"}

-----------------------------------------------------------------------------
(* The functions of the libraries, by their names in SMT-LIB: division is  *)
(* total (STP is told so), a shift may exceed the width.                   *)
LibraryPredicate(fn, a, b) ==
    CASE fn = "and" -> a /\ b [] fn = "or" -> a \/ b [] fn = "xor" -> a # b
      [] fn = "implies" -> (a => b) [] fn = "iff" -> (a = b)
LibraryRelation(fn, a, b) ==
    CASE fn = "eq"    -> ToNat(a) = ToNat(b)  [] fn = "neq"   -> ToNat(a) # ToNat(b)
      [] fn = "bvult" -> ToNat(a) < ToNat(b)  [] fn = "bvule" -> ToNat(a) <= ToNat(b)
      [] fn = "bvugt" -> ToNat(a) > ToNat(b)  [] fn = "bvuge" -> ToNat(a) >= ToNat(b)
      [] fn = "bvslt" -> ToInt(a) < ToInt(b)  [] fn = "bvsle" -> ToInt(a) <= ToInt(b)
      [] fn = "bvsgt" -> ToInt(a) > ToInt(b)  [] fn = "bvsge" -> ToInt(a) >= ToInt(b)
Quotient(x, y) == IF (x < 0) = (y < 0) THEN x \div y ELSE -((-x) \div y)
SmtQuotient(x, y) == IF y = 0 THEN (IF x < 0 THEN 1 ELSE -1) ELSE Quotient(x, y)
SmtRemainder(x, y) == IF y = 0 THEN x ELSE x - y * Quotient(x, y)
LibraryNumber(fn, x, y, s, t, n) ==
    CASE fn = "bvadd"  -> x + y              [] fn = "bvsub"  -> x - y
      [] fn = "bvmul"  -> x * y
      [] fn = "bvudiv" -> SmtQuotient(x, y)  [] fn = "bvurem" -> SmtRemainder(x, y)
      [] fn = "bvsdiv" -> SmtQuotient(s, t)  [] fn = "bvsrem" -> SmtRemainder(s, t)
      [] fn = "bvshl"  -> x * 2^y            [] fn = "bvlshr" -> x \div 2^y
      [] fn = "bvashr" -> s \div 2^y         [] fn = "concat" -> x * 2^n + y
LibraryBits(fn, a, b) ==
    CASE fn = "bvand"  -> BvAnd(a, b)   [] fn = "bvor"   -> BvOr(a, b)
      [] fn = "bvxor"  -> BvXor(a, b)   [] fn = "bvnand" -> BvNot(BvAnd(a, b))
      [] fn = "bvnor"  -> BvNot(BvOr(a, b)) [] fn = "bvxnor" -> BvNot(BvXor(a, b))
      [] fn = "redcomp" -> <<a = b>>
      [] OTHER -> BvUint(LibraryNumber(fn, ToNat(a), ToNat(b), ToInt(a), ToInt(b), Len(b)),
                         IF fn = "concat" THEN Len(a) + Len(b) ELSE Len(a))

-----------------------------------------------------------------------------
(* The opcode maps.  Same: the library has the function under that name;   *)
(* As: under another; Negated: it is composed with a negation.  Over: the  *)
(* entries of a map in place of those of another.                          *)
Call(fn, neg) == [fn |-> fn, neg |-> neg]
Same(tags) == [t \in tags |-> Call(t, FALSE)]
Negated(fns) == [t \in DOMAIN fns |-> Call(fns[t], TRUE)]
As(fns) == [t \in DOMAIN fns |-> Call(fns[t], FALSE)]
Over(f, g) == [t \in DOMAIN f \union DOMAIN g |-> IF t \in DOMAIN f THEN f[t] ELSE g[t]]

NegatedPredicates == Negated([nand |-> "and", nor |-> "or", xnor |-> "xor"])
NegatedWords == Negated([bvnand |-> "bvand", bvnor |-> "bvor", bvxnor |-> "bvxor"])
Distinct == As([nequal |-> "neq", distinct |-> "neq"])
Shifts == As([bvshr |-> "bvlshr", bvcomp |-> "redcomp"])
Common ==
    Over(NegatedPredicates,
         Over(As([equal |-> "eq"]),
              Over(Shifts, Same(PredicateTag \union CompareTag \union WordTag))))

Z3Opcodes == Over(Distinct, Common)                     \* bvcomp is an ite over eq
STPOpcodes == Over(Negated([nequal |-> "eq", distinct |-> "eq"]), Over(NegatedWords, Common))
CVC4Opcodes == Over(Distinct, Common)
Yices2Opcodes == Over(Distinct, Common)
BoolectorOpcodes == Over(Distinct, Common)              \* one sort: a predicate is one bit

Opcodes ==
    [Z3 |-> Z3Opcodes, STP |-> STPOpcodes, CVC4 |-> CVC4Opcodes, Yices2 |-> Yices2Opcodes,
     Boolector |-> BoolectorOpcodes]

PredicateOp(kind, tag, a, b) ==
    LET c == Opcodes[kind][tag]
        fn == IF c.fn = "eq" THEN "iff" ELSE IF c.fn = "neq" THEN "xor" ELSE c.fn
    IN  LibraryPredicate(fn, a, b) # c.neg
RelationTerm(kind, tag, a, b) ==
    LET c == Opcodes[kind][tag] IN LibraryRelation(c.fn, a, b) # c.neg
WordOp(kind, tag, a, b) ==
    LET c == Opcodes[kind][tag] IN IF c.neg THEN BvNot(LibraryBits(c.fn, a, b)) ELSE LibraryBits(c.fn, a, b)

(* STP has no zero extension: zeros are put before the operand.            *)
STPZeroExtend(n, a) == LibraryBits("concat", Fill(n, FALSE), a)
ZeroExtendOp(kind, n, a) == IF kind = "STP" THEN STPZeroExtend(n, a) ELSE ZeroExtend(n, a)

(* Negation, slices and sign extension are left to the libraries by all.   *)
(* STP is told the new width, the others the number of bits to add.        *)
UnaryTag == {"bvnot", "bvneg"}
LibraryUnary(fn, a) ==
    IF fn = "bvnot" THEN [i \in DOMAIN a |-> ~a[i]] ELSE BvUint(-ToNat(a), Len(a))
LibrarySlice(a, lower, upper) == BvUint(ToNat(a) \div 2^lower, upper - lower + 1)
LibrarySignExtend(width, a) == BvUint(ToInt(a), width)
UnaryTerm(tag, a) == LibraryUnary(tag, a)
ExtractOp(upper, lower, a) == LibrarySlice(a, lower, upper)
STPSignExtend(n, a) == LibrarySignExtend(Len(a) + n, a)
SignExtendOp(kind, n, a) == IF kind = "STP" THEN STPSignExtend(n, a) ELSE SignExtend(n, a)

-----------------------------------------------------------------------------
(* Constants: from a native integer, or written out bit by bit where it    *)
(* would not hold the width (STP) or the value (Boolector).  A string is   *)
(* the sequence of its digits, the highest one first.                      *)
Written(value, width) == Reverse([i \in 1..width |-> IF (value \div 2^(i - 1)) % 2 = 1 THEN "1" ELSE "0"])
Parsed(str) == [i \in 1..Len(str) |-> str[Len(str) + 1 - i] = "1"]

Z3Constant(value, width) == BvUint(value, width)
STPConstant(value, width) ==
    IF width > NativeBits THEN Parsed(Written(value, width)) ELSE BvUint(value, width)
CVC4Constant(value, width) == BvUint(value, width)
Yices2Constant(value, width) == BvUint(value, width)
BoolectorConstant(value, width) ==
    IF value \in (-2^(NativeBits - 1))..(2^NativeBits - 1) THEN BvUint(value, width)
    ELSE Parsed(Written(value, width))
ConstantOp(kind, value, width) ==
    CASE kind = "Z3" -> Z3Constant(value, width)
      [] kind = "STP" -> STPConstant(value, width)
      [] kind = "CVC4" -> CVC4Constant(value, width)
      [] kind = "Yices2" -> Yices2Constant(value, width)
      [] kind = "Boolector" -> BoolectorConstant(value, width)

(* bvhex.  Three of the back ends write four binary digits for a digit,    *)
(* two leave it to the library; Z3 goes on to a number of any size.        *)
FourDigits(digits) == FlattenSeq([i \in DOMAIN digits |-> Written(digits[i], 4)])
SumOf(str) == FoldLeft(LAMBDA n, c : 2 * n + (IF c = "1" THEN 1 ELSE 0), 0, str)
Z3Bin(str) == BvUint(SumOf(str), Len(str))
Z3Hex(digits) == Z3Bin(FourDigits(digits))
STPHex(digits) == Parsed(FourDigits(digits))
BoolectorHex(digits) == Parsed(FourDigits(digits))
HexOp(kind, digits) ==
    CASE kind = "Z3" -> Z3Hex(digits)
      [] kind = "STP" -> STPHex(digits)
      [] kind = "Boolector" -> BoolectorHex(digits)
      [] OTHER -> BvHex(digits)

-----------------------------------------------------------------------------
(* Values.  A library answers with a native integer, a string or the bits  *)
(* from the lowest on; result_wrapper keeps any of them and writes all as  *)
(* a string, the highest bit first, in which X is a bit that no one needed.*)
FromInteger(value, width) == Written(value, width)
FromBits(bits) == Reverse([i \in DOMAIN bits |-> IF bits[i] THEN "1" ELSE "0"])
FromTribools(tri) == Reverse(tri)

Z3Read(bits) ==
    IF ToNat(bits) < 2^NativeBits THEN FromInteger(ToNat(bits), Len(bits)) ELSE FromBits(bits)
STPRead(bits) ==
    IF Len(bits) <= NativeBits THEN FromInteger(ToNat(bits), Len(bits)) ELSE FromBits(bits)
CVC4Read(bits) == FromBits(bits)
Yices2Read(bits) == FromBits(bits)
BoolectorRead(bits) == FromBits(bits)
ReadValue(kind, bits) ==
    CASE kind = "Z3" -> Z3Read(bits)
      [] kind = "STP" -> STPRead(bits)
      [] kind = "CVC4" -> CVC4Read(bits)
      [] kind = "Yices2" -> Yices2Read(bits)
      [] kind = "Boolector" -> BoolectorRead(bits)

(* result_wrapper's other conversions: bit by bit, to one bit that is set  *)
(* if any is, and whether a bit is open.                                   *)
AsTribools(str) == Reverse(str)
AsBools(str) == [i \in 1..Len(str) |-> str[Len(str) + 1 - i] = "1"]
AsTribool(str) ==
    CASE \E i \in DOMAIN str : str[i] = "1" -> "1"
      [] \A i \in DOMAIN str : str[i] = "0" -> "0"
      [] OTHER -> "X"
HasX(str) == \E i \in DOMAIN str : str[i] = "X"

(* randX: every open bit is drawn; throw_if_X: there must be none.         *)
RandX(str, random) == [i \in DOMAIN str |-> IF str[i] = "X" THEN (IF random THEN "1" ELSE "0") ELSE str[i]]

(* Mutant: the sign is forgotten.                                          *)
SetValueUnsigned(str, sign, random) ==
    FoldLeft(LAMBDA n, c : 2 * n + (IF c = "1" \/ (c = "X" /\ random) THEN 1 ELSE 0), 0, str)

(* The integer that AssignResultToRef makes of such a string, with a       *)
(* random bit for every X.                                                 *)
SetValue(str, sign, random) ==
    FoldLeft(LAMBDA n, c : 2 * n + (IF c = "1" \/ (c = "X" /\ random) THEN 1 ELSE 0),
             IF sign /\ str[1] = "1" THEN -1 ELSE 0, str)

(* The specialization for bool: its first digit, which is open or not.     *)
SetBool(str) == str[1] = "1"

(* result_wrapper's own conversion to an integer of the given digits (the  *)
(* bits without the sign) keeps the lowest of them.                        *)
ToInteger(str, sign, digits) ==
    LET first == IF digits < Len(str) THEN Len(str) - digits ELSE 0
        kept == SubSeq(str, first + 1, Len(str))
    IN  FoldLeft(LAMBDA n, c : 2 * n + (IF c = "1" THEN 1 ELSE 0),
                 IF sign /\ str[1] = "1" THEN -1 ELSE 0, kept)
=============================================================================
