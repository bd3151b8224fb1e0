------------------------------ MODULE BitBlast ------------------------------
(***************************************************************************)
(* metaSMT's BitBlast: every operation on bit-vectors is built from the    *)
(* logical operations of the solver below it.                              *)
(*                                                                         *)
(* A bit is a formula of that solver, and here its truth value under an    *)
(* assignment: BitBlast never looks into a formula, so that the circuit    *)
(* it builds computes, for every assignment, what these operators compute  *)
(* on Booleans.  A bit-vector is the sequence of its bits, the least       *)
(* significant one first.                                                  *)
(***************************************************************************)
EXTENDS Integers, SequencesExt

BitVector(n) == [1..n -> BOOLEAN]
Fill(n, bit) == [i \in 1..n |-> bit]
Msb(a) == a[Len(a)]

-----------------------------------------------------------------------------
(* Constants.  bvbin reads its string from the right, bvhex does the same  *)
(* with four bits for a digit; a string is the sequence of its digits.     *)
BvUint(value, width) == [i \in 1..width |-> (value \div 2^(i - 1)) % 2 = 1]
BvSint(value, width) == BvUint(value, width)      \* >> keeps the sign
BvBin(digits) == [i \in 1..Len(digits) |-> digits[Len(digits) + 1 - i] = 1]
BvHex(digits) ==
    [i \in 1..(4 * Len(digits)) |->
        BvUint(digits[Len(digits) - ((i - 1) \div 4)], 4)[((i - 1) % 4) + 1]]
Bit0 == <<FALSE>>
Bit1 == <<TRUE>>

-----------------------------------------------------------------------------
(* Bitwise operations, extension, extraction and concatenation.            *)
BvNot(a) == [i \in DOMAIN a |-> ~a[i]]
BvAnd(a, b) == [i \in DOMAIN a |-> a[i] /\ b[i]]
BvNand(a, b) == [i \in DOMAIN a |-> ~(a[i] /\ b[i])]
BvOr(a, b) == [i \in DOMAIN a |-> a[i] \/ b[i]]
BvNor(a, b) == [i \in DOMAIN a |-> ~(a[i] \/ b[i])]
BvXor(a, b) == [i \in DOMAIN a |-> a[i] # b[i]]
BvXnor(a, b) == [i \in DOMAIN a |-> a[i] = b[i]]

ZeroExtend(n, a) == a \o Fill(n, FALSE)
SignExtend(n, a) == a \o Fill(n, Msb(a))
Extract(upper, lower, a) == [i \in 1..(upper - lower + 1) |-> a[lower + i]]
Concat(a, b) == b \o a
Ite(c, a, b) == [i \in DOMAIN a |-> IF c THEN a[i] ELSE b[i]]

BvEqual(a, b) == \A i \in DOMAIN a : a[i] = b[i]
BvNequal(a, b) == \E i \in DOMAIN a : a[i] # b[i]
BvComp(a, b) == <<BvEqual(a, b)>>

-----------------------------------------------------------------------------
(* The comparisons go from the most significant bit down and keep whether  *)
(* the answer is yes by the bits seen (ret) and whether these are equal.   *)
(* In the bits below the first one, x is the smaller operand.              *)
Compare(first, x, y) ==
    FoldRight(LAMBDA i, s : [ret |-> s.ret \/ (s.equal /\ ~x[i] /\ y[i]),
                             equal |-> (x[i] = y[i]) /\ s.equal],
              [i \in 1..(Len(x) - 1) |-> i],
              [ret |-> first, equal |-> Msb(x) = Msb(y)])
OrEqual(s) == s.ret \/ s.equal

BvUlt(a, b) == Compare(~Msb(a) /\ Msb(b), a, b).ret
BvUgt(a, b) == Compare(Msb(a) /\ ~Msb(b), b, a).ret
BvUle(a, b) == OrEqual(Compare(~Msb(a) /\ Msb(b), a, b))
BvUge(a, b) == OrEqual(Compare(Msb(a) /\ ~Msb(b), b, a))
BvSlt(a, b) == Compare(Msb(a) /\ ~Msb(b), a, b).ret
BvSgt(a, b) == Compare(~Msb(a) /\ Msb(b), b, a).ret
BvSle(a, b) == OrEqual(Compare(Msb(a) /\ ~Msb(b), a, b))

(* Mutant: the sign bit is taken for the bit of highest value.             *)
BvSgeUnsigned(a, b) == OrEqual(Compare(Msb(a) /\ ~Msb(b), b, a))
BvSge(a, b) == OrEqual(Compare(~Msb(a) /\ Msb(b), b, a))

-----------------------------------------------------------------------------
(* Shifts by a constant, and by a bit-vector: one case for every distance  *)
(* below the width, and the fill bit everywhere else.                      *)
ShiftR(a, n, x) == [i \in DOMAIN a |-> IF i + n <= Len(a) THEN a[i + n] ELSE x]
ShiftL(a, n) == [i \in DOMAIN a |-> IF i <= n THEN FALSE ELSE a[i - n]]

Distances(a) == [i \in 1..Len(a) |-> i - 1]
IsDistance(v, n, a) == BvEqual(v, BvUint(n, Len(a)))
BvShr(a, v) ==
    FoldLeft(LAMBDA ret, n : Ite(IsDistance(v, n, a), ShiftR(a, n, FALSE), ret),
             Fill(Len(a), FALSE), Distances(a))
BvShl(a, v) ==
    FoldLeft(LAMBDA ret, n : Ite(IsDistance(v, n, a), ShiftL(a, n), ret),
             Fill(Len(a), FALSE), Distances(a))
BvAshr(a, v) ==
    FoldLeft(LAMBDA ret, n : Ite(IsDistance(v, n, a), ShiftR(a, n, Msb(a)), ret),
             Fill(Len(a), Msb(a)), Distances(a))

-----------------------------------------------------------------------------
(* Addition with a ripple carry, and what is made from it.                 *)
FullAdd(s, x, y) ==
    [ret |-> Append(s.ret, (x # y) # s.carry),
     carry |-> (x /\ y) \/ (s.carry /\ (x \/ y))]
BvAdd(a, b) ==
    FoldLeft(LAMBDA s, i : FullAdd(s, a[i], b[i]), [ret |-> <<>>, carry |-> FALSE],
             [i \in DOMAIN a |-> i]).ret
BvNeg(a) == BvAdd(BvNot(a), [i \in DOMAIN a |-> i = 1])
BvSub(a, b) == BvAdd(a, BvNeg(b))

BvMul(a, b) ==
    FoldLeft(LAMBDA ret, i :
                BvAdd(ret, ShiftL(BvAnd(b, SignExtend(Len(a) - 1, <<a[i]>>)), i - 1)),
             Fill(Len(a), FALSE), [i \in DOMAIN a |-> i])

-----------------------------------------------------------------------------
(* Division.  The divisor is shifted to the left until its highest bit is  *)
(* set, then subtracted where possible and shifted back; once it is where  *)
(* it began (checker) the quotient found so far is shifted down.           *)
Normalize(b) ==
    FoldLeft(LAMBDA d, i : IF Msb(d) THEN d ELSE ShiftL(d, 1), b, [i \in DOMAIN b |-> i])

SetBit(a, k, x) == [i \in DOMAIN a |-> IF i = k THEN x ELSE a[i]]
SetQuotient(ret, k, checker, fits) ==
    IF checker THEN ShiftR(SetBit(ret, k, FALSE), 1, FALSE) ELSE SetBit(ret, k, fits)
DivStep(s, k, b, fits, back) ==
    [rest |-> IF fits THEN BvSub(s.rest, s.divisor) ELSE s.rest,
     divisor |-> IF back THEN s.divisor ELSE ShiftR(s.divisor, 1, FALSE),
     ret |-> SetQuotient(s.ret, k, s.checker, fits),
     checker |-> back \/ s.checker]

UDivRem(a, b) ==
    FoldLeft(LAMBDA s, i : DivStep(s, Len(a) + 1 - i, b, BvUge(s.rest, s.divisor),
                                   BvEqual(s.divisor, b)),
             [rest |-> a, divisor |-> Normalize(b), ret |-> Fill(Len(a), FALSE), checker |-> FALSE],
             [i \in DOMAIN a |-> i])
BvUdiv(a, b) == UDivRem(a, b).ret
BvUrem(a, b) == UDivRem(a, b).rest

(* sDivRem: of the absolute values, negated if the signs differ, whether   *)
(* the quotient or the remainder is asked for.                             *)
Absolute(a) == IF Msb(a) THEN BvNeg(a) ELSE a
NegatedIf(c, a) == IF c THEN BvNeg(a) ELSE a
BvSdiv(a, b) == NegatedIf(Msb(a) # Msb(b), BvUdiv(Absolute(a), Absolute(b)))
BvSrem(a, b) == NegatedIf(Msb(a) # Msb(b), BvUrem(Absolute(a), Absolute(b)))

-----------------------------------------------------------------------------
(* The number a bit-vector stands for, read back from the solver.          *)
ToNat(a) == FoldRight(LAMBDA x, n : 2 * n + (IF x THEN 1 ELSE 0), a, 0)
ToInt(a) == IF Msb(a) THEN ToNat(a) - 2^Len(a) ELSE ToNat(a)

-----------------------------------------------------------------------------
(***************************************************************************)
(* metaSMT's cardinality constraints: how many of the predicates ps hold.  *)
(* A predicate is known by its value under an assignment, so that what an  *)
(* encoding asserts about its own new variables defines them.              *)
(***************************************************************************)
CardinalityTag == {"eq", "lt", "le", "gt", "ge"}
Encoding == {"adder", "bdd"}

AllOf(ps) == \A i \in DOMAIN ps : ps[i]
NoneOf(ps) == \A i \in DOMAIN ps : ~ps[i]

(* cardinality_simplify: the cases that need no encoding.                  *)
Simple(tag, n, c) ==
    CASE tag = "eq" -> c = 0 \/ c >= n \/ (c = 1 /\ n = 2)
      [] tag = "gt" -> n <= c + 1
      [] tag = "ge" -> n <= c \/ c = 0
      [] tag = "lt" -> n < c \/ c <= 1
      [] tag = "le" -> n <= c \/ c = 0
Simplified(tag, ps, n, c) ==
    CASE tag = "eq" -> IF c = 0 THEN NoneOf(ps)
                       ELSE IF c = n THEN AllOf(ps)
                       ELSE c <= n /\ ps[1] # ps[2]
      [] tag = "gt" -> n > c /\ AllOf(ps)
      [] tag = "ge" -> n >= c /\ (c # 0 => AllOf(ps))
      [] tag = "lt" -> n < c \/ (c # 0 /\ NoneOf(ps))
      [] tag = "le" -> n <= c \/ NoneOf(ps)

-----------------------------------------------------------------------------
(* Encoding bdd: a tableau of which row u, column v says what remains to   *)
(* be decided after u of the u + v predicates seen are to hold.            *)
Tableau(ps, c, lt, eq, gt) ==
    LET node[k \in (0..c) \X (0..(Len(ps) - c))] ==
            LET u == k[1]
                v == k[2]
            IN  CASE u = 0 /\ v = 0 -> eq
                  [] u = 0 /\ v > 0 -> IF ps[v] THEN gt ELSE node[<<0, v - 1>>]
                  [] u > 0 /\ v = 0 -> IF ps[u] THEN node[<<u - 1, 0>>] ELSE lt
                  [] u > 0 /\ v > 0 -> IF ps[u + v] THEN node[<<u - 1, v>>] ELSE node[<<u, v - 1>>]
    IN  node[<<c, Len(ps) - c>>]

(* Encoding adder: full and half adders reduce the bits of one weight to   *)
(* one and hand the carries to the next weight.                            *)
Reduce(bits) ==
    LET reduce[b \in Seq(BOOLEAN)] ==
            CASE Len(b) >= 3 ->
                    LET x == b[1]
                        y == b[2]
                        z == b[3]
                        rest == reduce[Append(SubSeq(b, 4, Len(b)), (x # y) # z)]
                    IN  [rest EXCEPT !.carries = <<IF x THEN y \/ z ELSE y /\ z>> \o @]
              [] Len(b) = 2 -> [sum |-> b[1] # b[2], carries |-> <<b[1] /\ b[2]>>]
              [] OTHER -> [sum |-> b[1], carries |-> <<>>]
    IN  reduce[bits]
Added(bits) ==
    LET added[b \in Seq(BOOLEAN)] ==
            IF b = <<>> THEN <<>>
            ELSE LET r == Reduce(b) IN <<r.sum>> \o added[r.carries]
    IN  added[bits]

Log2(n) == CHOOSE k \in 0..n : 2^k <= n /\ n < 2^(k + 1)
Compared(tag, x, c) ==
    CASE tag = "eq" -> x = c [] tag = "lt" -> x < c [] tag = "le" -> x <= c
      [] tag = "gt" -> x > c [] tag = "ge" -> x >= c

Adder(tag, ps, c) == Compared(tag, ToNat(Added(ps)), c % 2^(Log2(Len(ps)) + 1))

(* lt and gt are the negations of ge and le, each simplified again.        *)
BddDirect(tag, ps, c) ==
    CASE tag = "eq" -> Tableau(ps, c, FALSE, TRUE, FALSE)
      [] tag = "le" -> Tableau(ps, c, TRUE, TRUE, FALSE)
      [] tag = "ge" -> Tableau(ps, c, FALSE, TRUE, TRUE)
Bdd(tag, ps, c) ==
    LET dual == IF tag = "lt" THEN "ge" ELSE "le"
    IN  IF tag \in {"eq", "le", "ge"} THEN BddDirect(tag, ps, c)
        ELSE ~(IF Simple(dual, Len(ps), c) THEN Simplified(dual, ps, Len(ps), c)
               ELSE BddDirect(dual, ps, c))

EvalCardinality(tag, ps, c, encoding) ==
    IF Simple(tag, Len(ps), c) THEN Simplified(tag, ps, Len(ps), c)
    ELSE IF encoding = "adder" THEN Adder(tag, ps, c)
    ELSE Bdd(tag, ps, c)

(* one_hot: two rails, whether one predicate holds and whether none does.  *)
OneHot(ps) ==
    IF Len(ps) = 1 THEN ps[1]
    ELSE LET zero[k \in 1..(Len(ps) - 1)] ==
                 IF k = 1 THEN [zero |-> ps[1], one |-> ~ps[1]]
                 ELSE [zero |-> IF ps[k] THEN zero[k - 1].one ELSE zero[k - 1].zero,
                       one |-> ~ps[k] /\ zero[k - 1].one]
         IN  IF ps[Len(ps)] THEN zero[Len(ps) - 1].one ELSE zero[Len(ps) - 1].zero
=============================================================================
