---------------------------- MODULE Distribution ----------------------------
(***************************************************************************)
(* Weighted ranges and the distributions made of them, over a signed type  *)
(* of TypeBits bits with weights of WeightBits bits (uint64_t).  r + 1 - l *)
(* is computed in the type itself, where it wraps around.                  *)
(***************************************************************************)
EXTENDS Integers, Sequences, SequencesExt, FiniteSets

CONSTANTS TypeBits, WeightBits

ASSUME BitsAssumption ==
    TypeBits \in Nat \ {0} /\ WeightBits \in Nat \ {0} /\ 2 ^ WeightBits \in Nat \ {0}

MinValue == -(2 ^ (TypeBits - 1))
MaxValue == 2 ^ (TypeBits - 1) - 1
TypeValue == MinValue..MaxValue

InType(x) == ((x - MinValue) % 2 ^ TypeBits) + MinValue
AsWeight(x) == x % 2 ^ WeightBits

WeightedRange(l, r, w) == [accum |-> 0, weight |-> AsWeight(w), left |-> l, right |-> r]

Range0(l, r) == WeightedRange(l, r, InType(InType(r + 1) - l))

WeightedValue(v, w) == WeightedRange(v, v, w)

OverlapStrict(a, b) ==
    \/ a.left < b.left /\ a.right > b.left
    \/ a.left > b.left /\ a.left < b.right

(* weighted_range::overlap: ranges with the same left end do not.          *)
Overlap(a, b) ==
    \/ a.left < b.left /\ a.right >= b.left
    \/ a.left > b.left /\ a.left <= b.right

(* addRange throws for an overlapping range.                               *)
Refuses(ranges, wr) == \E i \in DOMAIN ranges : Overlap(ranges[i], wr)

(* addRange, once for each range: the weights are accumulated.             *)
AddRanges(wrs) ==
    LET accum[i \in DOMAIN wrs] ==
            IF i = 1 THEN wrs[1].weight ELSE AsWeight(accum[i - 1] + wrs[i].weight) IN
    [i \in DOMAIN wrs |-> [wrs[i] EXCEPT !.accum = accum[i]]]

(* make_distribution: the ranges are added one by one, the last one first. *)
Accepted(wrs) == \A i \in DOMAIN wrs : ~ Refuses(SubSeq(wrs, i + 1, Len(wrs)), wrs[i])

MakeDistribution(wrs) == AddRanges(Reverse(wrs))

(* inside(): the values of the collection, in its order.                   *)
InsideDistribution(wrs) == AddRanges(wrs)

(* A range as it is given, and that the sum of the weights is not cut off. *)
GivenRange == [accum : {0}, weight : 0..(2 ^ WeightBits - 1), left : Int, right : Int]
Fits(ranges) ==
    \A i \in DOMAIN ranges \ {1} : ranges[i - 1].accum + ranges[i].weight < 2 ^ WeightBits

(* The range that the random number r selects.                             *)
Selected(ranges, r) ==
    LET above == {i \in DOMAIN ranges : r < ranges[i].accum} IN
    IF above = {} THEN Len(ranges) ELSE CHOOSE i \in above : \A j \in above : i <= j

RandomNumbers(ranges) == 0..AsWeight(Last(ranges).accum - 1)

(* The values nextValue() can return.                                      *)
NextValue(ranges) ==
    IF ranges = <<>> THEN TypeValue
    ELSE LET selected == IF Len(ranges) = 1 THEN {1}
                         ELSE {Selected(ranges, r) : r \in RandomNumbers(ranges)} IN
         UNION {ranges[i].left..ranges[i].right : i \in selected}

(* in_ranges, the condition that dist() asserts of the value.              *)
InRanges(ranges, x) ==
    ranges = <<>> \/ \E i \in DOMAIN ranges : ranges[i].left <= x /\ x <= ranges[i].right

=============================================================================
