------------------------- MODULE MCVectorGenerator -------------------------
(* Vectors 1 and 2 have constraints, in some of the lists, vector 3 has    *)
(* none.  The elements take the values 0 to 2, the sizes go from 0 to 3.   *)
EXTENDS VectorGenerator

MCVec == {1, 2, 3}
MCSize == [v \in MCVec |-> IF v = 1 THEN 0..3 ELSE {2}]
MCVecIds == {1, 3}

ForEach(v, soft, offsets, R(_, _)) ==
    [soft |-> soft, offsets |-> offsets, vec |-> v, unique |-> FALSE,
     sat |-> [j \in 0..3 |-> {f \in [offsets -> Value] : R(j, f)}]]
Unique(v, soft) ==
    [soft |-> soft, offsets |-> {}, vec |-> v, unique |-> TRUE, sat |-> [j \in 0..3 |-> {}]]

Bound(v, m) == ForEach(v, FALSE, {0}, LAMBDA j, f : f[0] < m)
Rising(v, soft) == ForEach(v, soft, {-1, 0}, LAMBDA j, f : f[-1] < f[0])
StartsAtOne(v) == ForEach(v, FALSE, {0}, LAMBDA j, f : j = 0 => f[0] = 1)

(* In most lists a foreach names every element, as in the tests.  In the   *)
(* last two the elements may stay one bit wide, or in no formula.          *)
MCLists == {
    <<Bound(1, 2), Unique(1, FALSE)>>,
    <<Bound(1, 3), Unique(1, TRUE), Bound(2, 0)>>,
    <<StartsAtOne(1), Rising(1, TRUE), Bound(2, 1)>>,
    <<Unique(1, FALSE), Bound(1, 3)>>,
    <<Unique(1, FALSE)>>,
    <<Rising(1, FALSE), Unique(1, FALSE)>>}
=============================================================================
