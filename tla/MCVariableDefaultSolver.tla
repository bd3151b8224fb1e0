---------------------- MODULE MCVariableDefaultSolver ----------------------
(* Two write references x and y, a read reference r and a distribution d   *)
(* of y, over the values 0 and 1.  The constraints of a partition are      *)
(* taken from a pool; the place in the pool is the place in the partition. *)
EXTENDS VariableDefaultSolver, SequencesExt

MCDistOf == [d \in {"d"} |-> "y"]
MCDistValue == [d \in {"d"} |-> {0, 1}]

All == [{"x", "y", "r", "d"} -> {0, 1}]

C(kind, support, sat, simple) ==
    [kind |-> kind, support |-> support, sat |-> sat, simple |-> simple]

Pool == <<
    C("soft",  {"x"},      {a \in All : a["x"] = 1}, TRUE),
    C("hard",  {"x", "r"}, {a \in All : a["x"] >= a["r"]}, FALSE),
    C("soft",  {"x", "y"}, {a \in All : a["x"] # a["y"]}, FALSE),
    C("hard",  {"y", "d"}, {a \in All : a["y"] = a["d"]}, FALSE),
    C("cover", {"x", "y"}, {a \in All : a["x"] = 1 /\ a["y"] = 1}, FALSE),
    C("soft",  {"y", "r"}, {a \in All : a["y"] = a["r"]}, FALSE),
    C("hard",  {"x"},      {a \in All : a["x"] = 0}, TRUE),
    C("hard",  {"x"},      {a \in All : a["x"] = 1}, FALSE),
    C("hard",  {"r"},      {a \in All : a["r"] = 0}, TRUE)>>

(* The partitions whose constraints are connected by common variables.     *)
Connected(K) ==
    \A S \in SUBSET K \ {{}, K} :
        \E j \in S, k \in K \ S : Pool[j].support \intersect Pool[k].support # {}

InOrder(K) == SetToSortSeq(K, <)
MCPartition ==
    {FoldRight(LAMBDA k, p : <<Pool[k]>> \o p, InOrder(K), <<>>) :
        K \in {S \in SUBSET (1..Len(Pool)) : Cardinality(S) \in 1..4 /\ Connected(S)}}
=============================================================================
