---------------------------- MODULE MCGenerators ----------------------------
(* Three partitions in one vector, two and none in others: reset() can     *)
(* enlarge, shrink and empty the vector of solvers.                        *)
EXTENDS Generators

CONSTANTS p1, p2, p3

MCPartition == {p1, p2, p3}
MCPartitionList == {<<p1, p2, p3>>, <<p3, p1>>, <<>>}

(* A program without a file, and one with settings in two: a seed and a    *)
(* back end that is not built in one; no seed, and another level of        *)
(* logging, in the other.                                                  *)
NoSections == [crave |-> Missing, logger |-> Missing]
MCInitialFiles ==
    {[name \in {"crave.cfg", "own.cfg"} |-> NoSections],
     [name \in {"crave.cfg", "own.cfg"} |->
         IF name = "own.cfg"
         THEN [crave |-> [backend |-> "auto", seed |-> 0, lastseed |-> Missing], logger |-> "verbose"]
         ELSE [crave |-> [backend |-> "Boolector", seed |-> 7, lastseed |-> 7], logger |-> Missing]]}
=============================================================================
