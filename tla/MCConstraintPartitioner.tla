----------------------- MODULE MCConstraintPartitioner -----------------------
(* A small instance of ConstraintPartitioner: four constraints over three  *)
(* variables in two managers whose ids interleave, with every combination  *)
(* of the attributes below.                                                *)
EXTENDS ConstraintPartitioner

CONSTANTS x, y, z, m1, m2

MCConstraint == 1..4
MCVar == {x, y, z}
MCManager == {m1, m2}
MCOwned == [m \in MCManager |-> IF m = m1 THEN <<1, 3>> ELSE <<2, 4>>]

MCAttr ==
    [support : SUBSET MCVar, kind : {"hard"}, enabled : {TRUE}]
      \union [support : {{x}, {x, y}}, kind : {"soft"}, enabled : {TRUE}]
      \union [support : {{z}}, kind : {"vector"}, enabled : {TRUE}]
      \union [support : {{x, y}}, kind : {"hard"}, enabled : {FALSE}]
==============================================================================
