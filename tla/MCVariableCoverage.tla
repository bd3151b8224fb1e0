------------------------ MODULE MCVariableCoverage ------------------------
(* Variables x, y and z of the user and a read reference r, over 0 and 1.  *)
(* The partitions about x and about y, z have cover constraints that can   *)
(* and that cannot be hit, always or depending on r.                       *)
EXTENDS VariableCoverage

All == [{"x", "y", "z", "r"} -> {0, 1}]
C(kind, name, support, sat) ==
    [kind |-> kind, name |-> name, support |-> support, sat |-> sat]

X == <<
    C("cover", "c1", {"x", "r"}, {a \in All : a["x"] = 1 /\ a["r"] = 1}),
    C("hard",  "c2", {"x", "r"}, {a \in All : a["x"] >= a["r"]}),
    C("cover", "c3", {"x"},      {a \in All : a["x"] = 0})>>
YZ == <<
    C("cover", "c1", {"y", "z"}, {a \in All : a["y"] = 1 /\ a["z"] = 0}),
    C("hard",  "c2", {"y"},      {a \in All : a["y"] = 1}),
    C("soft",  "c3", {"y"},      {a \in All : a["y"] = 0}),
    C("cover", "c4", {"y"},      {a \in All : a["y"] = 0})>>
Z == <<
    C("cover", "c1", {"z"},      {a \in All : a["z"] = 1}),
    C("cover", "c2", {"z"},      {a \in All : a["z"] = 0})>>
Y == <<
    C("hard",  "c1", {"y"},      {a \in All : a["y"] = 1}),
    C("cover", "c2", {"y"},      {a \in All : a["y"] = 1})>>
(* Two objects that declare their cover constraints under the same name.   *)
Twins == <<
    C("cover", "c1", {"x", "z"}, {a \in All : a["x"] = 1}),
    C("cover", "c1", {"x", "z"}, {a \in All : a["z"] = 1}),
    C("cover", "c2", {"x", "z"}, {a \in All : a["x"] = a["z"]})>>
Unsat == <<
    C("hard",  "c1", {"x"},      {a \in All : FALSE}),
    C("cover", "c2", {"x"},      {a \in All : a["x"] = 0})>>

MCProgram == {<<X, YZ>>, <<Y, Z>>, <<Z, Unsat>>, <<Twins, Y>>}
=============================================================================
