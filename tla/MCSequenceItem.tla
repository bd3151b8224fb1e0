--------------------------- MODULE MCSequenceItem ---------------------------
(***************************************************************************)
(* An item with a distributed variable, two constraints declared with the  *)
(* same name, and an item with a variable and a soft constraint inside.    *)
(* The type has 3 bits, so that a range over all values has weight 0.      *)
(***************************************************************************)
EXTENDS SequenceItem

N(base) == Plain(base)
Text(kind, path, ranges) == [kind |-> kind, ranges |-> ranges, var |-> path]

Uniform == Text("dist", <<>>, <<Range0(MinValue, MaxValue)>>)
UserDist == Text("dist", <<N("v")>>, <<WeightedRange(-2, 0, 3), Range0(1, 2)>>)
NarrowDist == Text("dist", <<N("v")>>, <<WeightedValue(0, 0), WeightedRange(2, 3, 2)>>)
InnerDist == Text("dist", <<N("w")>>, <<Range0(-1, 1)>>)
BadDist == Text("dist", <<N("v")>>, <<Range0(0, 1), Range0(-2, 0)>>)
OneOf == Text("inside", <<>>, <<WeightedValue(0, 1), WeightedValue(2, 1)>>)
Less == Text("plain", <<N("v")>>, <<>>)

Leaf(kind, texts) == [kind |-> kind, texts |-> texts, members |-> <<>>]
Whole(kind, members, texts) == [kind |-> kind, texts |-> texts, members |-> members]
M(class, name) == [class |-> class, name |-> N(name)]

MCClass ==
    [c \in {"Empty", "Var", "Enum", "Con", "Soft", "Inner", "Outer"} |->
        CASE c = "Empty" -> Leaf("hard", <<>>)
          [] c = "Var" -> Whole("variable", <<M("Empty", "hard_cstr")>>, <<Uniform>>)
          [] c = "Enum" -> Whole("enum", <<M("Empty", "enum_internal")>>, <<OneOf>>)
          [] c = "Con" -> Leaf("hard", <<UserDist>>)
          [] c = "Soft" -> Leaf("soft", <<Less>>)
          [] c = "Inner" -> Whole("item", <<M("Var", "w"), M("Soft", "soft_cstr")>>, <<>>)
          [] c = "Outer" -> Whole("item", <<M("Var", "v"), M("Con", "con"), M("Empty", "con"),
                                            M("Inner", "sub")>>, <<>>)]

MCDeclared == {M("Outer", "it"), M("Enum", "it")}
MCNewList == {<<NarrowDist>>, <<Less>>, <<InnerDist>>, <<BadDist>>}
=============================================================================
