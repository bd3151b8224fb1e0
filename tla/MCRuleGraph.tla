----------------------------- MODULE MCRuleGraph -----------------------------
(***************************************************************************)
(* Four rules.  a and b share c and may need each other; c may be assigned *)
(* after it was used as a terminal; groups nest with the kind of their     *)
(* parent and with the other one; a plain rule on the right is refused.    *)
(***************************************************************************)
EXTENDS RuleGraph

R(r) == <<"rule", r>>
Seq2(e, f) == <<"Sequence", e, f>>
Sel2(e, f) == <<"Selector", e, f>>

MCRuleName == {"a", "b", "c", "d"}

MCRhs ==
    [r \in MCRuleName |->
        CASE r = "a" -> {Sel2(Sel2(R("b"), R("c")), Seq2(R("c"), R("d"))),
                         Seq2(Seq2(R("c"), Sel2(R("b"), R("d"))), R("c"))}
          [] r = "b" -> {Seq2(R("d"), R("a")), R("c"),
                         Sel2(Seq2(R("d"), R("c")), R("c"))}
          [] r = "c" -> {Seq2(R("d"), R("d")), Sel2(R("d"), R("c"))}
          [] OTHER -> {}]

MCBound == {"c", "d"}
MCGoal == [r \in MCBound |-> IF r = "c" THEN {1, 2} ELSE {1}]
=============================================================================
