---------------------------- MODULE MCCovergroup ----------------------------
(* A group with the variables a and b; a may be bound to b.     *)
(* Words have two bits.                                                    *)
EXTENDS Covergroup

Sat(expr, P(_)) == [expr |-> expr, values |-> {s \in Sample : P(s)}]
Equal(l, r) == Binary("eq", l, r)
Lit(n) == NewValue(n, Bits, FALSE)
A == VariableExpr("a", Bits, FALSE)
B == VariableExpr("b", Bits, FALSE)

(* if_then_else(!(a() % 2 == 0), b() > 1, a() == b())                      *)
Choice == Sat(IfThenElse(Unary("not", Equal(Binary("mod", A, Lit(2)), Lit(0))),
                      Binary("gt", B, Lit(1)), Equal(A, B)),
              LAMBDA s : IF s["a"] % 2 = 1 THEN s["b"] > 1 ELSE s["b"] = s["a"])
(* (((a() | b()) & 1) == 1 && ~(a() ^ b()) >= 2)                           *)
(*     || ((1 << a()) / 2 != 1 && b() - a() < 1)                           *)
Masks == Sat(Binary("lor",
    Binary("land", Equal(Binary("and", Binary("or", A, B), Lit(1)), Lit(1)),
                   Binary("ge", Unary("compl", Binary("xor", A, B)), Lit(2))),
    Binary("land", Binary("ne", Binary("div", Binary("shl", Lit(1), A), Lit(2)), Lit(1)),
                   Binary("lt", Binary("minus", B, A), Lit(1)))),
    LAMBDA s : \/ /\ s["a"] % 2 = 1 \/ s["b"] % 2 = 1
                  /\ s["a"] \div 2 = s["b"] \div 2
               \/ s["a"] # 1 /\ s["b"] = s["a"])
-----------------------------------------------------------------------------
(* Conditions of chains: a() == x, or a() == 0 || a() == 1.                *)
IsA(x) == Sat(Equal(A, Lit(x)), LAMBDA s : s["a"] = x)
Low == Sat(Binary("lor", Equal(A, Lit(0)), Equal(A, Lit(1))), LAMBDA s : s["a"] \in {0, 1})

MCFormula ==
    ("choice" :> Choice) @@ ("masks" :> Masks)
    @@ ("zero" :> IsA(0)) @@ ("one" :> IsA(1)) @@ ("low" :> Low)

Type == {"CONSEC", "GOTO", "NON_CONSEC"}
Repeat == {<<1, 1>>, <<1, 2>>, <<2, 2>>}
Node(fsm, name, t, r) == AddState(fsm, <<name>>, t, r[1], r[2])
Pair(t, r, name, u, s) == Node(Node(<<>>, "one", t, r), name, u, s)

(* Chains: conditions that exclude each other and conditions that overlap, *)
(* single nodes, three nodes, a minimum above the maximum.  A consecutive  *)
(* repetition of more than one does not follow a nonconsecutive one.       *)
MCChain ==
    {Pair(t, r, "zero", u, s) : t \in Type, r \in Repeat, u \in Type \ {"CONSEC"}, s \in Repeat}
    \union {Pair(t, r, "zero", "CONSEC", s) : t \in Type \ {"NON_CONSEC"}, r \in Repeat, s \in Repeat}
    \union {Pair("NON_CONSEC", r, "zero", "CONSEC", <<1, 1>>) : r \in Repeat}
    \union {Pair(t, <<1, 2>>, "low", u, <<1, 1>>) : t \in Type, u \in Type}
    \union {Node(<<>>, "low", t, r) : t \in Type, r \in {<<2, 3>>, <<2, 1>>}}
    \union {Node(Node(Node(<<>>, "zero", "CONSEC", <<1, 1>>), "one", t, <<1, 2>>),
                 "zero", "CONSEC", <<1, 1>>) : t \in Type}

-----------------------------------------------------------------------------
(* Simple bins of two formulas in two coverpoints, crosses and bindings;   *)
(* single transition bins; both kinds of bins with other minimums.         *)
Bins ==
    [values |-> [v \in {"a", "b"} |-> {1, 2}], targets |-> {"b"},
     conds |-> {"choice", "masks"}, chains |-> {}, minimums |-> {},
     points |-> 2, maxBins |-> 2, maxSamples |-> 2, addUntil |-> 1]
Transitions ==
    [values |-> ("a" :> {0, 1, 2}) @@ ("b" :> {0}), targets |-> {},
     conds |-> {}, chains |-> MCChain, minimums |-> {},
     points |-> 1, maxBins |-> 1, maxSamples |-> 5, addUntil |-> 1]

Mixed ==
    [Bins EXCEPT !.conds = {"choice"}, !.minimums = {2}, !.points = 1,
                 !.chains = {Pair("GOTO", <<1, 1>>, "low", "CONSEC", <<1, 1>>)}]

MCProgram == {Bins, Transitions, Mixed}
=============================================================================
