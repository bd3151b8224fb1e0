----------------------------- MODULE SatSolver -----------------------------
(***************************************************************************)
(* metaSMT's SAT back ends: a formula becomes clauses, either while it is  *)
(* built (SAT_Clause) or, from an and-inverter graph, when the solver is   *)
(* asked (SAT_Aiger), and the clauses go to MiniSAT, PicoSAT or Lingeling. *)
(*                                                                         *)
(* A literal is a variable or its negative, a clause a set of literals.    *)
(* The operations take the state of a back end and return the next one.    *)
(***************************************************************************)
EXTENDS Integers, Sequences, FiniteSets

SatLibrary == {"MiniSAT", "PicoSAT", "Lingeling"}

-----------------------------------------------------------------------------
(* The wrappers of the libraries.  clauses, assumed: what the library has; *)
(* buffer: clauses that Lingeling holds back; assumptions: literals that   *)
(* MiniSAT and Lingeling hold back; last: the last new_var_id().           *)
Wrapper == [clauses |-> {}, assumed |-> {}, buffer |-> {}, assumptions |-> {}, last |-> 0]

Clauses(lib, s, cs) ==
    IF lib = "Lingeling" THEN [s EXCEPT !.buffer = @ \union cs]
    ELSE [s EXCEPT !.clauses = @ \union cs]
Clause(lib, s, c) == Clauses(lib, s, {c})
AssertLit(lib, s, lit) == Clause(lib, s, {lit})
AssumeLits(lib, s, lits) ==
    IF lib = "PicoSAT" THEN [s EXCEPT !.assumed = @ \union lits]
    ELSE [s EXCEPT !.assumptions = @ \union lits]
AssumeLit(lib, s, lit) == AssumeLits(lib, s, {lit})

(* The libraries: the models of the clauses, and the literals true in one. *)
Models(cs, n) ==
    {m \in [1..n -> BOOLEAN] : \A c \in cs : \E l \in c : m[IF l < 0 THEN -l ELSE l] = (l > 0)}
Units(lits) == {{l} : l \in lits}
LitValue(m, lit) == IF lit < 0 THEN ~m[-lit] ELSE m[lit]

(* What the library works on during solve(): MiniSAT takes its assumptions *)
(* as an argument, Lingeling is handed both buffers.                       *)
Flush(lib, s) ==
    [s EXCEPT !.clauses = @ \union s.buffer, !.buffer = {},
              !.assumed = @ \union s.assumptions, !.assumptions = {}]
SatModels(lib, s) == Models(Flush(lib, s).clauses \union Units(Flush(lib, s).assumed), s.last)

(* Afterwards.  A library forgets the assumptions of a call.  MiniSAT      *)
(* returns before it looks at them if it is not okay: the clauses alone    *)
(* have no model (and never will).                                         *)
SatSolved(lib, s) ==
    IF lib = "MiniSAT" /\ Models(s.clauses, s.last) = {} THEN s
    ELSE [Flush(lib, s) EXCEPT !.assumed = {}]

-----------------------------------------------------------------------------
(* SAT_Clause: the clauses that make out the value of an operation.        *)
Gate(tag, a, b, out) ==
    CASE tag = "and"  -> {{-a, -b, out}, {b, -out}, {a, -out}}
      [] tag = "or"   -> {{a, b, -out}, {-b, out}, {-a, out}}
      [] tag = "nor"  -> {{a, b, out}, {-b, -out}, {-a, -out}}
      [] tag = "nand" -> {{-a, -b, -out}, {b, out}, {a, out}}
      [] tag = "xnor" -> {{a, b, out}, {a, -b, -out}, {-a, b, -out}, {-a, -b, out}}
      [] tag = "xor"  -> {{a, b, -out}, {a, -b, out}, {-a, b, out}, {-a, -b, -out}}
IteGate(i, t, e, out) == {{i, e, -out}, {i, -e, out}, {-i, t, -out}, {-i, -t, out}}

Built(s, result) == [s |-> s, result |-> result]
NewVarId(s) == [s EXCEPT !.last = @ + 1]
TrueLit == 1                      \* the first variable of the constructor
ClauseInit(lib) == AssertLit(lib, NewVarId(Wrapper), TrueLit)
ClauseVar(s) == Built(NewVarId(s), s.last + 1)
ClauseOp(lib, s, tag, args) ==
    LET Define(cs) == Built(Clauses(lib, NewVarId(s), cs), s.last + 1)
        Two(gate) == Define(Gate(gate, args[1], args[2], s.last + 1))
    IN  CASE tag = "true" -> Built(s, TrueLit)
          [] tag = "false" -> Built(s, -TrueLit)
          [] tag = "not" -> Built(s, -args[1])
          [] tag \in {"and", "or", "nor", "nand", "xnor", "xor"} -> Two(tag)
          [] tag = "equal" -> Two("xnor")
          [] tag \in {"nequal", "distinct"} -> Two("xor")
          [] tag = "implies" -> Define(IteGate(args[1], args[2], TrueLit, s.last + 1))
          [] tag = "ite" -> Define(IteGate(args[1], args[2], args[3], s.last + 1))

-----------------------------------------------------------------------------
(* Aiger: literal 2v is variable v, 2v + 1 its negation; 0 and 1 are the   *)
(* constants.  An and-gate is [lhs, rhs0, rhs1].                           *)
AigerNot(lit) == IF lit % 2 = 0 THEN lit + 1 ELSE lit - 1
AigerFalse == 0
AigerTrue == 1
NewVar(g) == [g EXCEPT !.maxvar = @ + 1]
AddAnd(g, lhs, a, b) == [g EXCEPT !.ands = Append(@, [lhs |-> lhs, rhs0 |-> a, rhs1 |-> b])]

(* One gate on a new variable; add_or, add_xnor and add_ite from it.       *)
And(g, a, b) ==
    LET t == 2 * (g.maxvar + 1) IN Built(AddAnd(NewVar(g), t, a, b), t)
Or(g, a, b) ==
    LET r == And(g, AigerNot(a), AigerNot(b)) IN Built(r.s, AigerNot(r.result))
Xnor(g, a, b) ==
    LET r1 == And(g, AigerNot(a), AigerNot(b))
        r2 == And(r1.s, a, b)
    IN  Or(r2.s, r1.result, r2.result)
IteOf(g, i, t, e) ==
    LET r1 == Or(g, AigerNot(i), t)
        r2 == Or(r1.s, i, e)
    IN  And(r2.s, r1.result, r2.result)
Inverted(r) == Built(r.s, AigerNot(r.result))

AigerOp(g, tag, args) ==
    CASE tag = "true" -> Built(g, AigerTrue)
      [] tag = "false" -> Built(g, AigerFalse)
      [] tag = "not" -> Built(g, AigerNot(args[1]))
      [] tag = "and" -> And(g, args[1], args[2])
      [] tag = "nand" -> Inverted(And(g, args[1], args[2]))
      [] tag = "or" -> Or(g, args[1], args[2])
      [] tag = "nor" -> Inverted(Or(g, args[1], args[2]))
      [] tag = "implies" -> Or(g, AigerNot(args[1]), args[2])
      [] tag \in {"equal", "xnor"} -> Xnor(g, args[1], args[2])
      [] tag \in {"nequal", "distinct", "xor"} -> Inverted(Xnor(g, args[1], args[2]))
      [] tag = "ite" -> IteOf(g, args[1], args[2], args[3])
AigerVar(g) == Built(NewVar(g), 2 * (g.maxvar + 1))

(* SAT_Aiger.  The constructor lists its true_var, a variable, among the   *)
(* literals asserted: as a literal it is the constant that stands for it.  *)
TrueVar == 1
AigerInit(lib) ==
    [maxvar |-> TrueVar, ands |-> <<>>, assertions |-> {TrueVar}, assumptions |-> {},
     evaluated |-> {}, solver |-> Wrapper]

SatLit(lit) ==
    CASE lit = AigerTrue -> TrueVar
      [] lit = AigerFalse -> -TrueVar
      [] OTHER -> IF lit % 2 = 1 THEN -(lit \div 2) ELSE lit \div 2

(* _eval of every gate that has not been handed to the solver.             *)
GateClauses(g) ==
    LET l == SatLit(g.lhs)
        a == SatLit(g.rhs0)
        b == SatLit(g.rhs1)
    IN  {{-l, a}, {-l, b}, {l, -a, -b}}
Fresh(g) == {k \in 1..Len(g.ands) : g.ands[k].lhs \notin g.evaluated}
AigerEval(lib, g) ==
    [g EXCEPT !.evaluated = @ \union {g.ands[k].lhs : k \in Fresh(g)},
              !.solver = [Clauses(lib, @, UNION {GateClauses(g.ands[k]) : k \in Fresh(g)})
                             EXCEPT !.last = g.maxvar]]

(* All assertions are handed over again, the assumptions once.             *)
HandAssertions(lib, g) ==
    [g EXCEPT !.solver = Clauses(lib, @, Units({SatLit(l) : l \in g.assertions}))]
HandAssumptions(lib, g) ==
    [g EXCEPT !.solver = AssumeLits(lib, @, {SatLit(l) : l \in g.assumptions}),
              !.assumptions = {}]
AigerFlush(lib, g) == HandAssumptions(lib, HandAssertions(lib, AigerEval(lib, g)))
AigerModels(lib, g) == SatModels(lib, AigerFlush(lib, g).solver)
AigerSolved(lib, g) == [AigerFlush(lib, g) EXCEPT !.solver = SatSolved(lib, @)]
=============================================================================
