---------------------------- MODULE SolverProofs ----------------------------
(***************************************************************************)
(* Proofs about Solver: its back ends keep the promise of AbstractSolver,  *)
(* for any variables, operations, assertions and assumptions.              *)
(*                                                                         *)
(* CUDD_Distributed is left out: the numbers of solutions by which it      *)
(* draws are kept in a machine word, and beyond its width the promise need *)
(* not hold.                                                               *)
(***************************************************************************)
EXTENDS Solver, SequenceTheorems, WellFoundedInduction, TLAPS

(***************************************************************************)
(* What the clauses of a SAT library mean.                                 *)
(***************************************************************************)
Lit(n) == {l \in Int : l # 0 /\ -n <= l /\ l <= n}
Satisfies(m, cs) == \A c \in cs : \E l \in c : LitValue(m, l)

(* vs[v]: the literal of variable v.                                       *)
Agrees(m, vs, a) == \A v \in DOMAIN vs : LitValue(m, vs[v]) <=> a[v]

LitTypes(cs, n, vs, A, P, pend, D) ==
    /\ n \in Nat \ {0}
    /\ cs \subseteq SUBSET Lit(n)
    /\ vs \in [DOMAIN vs -> Lit(n)] /\ DOMAIN vs \subseteq Var
    /\ A \subseteq Assignment /\ P \subseteq A
    /\ pend \subseteq Lit(n)
    /\ D \subseteq Lit(n) \X SUBSET Assignment

(* Every assignment of A is that of a model of the clauses, and a model    *)
(* has an assignment of A only, gives each literal of D its meaning and    *)
(* has all the pending literals if its assignment is one of P.             *)
Realized(cs, n, vs, A) ==
    \A a \in A : \E m \in [1..n -> BOOLEAN] : Satisfies(m, cs) /\ Agrees(m, vs, a)
Exact(cs, n, vs, A, P, pend, D) ==
    \A m \in [1..n -> BOOLEAN], a \in Assignment :
        Satisfies(m, cs) /\ Agrees(m, vs, a) =>
            /\ a \in A
            /\ \A d \in D : LitValue(m, d[1]) <=> a \in d[2]
            /\ a \in P <=> \A l \in pend : LitValue(m, l)
Sound(cs, n, vs, A, P, pend, D) ==
    /\ LitTypes(cs, n, vs, A, P, pend, D)
    /\ Realized(cs, n, vs, A)
    /\ Exact(cs, n, vs, A, P, pend, D)

(***************************************************************************)
(* The invariants of the back ends.                                        *)
(***************************************************************************)
SmtState ==
    [level1 : SUBSET Assignment, level2 : SUBSET Assignment, isPushed : BOOLEAN,
     asserts : SUBSET Assignment, assumes : SUBSET Assignment, held : BOOLEAN,
     native : SUBSET Assignment, known : BOOLEAN]
SmtOK(k, s, A, P) ==
    /\ s \in SmtState
    /\ CASE k = "Yices2OneShot" ->
              s.asserts = A /\ s.asserts \intersect s.assumes = P /\ s.level2 = One /\ ~s.isPushed
         [] k \in {"CVC4", "Yices2"} ->
              /\ s.level1 \intersect s.asserts = A
              /\ s.level1 \intersect s.asserts \intersect s.assumes = P
              /\ ~s.isPushed => s.level2 = One
              /\ ~s.held => s.assumes = One
         [] OTHER -> s.level1 = A /\ s.level1 \intersect s.assumes \intersect s.native = P

Solved(w) == w.clauses \union w.buffer
Pending(w) == w.assumed \union w.assumptions
IsWrapper(lib, w) ==
    /\ w = [clauses |-> w.clauses, assumed |-> w.assumed, buffer |-> w.buffer,
            assumptions |-> w.assumptions, last |-> w.last]
    /\ lib # "Lingeling" => w.buffer = {}
Denoted(rs, ms) == {<<rs[k], ms[k]>> : k \in DOMAIN ms} \union {<<TrueLit, Assignment>>}
ClauseOK(lib, w, vs, A, P, rs, ms) ==
    /\ IsWrapper(lib, w)
    /\ Sound(Solved(w), w.last, vs, A, P, Pending(w), Denoted(rs, ms))

AigerLit(n) == 0..(2 * n + 1)
Gates(g) == UNION {GateClauses(g.ands[k]) : k \in 1..Len(g.ands)}
Known(g) == Gates(g) \union Units({SatLit(l) : l \in g.assertions})
AllPending(g) == {SatLit(l) : l \in g.assumptions} \union Pending(g.solver)
SatLits(vs) == [v \in DOMAIN vs |-> SatLit(vs[v])]
SatDenoted(D) == {<<SatLit(d[1]), d[2]>> : d \in D}
AigerTypes(lib, g) ==
    /\ g = [maxvar |-> g.maxvar, ands |-> g.ands, assertions |-> g.assertions,
            assumptions |-> g.assumptions, evaluated |-> g.evaluated, solver |-> g.solver]
    /\ g.maxvar \in Nat \ {0}
    /\ g.ands \in Seq([lhs : {2 * v : v \in 1..g.maxvar}, rhs0 : AigerLit(g.maxvar),
                       rhs1 : AigerLit(g.maxvar)])
    /\ g.assertions \subseteq AigerLit(g.maxvar) /\ TrueVar \in g.assertions
    /\ g.assumptions \subseteq AigerLit(g.maxvar)
    /\ IsWrapper(lib, g.solver)
Handed(g) ==
    /\ Solved(g.solver) \subseteq Known(g)
    /\ \A k \in 1..Len(g.ands) :
          g.ands[k].lhs \in g.evaluated => GateClauses(g.ands[k]) \subseteq Solved(g.solver)
    /\ g.evaluated \subseteq {2 * v : v \in 1..g.maxvar}
AigerSound(lib, g, vs, A, P, D) ==
    /\ AigerTypes(lib, g)
    /\ Handed(g)
    /\ vs \in [DOMAIN vs -> AigerLit(g.maxvar)]
    /\ D \subseteq AigerLit(g.maxvar) \X SUBSET Assignment
    /\ Sound(Known(g), g.maxvar, SatLits(vs), A, P, AllPending(g), SatDenoted(D))
AigerOK(lib, g, vs, A, P, rs, ms) == AigerSound(lib, g, vs, A, P, Denoted(rs, ms))

BddOK(s, vs, A, P) ==
    /\ s = [assertions |-> s.assertions, assumptions |-> s.assumptions, order |-> s.order,
            previous |-> s.previous, counted |-> s.counted]
    /\ s.assertions = A /\ s.assertions \intersect s.assumptions = P
    /\ s.order \in Seq(Var)
    /\ {s.order[k] : k \in 1..Len(s.order)} = DOMAIN vs
    /\ \A i, j \in 1..Len(s.order) : s.order[i] = s.order[j] => i = j

(* The formula says nothing about variables outside of met.                *)
Supported(f, met) ==
    \A a, b \in Assignment : (\A v \in met : a[v] = b[v]) /\ a \in f => b \in f

(* The back ends that are proved, and how one stands for what was asserted *)
(* (A), what is possible (P) and the formulas built (ms) by its results.   *)
ExactKinds == SmtKinds \union SatKinds \union {"CUDD_Context"}
StandsFor(k, lib, s, vs, A, P, rs, ms) ==
    /\ k \in SmtKinds => rs = ms /\ SmtOK(k, s, A, P)
    /\ k = "SAT_Clause" => ClauseOK(lib, s, vs, A, P, rs, ms)
    /\ k = "SAT_Aiger" => AigerOK(lib, s, vs, A, P, rs, ms)
    /\ k = "CUDD_Context" => rs = ms /\ BddOK(s, vs, A, P)
BackendOK ==
    /\ kind \in ExactKinds
    /\ StandsFor(kind, library, backend, _variables, asserted, possible, results, meaning)

Reading(k, m, vs) ==
    [v \in Var |-> IF v \in DOMAIN vs THEN BackendRead(k, m, v, vs[v]) ELSE "X"]

Types ==
    /\ DOMAIN _variables \subseteq Var
    /\ _variables = [v \in DOMAIN _variables |-> _variables[v]]
    /\ meaning \in Seq(SUBSET Assignment)
    /\ results = [k \in DOMAIN meaning |-> results[k]]
    /\ asserted \subseteq Assignment
    /\ possible \subseteq asserted
Supports ==
    /\ \A k \in DOMAIN meaning : Supported(meaning[k], DOMAIN _variables)
    /\ Supported(asserted, DOMAIN _variables)
    /\ Supported(possible, DOMAIN _variables)
Answered ==
    answer = "sat" =>
        /\ Reading(kind, model, _variables) \in [Var -> Promise!Value]
        /\ \A a \in Assignment :
             Promise!Reads(a, Reading(kind, model, _variables)) => a \in solutions

IInv == Types /\ Supports /\ BackendOK /\ Answered

(***************************************************************************)
(* Clauses and their models.                                               *)
(***************************************************************************)
LEMMA LitValueBool ==
    ASSUME NEW n \in Nat, NEW m \in [1..n -> BOOLEAN], NEW l \in Lit(n)
    PROVE  /\ LitValue(m, l) \in BOOLEAN
           /\ -l \in Lit(n)
           /\ LitValue(m, -l) <=> ~LitValue(m, l)
           /\ LitValue(m, l) <=> m[IF l < 0 THEN -l ELSE l] = (l > 0)
  <1>1. CASE l < 0
    <2>1. -l \in 1..n /\ l \in Int /\ ~(l > 0) /\ ~(-l < 0) /\ -l \in Int /\ -l # 0
      BY <1>1 DEF Lit
    <2>2. m[-l] \in BOOLEAN /\ -l \in Lit(n) /\ -(-l) = l
      BY <2>1 DEF Lit
    <2> QED BY <1>1, <2>1, <2>2 DEF LitValue
  <1>2. CASE ~(l < 0)
    <2>1. l \in 1..n /\ l \in Int /\ l > 0 /\ -l < 0
      BY <1>2 DEF Lit
    <2>2. m[l] \in BOOLEAN /\ -l \in Lit(n) /\ -(-l) = l
      BY <2>1 DEF Lit
    <2> QED BY <1>2, <2>1, <2>2 DEF LitValue
  <1> QED BY <1>1, <1>2

LEMMA ModelsSatisfy ==
    ASSUME NEW n \in Nat, NEW cs, cs \subseteq SUBSET Lit(n)
    PROVE  Models(cs, n) = {m \in [1..n -> BOOLEAN] : Satisfies(m, cs)}
  <1>1. ASSUME NEW m \in [1..n -> BOOLEAN]
        PROVE  (\A c \in cs : \E l \in c : m[IF l < 0 THEN -l ELSE l] = (l > 0)) <=> Satisfies(m, cs)
    <2>1. \A c \in cs : \A l \in c : LitValue(m, l) <=> m[IF l < 0 THEN -l ELSE l] = (l > 0)
      BY LitValueBool
    <2> QED BY <2>1 DEF Satisfies
  <1> QED BY <1>1, Zenon DEF Models

LEMMA SatisfiesUnion ==
    ASSUME NEW m, NEW cs, NEW ds
    PROVE  Satisfies(m, cs \union ds) <=> Satisfies(m, cs) /\ Satisfies(m, ds)
  BY DEF Satisfies

LEMMA SatisfiesUnits ==
    ASSUME NEW m, NEW lits
    PROVE  Satisfies(m, Units(lits)) <=> \A l \in lits : LitValue(m, l)
  <1>1. \A l \in lits : {l} \in Units(lits)
    BY DEF Units
  <1>2. \A c \in Units(lits) : \E l \in lits : c = {l}
    BY DEF Units
  <1>3. ASSUME Satisfies(m, Units(lits)), NEW l \in lits PROVE LitValue(m, l)
    <2>1. PICK k \in {l} : LitValue(m, k)
      BY <1>1, <1>3 DEF Satisfies
    <2> QED BY <2>1
  <1>4. ASSUME \A l \in lits : LitValue(m, l) PROVE Satisfies(m, Units(lits))
    BY <1>2, <1>4 DEF Satisfies
  <1> QED BY <1>3, <1>4

(* A valuation of one more variable.                                       *)
More(m, n, b) == [i \in 1..(n + 1) |-> IF i = n + 1 THEN b ELSE m[i]]
Less(m, n) == [i \in 1..n |-> m[i]]

LEMMA LitGrows ==
    ASSUME NEW n \in Nat, NEW l \in Lit(n)
    PROVE  l \in Lit(n + 1)
  BY DEF Lit

LEMMA MoreValue ==
    ASSUME NEW n \in Nat, NEW m \in [1..n -> BOOLEAN], NEW b \in BOOLEAN
    PROVE  /\ More(m, n, b) \in [1..(n + 1) -> BOOLEAN]
           /\ LitValue(More(m, n, b), n + 1) = b
           /\ \A l \in Lit(n) : LitValue(More(m, n, b), l) = LitValue(m, l)
  <1>1. More(m, n, b) \in [1..(n + 1) -> BOOLEAN]
    BY DEF More
  <1>2. LitValue(More(m, n, b), n + 1) = b
    <2>1. n + 1 \in 1..(n + 1) /\ ~(n + 1 < 0) OBVIOUS
    <2> QED BY <2>1 DEF LitValue, More
  <1>3. ASSUME NEW l \in Lit(n)
        PROVE  LitValue(More(m, n, b), l) = LitValue(m, l)
    <2>1. CASE l < 0
      <3>1. -l \in 1..(n + 1) /\ -l # n + 1 BY <2>1 DEF Lit
      <3> QED BY <2>1, <3>1 DEF LitValue, More
    <2>2. CASE ~(l < 0)
      <3>1. l \in 1..(n + 1) /\ l # n + 1 BY <2>2 DEF Lit
      <3> QED BY <2>2, <3>1 DEF LitValue, More
    <2> QED BY <2>1, <2>2
  <1> QED BY <1>1, <1>2, <1>3

LEMMA LessValue ==
    ASSUME NEW n \in Nat, NEW m \in [1..(n + 1) -> BOOLEAN]
    PROVE  /\ Less(m, n) \in [1..n -> BOOLEAN]
           /\ m[n + 1] \in BOOLEAN
           /\ m = More(Less(m, n), n, m[n + 1])
           /\ LitValue(m, n + 1) = m[n + 1]
           /\ \A l \in Lit(n) : LitValue(m, l) = LitValue(Less(m, n), l)
  <1>1. \A i \in 1..n : i \in 1..(n + 1) OBVIOUS
  <1>2. Less(m, n) \in [1..n -> BOOLEAN]
    BY <1>1 DEF Less
  <1>3. n + 1 \in 1..(n + 1) OBVIOUS
  <1>4. \A i \in 1..(n + 1) : i # n + 1 => i \in 1..n OBVIOUS
  <1>5. m = More(Less(m, n), n, m[n + 1])
    BY <1>4 DEF More, Less
  <1>6. LitValue(m, n + 1) = m[n + 1]
    BY DEF LitValue
  <1>7. ASSUME NEW l \in Lit(n) PROVE LitValue(m, l) = LitValue(Less(m, n), l)
    <2>1. CASE l < 0
      <3>1. -l \in 1..n BY <2>1 DEF Lit
      <3> QED BY <2>1, <3>1 DEF LitValue, Less
    <2>2. CASE ~(l < 0)
      <3>1. l \in 1..n BY <2>2 DEF Lit
      <3> QED BY <2>2, <3>1 DEF LitValue, Less
    <2> QED BY <2>1, <2>2
  <1> QED BY <1>2, <1>3, <1>5, <1>6, <1>7

LEMMA MoreSatisfies ==
    ASSUME NEW n \in Nat, NEW m \in [1..n -> BOOLEAN], NEW b \in BOOLEAN,
           NEW cs, cs \subseteq SUBSET Lit(n)
    PROVE  Satisfies(More(m, n, b), cs) <=> Satisfies(m, cs)
  BY MoreValue DEF Satisfies

LEMMA MoreAgrees ==
    ASSUME NEW n \in Nat, NEW m \in [1..n -> BOOLEAN], NEW b \in BOOLEAN,
           NEW vs, \A v \in DOMAIN vs : vs[v] \in Lit(n), NEW a
    PROVE  Agrees(More(m, n, b), vs, a) <=> Agrees(m, vs, a)
  BY MoreValue DEF Agrees

(***************************************************************************)
(* What keeps clauses sound.                                               *)
(***************************************************************************)
(* A new SAT variable whose value the clauses gs make out: gs is satisfied *)
(* exactly if it tells whether the assignment is one of f.                 *)
Defines(gs, f, cs, n, vs) ==
    \A m \in [1..n -> BOOLEAN], a \in Assignment :
        Satisfies(m, cs) /\ Agrees(m, vs, a) =>
            \A b \in BOOLEAN : Satisfies(More(m, n, b), gs) <=> (b <=> a \in f)

LEMMA GateSound ==
    ASSUME NEW cs, NEW n, NEW vs, NEW A, NEW P, NEW pend, NEW D,
           Sound(cs, n, vs, A, P, pend, D),
           NEW gs, gs \subseteq SUBSET Lit(n + 1), NEW f \in SUBSET Assignment,
           Defines(gs, f, cs, n, vs)
    PROVE  Sound(cs \union gs, n + 1, vs, A, P, pend, D \union {<<n + 1, f>>})
  <1>1. LitTypes(cs, n, vs, A, P, pend, D) /\ n \in Nat \ {0} /\ n \in Nat
    BY DEF Sound, LitTypes
  <1>2. \A l \in Lit(n) : l \in Lit(n + 1)
    BY <1>1, LitGrows
  <1>3. n + 1 \in Lit(n + 1)
    BY <1>1 DEF Lit
  <1>4. LitTypes(cs \union gs, n + 1, vs, A, P, pend, D \union {<<n + 1, f>>})
    <2>1. n + 1 \in Nat \ {0}
      BY <1>1
    <2>2. cs \union gs \subseteq SUBSET Lit(n + 1)
      BY <1>1, <1>2 DEF LitTypes
    <2>3. vs \in [DOMAIN vs -> Lit(n + 1)] /\ DOMAIN vs \subseteq Var
      <3>1. vs \in [DOMAIN vs -> Lit(n)] /\ DOMAIN vs \subseteq Var
        BY <1>1 DEF LitTypes
      <3> QED BY <3>1, <1>2
    <2>4. pend \subseteq Lit(n + 1) /\ A \subseteq Assignment /\ P \subseteq A
      BY <1>1, <1>2 DEF LitTypes
    <2>5. D \union {<<n + 1, f>>} \subseteq Lit(n + 1) \X SUBSET Assignment
      <3>1. D \subseteq Lit(n) \X SUBSET Assignment
        BY <1>1 DEF LitTypes
      <3>2. Lit(n) \subseteq Lit(n + 1)
        BY <1>2
      <3> QED BY <3>1, <3>2, <1>3
    <2> QED BY <2>1, <2>2, <2>3, <2>4, <2>5 DEF LitTypes
  <1>5. Realized(cs \union gs, n + 1, vs, A)
    <2> SUFFICES ASSUME NEW a \in A
                 PROVE  \E m \in [1..(n + 1) -> BOOLEAN] : Satisfies(m, cs \union gs) /\ Agrees(m, vs, a)
      BY DEF Realized
    <2>1. a \in Assignment
      BY <1>1 DEF LitTypes
    <2>2. PICK m \in [1..n -> BOOLEAN] : Satisfies(m, cs) /\ Agrees(m, vs, a)
      BY DEF Sound, Realized
    <2> DEFINE b == a \in f
               w == More(m, n, b)
    <2>3. b \in BOOLEAN
      OBVIOUS
    <2>4. Satisfies(w, gs)
      BY <2>1, <2>2, <2>3 DEF Defines
    <2>5. w \in [1..(n + 1) -> BOOLEAN] /\ Satisfies(w, cs) /\ Agrees(w, vs, a)
      <3>1. cs \subseteq SUBSET Lit(n) /\ \A v \in DOMAIN vs : vs[v] \in Lit(n)
        BY <1>1 DEF LitTypes
      <3> HIDE DEF b
      <3> QED BY <1>1, <2>2, <2>3, <3>1, MoreValue, MoreSatisfies, MoreAgrees
    <2> HIDE DEF w
    <2> QED BY <2>4, <2>5, SatisfiesUnion
  <1>6. Exact(cs \union gs, n + 1, vs, A, P, pend, D \union {<<n + 1, f>>})
    <2> SUFFICES ASSUME NEW m \in [1..(n + 1) -> BOOLEAN], NEW a \in Assignment,
                        Satisfies(m, cs \union gs), Agrees(m, vs, a)
                 PROVE  /\ a \in A
                        /\ \A d \in D \union {<<n + 1, f>>} : LitValue(m, d[1]) <=> a \in d[2]
                        /\ a \in P <=> \A l \in pend : LitValue(m, l)
      BY DEF Exact
    <2> DEFINE w == Less(m, n)
               b == m[n + 1]
    <2>1. w \in [1..n -> BOOLEAN] /\ b \in BOOLEAN /\ m = More(w, n, b)
      BY <1>1, LessValue
    <2>2. \A l \in Lit(n) : LitValue(m, l) = LitValue(w, l)
      BY <1>1, LessValue
    <2>3. LitValue(m, n + 1) = b
      BY <1>1, LessValue
    <2> HIDE DEF w, b
    <2>4. Satisfies(w, cs) /\ Agrees(w, vs, a)
      <3>1. cs \subseteq SUBSET Lit(n) /\ \A v \in DOMAIN vs : vs[v] \in Lit(n)
        BY <1>1 DEF LitTypes
      <3>2. Satisfies(m, cs)
        BY SatisfiesUnion
      <3> QED BY <1>1, <2>1, <3>1, <3>2, MoreSatisfies, MoreAgrees
    <2>5. b <=> a \in f
      <3>1. Satisfies(m, gs)
        BY SatisfiesUnion
      <3> QED BY <2>1, <2>4, <3>1 DEF Defines
    <2>6. /\ a \in A
          /\ \A d \in D : LitValue(w, d[1]) <=> a \in d[2]
          /\ a \in P <=> \A l \in pend : LitValue(w, l)
      BY <2>1, <2>4 DEF Sound, Exact
    <2>7. \A d \in D : d[1] \in Lit(n)
      BY <1>1 DEF LitTypes
    <2>8. \A l \in pend : l \in Lit(n)
      BY <1>1 DEF LitTypes
    <2>9. \A d \in D : LitValue(m, d[1]) <=> a \in d[2]
      BY <2>2, <2>6, <2>7
    <2>10. a \in P <=> \A l \in pend : LitValue(m, l)
      BY <2>2, <2>6, <2>8
    <2>11. LitValue(m, <<n + 1, f>>[1]) <=> a \in <<n + 1, f>>[2]
      BY <2>3, <2>5
    <2> QED BY <2>6, <2>9, <2>10, <2>11
  <1> QED BY <1>4, <1>5, <1>6 DEF Sound

(* A new variable of the user.                                             *)
LEMMA VariableSound ==
    ASSUME NEW cs, NEW n, NEW vs, NEW A, NEW P, NEW pend, NEW D,
           Sound(cs, n, vs, A, P, pend, D), NEW v \in Var, v \notin DOMAIN vs,
           NEW ws, ws = [w \in DOMAIN vs \union {v} |-> IF w = v THEN n + 1 ELSE vs[w]]
    PROVE  Sound(cs, n + 1, ws, A, P, pend, D \union {<<n + 1, {a \in Assignment : a[v]}>>})
  <1>1. LitTypes(cs, n, vs, A, P, pend, D) /\ n \in Nat \ {0} /\ n \in Nat
    BY DEF Sound, LitTypes
  <1>2. \A l \in Lit(n) : l \in Lit(n + 1)
    BY <1>1, LitGrows
  <1>3. n + 1 \in Lit(n + 1)
    BY <1>1 DEF Lit
  <1> DEFINE f == {a \in Assignment : a[v]}
  <1>4. LitTypes(cs, n + 1, ws, A, P, pend, D \union {<<n + 1, f>>})
    <2>1. n + 1 \in Nat \ {0}
      BY <1>1
    <2>2. cs \subseteq SUBSET Lit(n + 1)
      BY <1>1, <1>2 DEF LitTypes
    <2>3. ws \in [DOMAIN ws -> Lit(n + 1)] /\ DOMAIN ws \subseteq Var
      <3>1. vs \in [DOMAIN vs -> Lit(n)] /\ DOMAIN vs \subseteq Var
        BY <1>1 DEF LitTypes
      <3> QED BY <3>1, <1>2, <1>3
    <2>4. pend \subseteq Lit(n + 1) /\ A \subseteq Assignment /\ P \subseteq A
      BY <1>1, <1>2 DEF LitTypes
    <2>5. D \union {<<n + 1, f>>} \subseteq Lit(n + 1) \X SUBSET Assignment
      <3>1. D \subseteq Lit(n) \X SUBSET Assignment
        BY <1>1 DEF LitTypes
      <3>2. Lit(n) \subseteq Lit(n + 1)
        BY <1>2
      <3>3. f \in SUBSET Assignment
        OBVIOUS
      <3> HIDE DEF f
      <3> QED BY <3>1, <3>2, <3>3, <1>3
    <2> HIDE DEF f
    <2> QED BY <2>1, <2>2, <2>3, <2>4, <2>5 DEF LitTypes
  <1>5. ASSUME NEW m \in [1..n -> BOOLEAN], NEW b \in BOOLEAN, NEW a \in Assignment
        PROVE  Agrees(More(m, n, b), ws, a) <=> Agrees(m, vs, a) /\ (b <=> a[v])
    <2>1. \A w \in DOMAIN vs : w # v /\ w \in DOMAIN ws /\ ws[w] = vs[w] /\ vs[w] \in Lit(n)
      BY <1>1 DEF LitTypes
    <2>2. v \in DOMAIN ws /\ ws[v] = n + 1
      OBVIOUS
    <2>3. DOMAIN ws = DOMAIN vs \union {v}
      OBVIOUS
    <2>4. LitValue(More(m, n, b), n + 1) = b
      BY <1>1, MoreValue
    <2>5. \A w \in DOMAIN vs : LitValue(More(m, n, b), ws[w]) = LitValue(m, vs[w])
      BY <1>1, <2>1, MoreValue
    <2> QED BY <2>1, <2>2, <2>3, <2>4, <2>5 DEF Agrees
  <1>6. Realized(cs, n + 1, ws, A)
    <2> SUFFICES ASSUME NEW a \in A
                 PROVE  \E m \in [1..(n + 1) -> BOOLEAN] : Satisfies(m, cs) /\ Agrees(m, ws, a)
      BY DEF Realized
    <2>1. a \in Assignment
      BY <1>1 DEF LitTypes
    <2>2. PICK m \in [1..n -> BOOLEAN] : Satisfies(m, cs) /\ Agrees(m, vs, a)
      BY DEF Sound, Realized
    <2> DEFINE b == a[v]
               w == More(m, n, b)
    <2>3. b \in BOOLEAN /\ (b <=> a[v])
      BY <2>1 DEF Assignment
    <2> HIDE DEF b
    <2>4. Agrees(w, ws, a)
      BY <2>1, <2>2, <2>3, <1>5
    <2>5. w \in [1..(n + 1) -> BOOLEAN] /\ Satisfies(w, cs)
      <3>1. cs \subseteq SUBSET Lit(n)
        BY <1>1 DEF LitTypes
      <3> QED BY <1>1, <2>2, <2>3, <3>1, MoreValue, MoreSatisfies
    <2> HIDE DEF w
    <2> QED BY <2>4, <2>5
  <1>7. Exact(cs, n + 1, ws, A, P, pend, D \union {<<n + 1, f>>})
    <2> SUFFICES ASSUME NEW m \in [1..(n + 1) -> BOOLEAN], NEW a \in Assignment,
                        Satisfies(m, cs), Agrees(m, ws, a)
                 PROVE  /\ a \in A
                        /\ \A d \in D \union {<<n + 1, f>>} : LitValue(m, d[1]) <=> a \in d[2]
                        /\ a \in P <=> \A l \in pend : LitValue(m, l)
      BY DEF Exact
    <2> DEFINE w == Less(m, n)
               b == m[n + 1]
    <2>1. w \in [1..n -> BOOLEAN] /\ b \in BOOLEAN /\ m = More(w, n, b)
      BY <1>1, LessValue
    <2>2. \A l \in Lit(n) : LitValue(m, l) = LitValue(w, l)
      BY <1>1, LessValue
    <2>3. LitValue(m, n + 1) = b
      BY <1>1, LessValue
    <2> HIDE DEF w, b
    <2>4. Satisfies(w, cs) /\ Agrees(w, vs, a) /\ (b <=> a[v])
      <3>1. cs \subseteq SUBSET Lit(n)
        BY <1>1 DEF LitTypes
      <3>2. Satisfies(w, cs)
        BY <1>1, <2>1, <3>1, MoreSatisfies
      <3> QED BY <1>5, <2>1, <3>2
    <2>5. b <=> a \in f
      BY <2>4
    <2>6. /\ a \in A
          /\ \A d \in D : LitValue(w, d[1]) <=> a \in d[2]
          /\ a \in P <=> \A l \in pend : LitValue(w, l)
      BY <2>1, <2>4 DEF Sound, Exact
    <2>7. \A d \in D : d[1] \in Lit(n)
      BY <1>1 DEF LitTypes
    <2>8. \A l \in pend : l \in Lit(n)
      BY <1>1 DEF LitTypes
    <2> HIDE DEF f
    <2>9. \A d \in D : LitValue(m, d[1]) <=> a \in d[2]
      BY <2>2, <2>6, <2>7
    <2>10. a \in P <=> \A l \in pend : LitValue(m, l)
      BY <2>2, <2>6, <2>8
    <2>11. LitValue(m, <<n + 1, f>>[1]) <=> a \in <<n + 1, f>>[2]
      BY <2>3, <2>5
    <2> QED BY <2>6, <2>9, <2>10, <2>11
  <1> QED BY <1>4, <1>6, <1>7 DEF Sound

(* Fewer literals whose meaning is known.                                  *)
LEMMA FewerSound ==
    ASSUME NEW cs, NEW n, NEW vs, NEW A, NEW P, NEW pend, NEW D,
           Sound(cs, n, vs, A, P, pend, D), NEW E, E \subseteq D
    PROVE  Sound(cs, n, vs, A, P, pend, E)
  <1>1. LitTypes(cs, n, vs, A, P, pend, E)
    BY DEF Sound, LitTypes
  <1>2. Exact(cs, n, vs, A, P, pend, E)
    BY DEF Sound, Exact
  <1> QED BY <1>1, <1>2 DEF Sound

(* A literal is asserted, or assumed; solve() forgets the assumptions.     *)
LEMMA AssertSound ==
    ASSUME NEW cs, NEW n, NEW vs, NEW A, NEW P, NEW pend, NEW D,
           Sound(cs, n, vs, A, P, pend, D), NEW l, NEW f, <<l, f>> \in D
    PROVE  Sound(cs \union {{l}}, n, vs, A \intersect f, P \intersect f, pend, D)
  <1>1. l \in Lit(n) /\ f \in SUBSET Assignment
    BY DEF Sound, LitTypes
  <1>2. LitTypes(cs \union {{l}}, n, vs, A \intersect f, P \intersect f, pend, D)
    BY <1>1 DEF Sound, LitTypes
  <1>3. \A m : Satisfies(m, cs \union {{l}}) <=> Satisfies(m, cs) /\ LitValue(m, l)
    <2>1. \A m : Satisfies(m, {{l}}) <=> LitValue(m, l)
      BY DEF Satisfies
    <2> QED BY <2>1, SatisfiesUnion
  <1>4. ASSUME NEW m \in [1..n -> BOOLEAN], NEW a \in Assignment, Satisfies(m, cs), Agrees(m, vs, a)
        PROVE  LitValue(m, l) <=> a \in f
    <2>1. LitValue(m, <<l, f>>[1]) <=> a \in <<l, f>>[2]
      BY <1>4 DEF Sound, Exact
    <2> QED BY <2>1
  <1>5. Realized(cs \union {{l}}, n, vs, A \intersect f)
    <2> SUFFICES ASSUME NEW a \in A \intersect f
                 PROVE  \E m \in [1..n -> BOOLEAN] : Satisfies(m, cs \union {{l}}) /\ Agrees(m, vs, a)
      BY DEF Realized
    <2>1. PICK m \in [1..n -> BOOLEAN] : Satisfies(m, cs) /\ Agrees(m, vs, a)
      BY DEF Sound, Realized
    <2>2. a \in Assignment
      BY <1>1
    <2> QED BY <1>3, <1>4, <2>1, <2>2
  <1>6. Exact(cs \union {{l}}, n, vs, A \intersect f, P \intersect f, pend, D)
    <2> SUFFICES ASSUME NEW m \in [1..n -> BOOLEAN], NEW a \in Assignment,
                        Satisfies(m, cs \union {{l}}), Agrees(m, vs, a)
                 PROVE  /\ a \in A \intersect f
                        /\ \A d \in D : LitValue(m, d[1]) <=> a \in d[2]
                        /\ a \in P \intersect f <=> \A k \in pend : LitValue(m, k)
      BY DEF Exact
    <2>1. Satisfies(m, cs) /\ a \in f
      BY <1>3, <1>4
    <2>2. /\ a \in A
          /\ \A d \in D : LitValue(m, d[1]) <=> a \in d[2]
          /\ a \in P <=> \A k \in pend : LitValue(m, k)
      BY <2>1 DEF Sound, Exact
    <2> QED BY <2>1, <2>2
  <1> QED BY <1>2, <1>5, <1>6 DEF Sound

LEMMA AssumeSound ==
    ASSUME NEW cs, NEW n, NEW vs, NEW A, NEW P, NEW pend, NEW D,
           Sound(cs, n, vs, A, P, pend, D), NEW l, NEW f, <<l, f>> \in D
    PROVE  Sound(cs, n, vs, A, P \intersect f, pend \union {l}, D)
  <1>1. l \in Lit(n) /\ f \in SUBSET Assignment
    BY DEF Sound, LitTypes
  <1>2. LitTypes(cs, n, vs, A, P \intersect f, pend \union {l}, D)
    BY <1>1 DEF Sound, LitTypes
  <1>3. Exact(cs, n, vs, A, P \intersect f, pend \union {l}, D)
    <2> SUFFICES ASSUME NEW m \in [1..n -> BOOLEAN], NEW a \in Assignment,
                        Satisfies(m, cs), Agrees(m, vs, a)
                 PROVE  /\ a \in A
                        /\ \A d \in D : LitValue(m, d[1]) <=> a \in d[2]
                        /\ a \in P \intersect f <=> \A k \in pend \union {l} : LitValue(m, k)
      BY DEF Exact
    <2>1. /\ a \in A
          /\ \A d \in D : LitValue(m, d[1]) <=> a \in d[2]
          /\ a \in P <=> \A k \in pend : LitValue(m, k)
      BY DEF Sound, Exact
    <2>2. LitValue(m, <<l, f>>[1]) <=> a \in <<l, f>>[2]
      BY <2>1
    <2> QED BY <2>1, <2>2
  <1> QED BY <1>2, <1>3 DEF Sound

LEMMA ForgetSound ==
    ASSUME NEW cs, NEW n, NEW vs, NEW A, NEW P, NEW pend, NEW D,
           Sound(cs, n, vs, A, P, pend, D)
    PROVE  /\ Sound(cs, n, vs, A, A, {}, D)
           /\ (\A m \in [1..n -> BOOLEAN] : ~Satisfies(m, cs)) => Sound(cs, n, vs, A, A, pend, D)
  <1>1. LitTypes(cs, n, vs, A, A, {}, D) /\ LitTypes(cs, n, vs, A, A, pend, D)
    BY DEF Sound, LitTypes
  <1>2. Exact(cs, n, vs, A, A, {}, D)
    BY DEF Sound, Exact
  <1>3. (\A m \in [1..n -> BOOLEAN] : ~Satisfies(m, cs)) => Exact(cs, n, vs, A, A, pend, D)
    BY DEF Exact
  <1> QED BY <1>1, <1>2, <1>3 DEF Sound

(* The answer: there is a model with the pending literals exactly if P has *)
(* an assignment, and only assignments of P agree with it.                 *)
LEMMA FoundSound ==
    ASSUME NEW cs, NEW n, NEW vs, NEW A, NEW P, NEW pend, NEW D,
           Sound(cs, n, vs, A, P, pend, D)
    PROVE  /\ Models(cs \union Units(pend), n) = {} <=> P = {}
           /\ \A m \in Models(cs \union Units(pend), n) :
                 /\ m \in [1..n -> BOOLEAN]
                 /\ \A a \in Assignment : Agrees(m, vs, a) => a \in P
  <1>1. /\ n \in Nat /\ cs \subseteq SUBSET Lit(n) /\ pend \subseteq Lit(n) /\ P \subseteq A
        /\ A \subseteq Assignment /\ DOMAIN vs \subseteq Var /\ vs \in [DOMAIN vs -> Lit(n)]
    BY DEF Sound, LitTypes
  <1>2. cs \union Units(pend) \subseteq SUBSET Lit(n)
    BY <1>1 DEF Units
  <1>3. Models(cs \union Units(pend), n) =
           {m \in [1..n -> BOOLEAN] : Satisfies(m, cs) /\ \A l \in pend : LitValue(m, l)}
    <2>1. Models(cs \union Units(pend), n) = {m \in [1..n -> BOOLEAN] : Satisfies(m, cs \union Units(pend))}
      BY <1>1, <1>2, ModelsSatisfy
    <2>2. \A m : Satisfies(m, cs \union Units(pend)) <=>
                    Satisfies(m, cs) /\ \A l \in pend : LitValue(m, l)
      BY SatisfiesUnion, SatisfiesUnits
    <2> QED BY <2>1, <2>2
  <1>4. ASSUME NEW m \in [1..n -> BOOLEAN], NEW a \in Assignment, Agrees(m, vs, a),
               Satisfies(m, cs)
        PROVE  a \in P <=> \A l \in pend : LitValue(m, l)
    BY <1>4 DEF Sound, Exact
  <1>5. ASSUME NEW m \in [1..n -> BOOLEAN]
        PROVE  \E a \in Assignment : Agrees(m, vs, a)
    <2> DEFINE a == [v \in Var |-> IF v \in DOMAIN vs THEN LitValue(m, vs[v]) ELSE TRUE]
    <2>1. \A v \in DOMAIN vs : LitValue(m, vs[v]) \in BOOLEAN
      BY <1>1, LitValueBool
    <2>2. a \in Assignment
      BY <2>1 DEF Assignment
    <2>3. \A v \in DOMAIN vs : a[v] = LitValue(m, vs[v])
      BY <1>1
    <2> HIDE DEF a
    <2> QED BY <2>2, <2>3 DEF Agrees
  <1>6. ASSUME P # {} PROVE Models(cs \union Units(pend), n) # {}
    <2>1. PICK a \in P : TRUE
      BY <1>6
    <2>2. PICK m \in [1..n -> BOOLEAN] : Satisfies(m, cs) /\ Agrees(m, vs, a)
      BY <1>1 DEF Sound, Realized
    <2> QED BY <1>1, <1>3, <1>4, <2>1, <2>2
  <1> QED BY <1>3, <1>4, <1>5, <1>6

(***************************************************************************)
(* The gates.                                                              *)
(***************************************************************************)
(* The values of known literals, once there is one variable more.          *)
LEMMA KnownValue ==
    ASSUME NEW cs, NEW n, NEW vs, NEW A, NEW P, NEW pend, NEW D,
           Sound(cs, n, vs, A, P, pend, D),
           NEW m \in [1..n -> BOOLEAN], NEW a \in Assignment, Satisfies(m, cs), Agrees(m, vs, a),
           NEW b \in BOOLEAN, NEW l, NEW f, <<l, f>> \in D
    PROVE  /\ LitValue(More(m, n, b), l) <=> a \in f
           /\ LitValue(More(m, n, b), -l) <=> a \notin f
           /\ l \in Lit(n + 1) /\ -l \in Lit(n + 1)
  <1>1. n \in Nat /\ n + 1 \in Nat /\ l \in Lit(n) /\ f \in SUBSET Assignment
    BY DEF Sound, LitTypes
  <1>2. LitValue(m, l) <=> a \in f
    <2>1. LitValue(m, <<l, f>>[1]) <=> a \in <<l, f>>[2]
      BY DEF Sound, Exact
    <2> QED BY <2>1
  <1>3. More(m, n, b) \in [1..(n + 1) -> BOOLEAN] /\ LitValue(More(m, n, b), l) = LitValue(m, l)
    BY <1>1, MoreValue
  <1>4. l \in Lit(n + 1)
    BY <1>1, LitGrows
  <1>5. LitValue(More(m, n, b), -l) <=> ~LitValue(More(m, n, b), l)
    BY <1>1, <1>3, <1>4, LitValueBool
  <1>6. -l \in Lit(n + 1)
    BY <1>1, <1>4, <1>3, LitValueBool
  <1> QED BY <1>2, <1>3, <1>4, <1>5, <1>6

LEMMA OutValue ==
    ASSUME NEW n \in Nat, NEW m \in [1..n -> BOOLEAN], NEW b \in BOOLEAN
    PROVE  /\ LitValue(More(m, n, b), n + 1) <=> b
           /\ LitValue(More(m, n, b), -(n + 1)) <=> ~b
           /\ n + 1 \in Lit(n + 1) /\ -(n + 1) \in Lit(n + 1)
  <1>1. n + 1 \in Lit(n + 1) /\ n + 1 \in Nat
    BY DEF Lit
  <1>2. More(m, n, b) \in [1..(n + 1) -> BOOLEAN] /\ LitValue(More(m, n, b), n + 1) = b
    BY MoreValue
  <1>3. LitValue(More(m, n, b), -(n + 1)) <=> ~LitValue(More(m, n, b), n + 1)
    BY <1>1, <1>2, LitValueBool
  <1>4. -(n + 1) \in Lit(n + 1)
    BY <1>1 DEF Lit
  <1> QED BY <1>1, <1>2, <1>3, <1>4

AnyLit(m, c) == \E l \in c : LitValue(m, l)
LEMMA AnyOf ==
    ASSUME NEW m, NEW x, NEW y, NEW z
    PROVE  /\ AnyLit(m, {x, y}) <=> LitValue(m, x) \/ LitValue(m, y)
           /\ AnyLit(m, {x, y, z}) <=> LitValue(m, x) \/ LitValue(m, y) \/ LitValue(m, z)
  BY DEF AnyLit

ThreeClauses(x1, x2, x3, y1, y2, z1, z2) == {{x1, x2, x3}, {y1, y2}, {z1, z2}}
FourClauses(x1, x2, x3, y1, y2, y3, z1, z2, z3, u1, u2, u3) ==
    {{x1, x2, x3}, {y1, y2, y3}, {z1, z2, z3}, {u1, u2, u3}}
LEMMA SatisfiesThree ==
    ASSUME NEW m, NEW x1, NEW x2, NEW x3, NEW y1, NEW y2, NEW z1, NEW z2
    PROVE  Satisfies(m, ThreeClauses(x1, x2, x3, y1, y2, z1, z2)) <=>
              /\ LitValue(m, x1) \/ LitValue(m, x2) \/ LitValue(m, x3)
              /\ LitValue(m, y1) \/ LitValue(m, y2)
              /\ LitValue(m, z1) \/ LitValue(m, z2)
  <1> DEFINE c1 == {x1, x2, x3}
             c2 == {y1, y2}
             c3 == {z1, z2}
  <1>1. /\ AnyLit(m, c1) <=> LitValue(m, x1) \/ LitValue(m, x2) \/ LitValue(m, x3)
        /\ AnyLit(m, c2) <=> LitValue(m, y1) \/ LitValue(m, y2)
        /\ AnyLit(m, c3) <=> LitValue(m, z1) \/ LitValue(m, z2)
    BY AnyOf
  <1> HIDE DEF c1, c2, c3
  <1>2. Satisfies(m, {c1, c2, c3}) <=> AnyLit(m, c1) /\ AnyLit(m, c2) /\ AnyLit(m, c3)
    BY DEF Satisfies, AnyLit
  <1>3. Satisfies(m, {c1, c2, c3}) <=>
              /\ LitValue(m, x1) \/ LitValue(m, x2) \/ LitValue(m, x3)
              /\ LitValue(m, y1) \/ LitValue(m, y2)
              /\ LitValue(m, z1) \/ LitValue(m, z2)
    BY <1>1, <1>2
  <1> QED BY <1>3 DEF c1, c2, c3, ThreeClauses

LEMMA SatisfiesFour ==
    ASSUME NEW m, NEW x1, NEW x2, NEW x3, NEW y1, NEW y2, NEW y3, NEW z1, NEW z2, NEW z3,
           NEW u1, NEW u2, NEW u3
    PROVE  Satisfies(m, FourClauses(x1, x2, x3, y1, y2, y3, z1, z2, z3, u1, u2, u3)) <=>
              /\ LitValue(m, x1) \/ LitValue(m, x2) \/ LitValue(m, x3)
              /\ LitValue(m, y1) \/ LitValue(m, y2) \/ LitValue(m, y3)
              /\ LitValue(m, z1) \/ LitValue(m, z2) \/ LitValue(m, z3)
              /\ LitValue(m, u1) \/ LitValue(m, u2) \/ LitValue(m, u3)
  <1> DEFINE c1 == {x1, x2, x3}
             c2 == {y1, y2, y3}
             c3 == {z1, z2, z3}
             c4 == {u1, u2, u3}
  <1>1. /\ AnyLit(m, c1) <=> LitValue(m, x1) \/ LitValue(m, x2) \/ LitValue(m, x3)
        /\ AnyLit(m, c2) <=> LitValue(m, y1) \/ LitValue(m, y2) \/ LitValue(m, y3)
        /\ AnyLit(m, c3) <=> LitValue(m, z1) \/ LitValue(m, z2) \/ LitValue(m, z3)
        /\ AnyLit(m, c4) <=> LitValue(m, u1) \/ LitValue(m, u2) \/ LitValue(m, u3)
    BY AnyOf
  <1> HIDE DEF c1, c2, c3, c4
  <1>2. Satisfies(m, {c1, c2, c3, c4}) <=> AnyLit(m, c1) /\ AnyLit(m, c2) /\ AnyLit(m, c3) /\ AnyLit(m, c4)
    BY DEF Satisfies, AnyLit
  <1>3. Satisfies(m, {c1, c2, c3, c4}) <=>
              /\ LitValue(m, x1) \/ LitValue(m, x2) \/ LitValue(m, x3)
              /\ LitValue(m, y1) \/ LitValue(m, y2) \/ LitValue(m, y3)
              /\ LitValue(m, z1) \/ LitValue(m, z2) \/ LitValue(m, z3)
              /\ LitValue(m, u1) \/ LitValue(m, u2) \/ LitValue(m, u3)
    BY <1>1, <1>2
  <1> QED BY <1>3 DEF c1, c2, c3, c4, FourClauses

GateTag == {"and", "or", "nor", "nand", "xnor", "xor"}
Both(tag, f, g) == {a \in Assignment : Holds(tag, a \in f, a \in g, FALSE)}
Chosen(f, g, h) == {a \in Assignment : IF a \in f THEN a \in g ELSE a \in h}

(* The clauses of every operation on two literals.                         *)
LEMMA GateDefines ==
    ASSUME NEW cs, NEW n, NEW vs, NEW A, NEW P, NEW pend, NEW D,
           Sound(cs, n, vs, A, P, pend, D), NEW tag \in GateTag,
           NEW k, NEW f, <<k, f>> \in D, NEW l, NEW g, <<l, g>> \in D
    PROVE  /\ Gate(tag, k, l, n + 1) \subseteq SUBSET Lit(n + 1)
           /\ Defines(Gate(tag, k, l, n + 1), Both(tag, f, g), cs, n, vs)
  <1>1. n \in Nat
    BY DEF Sound, LitTypes
  <1> DEFINE o == n + 1
             no == -(n + 1)
             nk == -k
             nl == -l
  <1>2. o \in Lit(n + 1) /\ no \in Lit(n + 1)
    BY <1>1 DEF Lit
  <1>3. k \in Lit(n + 1) /\ nk \in Lit(n + 1) /\ l \in Lit(n + 1) /\ nl \in Lit(n + 1)
    <2>1. k \in Lit(n) /\ l \in Lit(n)
      BY DEF Sound, LitTypes
    <2> QED BY <1>1, <2>1 DEF Lit
  <1>4. Gate(tag, k, l, n + 1) =
          CASE tag = "and"  -> {{nk, nl, o}, {l, no}, {k, no}}
            [] tag = "or"   -> {{k, l, no}, {nl, o}, {nk, o}}
            [] tag = "nor"  -> {{k, l, o}, {nl, no}, {nk, no}}
            [] tag = "nand" -> {{nk, nl, no}, {l, o}, {k, o}}
            [] tag = "xnor" -> {{k, l, o}, {k, nl, no}, {nk, l, no}, {nk, nl, o}}
            [] tag = "xor"  -> {{k, l, no}, {k, nl, o}, {nk, l, o}, {nk, nl, no}}
    BY DEF Gate
  <1>5. ASSUME NEW m \in [1..n -> BOOLEAN], NEW a \in Assignment, NEW b \in BOOLEAN,
               Satisfies(m, cs), Agrees(m, vs, a)
        PROVE  /\ LitValue(More(m, n, b), k) <=> a \in f
               /\ LitValue(More(m, n, b), nk) <=> a \notin f
               /\ LitValue(More(m, n, b), l) <=> a \in g
               /\ LitValue(More(m, n, b), nl) <=> a \notin g
               /\ LitValue(More(m, n, b), o) <=> b
               /\ LitValue(More(m, n, b), no) <=> ~b
    BY <1>1, <1>5, KnownValue, OutValue
  <1> HIDE DEF o, no, nk, nl
  <1>6. Gate(tag, k, l, n + 1) \subseteq SUBSET Lit(n + 1)
    <2>1. CASE tag = "and" BY <1>2, <1>3, <1>4, <2>1
    <2>2. CASE tag = "or" BY <1>2, <1>3, <1>4, <2>2
    <2>3. CASE tag = "nor" BY <1>2, <1>3, <1>4, <2>3
    <2>4. CASE tag = "nand" BY <1>2, <1>3, <1>4, <2>4
    <2>5. CASE tag = "xnor" BY <1>2, <1>3, <1>4, <2>5
    <2>6. CASE tag = "xor" BY <1>2, <1>3, <1>4, <2>6
    <2> QED BY <2>1, <2>2, <2>3, <2>4, <2>5, <2>6 DEF GateTag
  <1>7. ASSUME NEW m \in [1..n -> BOOLEAN], NEW a \in Assignment, NEW b \in BOOLEAN,
               Satisfies(m, cs), Agrees(m, vs, a)
        PROVE  Satisfies(More(m, n, b), Gate(tag, k, l, n + 1)) <=> (b <=> a \in Both(tag, f, g))
    <2> DEFINE w == More(m, n, b)
    <2>1. /\ LitValue(w, k) <=> a \in f
          /\ LitValue(w, nk) <=> a \notin f
          /\ LitValue(w, l) <=> a \in g
          /\ LitValue(w, nl) <=> a \notin g
          /\ LitValue(w, o) <=> b
          /\ LitValue(w, no) <=> ~b
      BY <1>5, <1>7
    <2>2. a \in Both(tag, f, g) <=> Holds(tag, a \in f, a \in g, FALSE)
      BY DEF Both
    <2> HIDE DEF w
    <2>3. CASE tag = "and"
      <3>1. Satisfies(w, Gate(tag, k, l, n + 1)) <=>
               /\ LitValue(w, nk) \/ LitValue(w, nl) \/ LitValue(w, o)
               /\ LitValue(w, l) \/ LitValue(w, no)
               /\ LitValue(w, k) \/ LitValue(w, no)
        <4>1. Gate(tag, k, l, n + 1) = ThreeClauses(nk, nl, o, l, no, k, no)
          BY <1>4, <2>3 DEF ThreeClauses, FourClauses
        <4> QED BY <4>1, SatisfiesThree
      <3>2. Holds(tag, a \in f, a \in g, FALSE) <=> a \in f /\ a \in g
        BY <2>3 DEF Holds
      <3> QED BY <2>1, <2>2, <3>1, <3>2 DEF w
    <2>4. CASE tag = "or"
      <3>1. Satisfies(w, Gate(tag, k, l, n + 1)) <=>
               /\ LitValue(w, k) \/ LitValue(w, l) \/ LitValue(w, no)
               /\ LitValue(w, nl) \/ LitValue(w, o)
               /\ LitValue(w, nk) \/ LitValue(w, o)
        <4>1. Gate(tag, k, l, n + 1) = ThreeClauses(k, l, no, nl, o, nk, o)
          BY <1>4, <2>4 DEF ThreeClauses, FourClauses
        <4> QED BY <4>1, SatisfiesThree
      <3>2. Holds(tag, a \in f, a \in g, FALSE) <=> a \in f \/ a \in g
        BY <2>4 DEF Holds
      <3> QED BY <2>1, <2>2, <3>1, <3>2 DEF w
    <2>5. CASE tag = "nor"
      <3>1. Satisfies(w, Gate(tag, k, l, n + 1)) <=>
               /\ LitValue(w, k) \/ LitValue(w, l) \/ LitValue(w, o)
               /\ LitValue(w, nl) \/ LitValue(w, no)
               /\ LitValue(w, nk) \/ LitValue(w, no)
        <4>1. Gate(tag, k, l, n + 1) = ThreeClauses(k, l, o, nl, no, nk, no)
          BY <1>4, <2>5 DEF ThreeClauses, FourClauses
        <4> QED BY <4>1, SatisfiesThree
      <3>2. Holds(tag, a \in f, a \in g, FALSE) <=> ~(a \in f \/ a \in g)
        BY <2>5 DEF Holds
      <3> QED BY <2>1, <2>2, <3>1, <3>2 DEF w
    <2>6. CASE tag = "nand"
      <3>1. Satisfies(w, Gate(tag, k, l, n + 1)) <=>
               /\ LitValue(w, nk) \/ LitValue(w, nl) \/ LitValue(w, no)
               /\ LitValue(w, l) \/ LitValue(w, o)
               /\ LitValue(w, k) \/ LitValue(w, o)
        <4>1. Gate(tag, k, l, n + 1) = ThreeClauses(nk, nl, no, l, o, k, o)
          BY <1>4, <2>6 DEF ThreeClauses, FourClauses
        <4> QED BY <4>1, SatisfiesThree
      <3>2. Holds(tag, a \in f, a \in g, FALSE) <=> ~(a \in f /\ a \in g)
        BY <2>6 DEF Holds
      <3> QED BY <2>1, <2>2, <3>1, <3>2 DEF w
    <2>7. CASE tag = "xnor"
      <3>1. Satisfies(w, Gate(tag, k, l, n + 1)) <=>
               /\ LitValue(w, k) \/ LitValue(w, l) \/ LitValue(w, o)
               /\ LitValue(w, k) \/ LitValue(w, nl) \/ LitValue(w, no)
               /\ LitValue(w, nk) \/ LitValue(w, l) \/ LitValue(w, no)
               /\ LitValue(w, nk) \/ LitValue(w, nl) \/ LitValue(w, o)
        <4>1. Gate(tag, k, l, n + 1) = FourClauses(k, l, o, k, nl, no, nk, l, no, nk, nl, o)
          BY <1>4, <2>7 DEF ThreeClauses, FourClauses
        <4> QED BY <4>1, SatisfiesFour
      <3>2. Holds(tag, a \in f, a \in g, FALSE) <=> (a \in f <=> a \in g)
        BY <2>7 DEF Holds
      <3> QED BY <2>1, <2>2, <3>1, <3>2 DEF w
    <2>8. CASE tag = "xor"
      <3>1. Satisfies(w, Gate(tag, k, l, n + 1)) <=>
               /\ LitValue(w, k) \/ LitValue(w, l) \/ LitValue(w, no)
               /\ LitValue(w, k) \/ LitValue(w, nl) \/ LitValue(w, o)
               /\ LitValue(w, nk) \/ LitValue(w, l) \/ LitValue(w, o)
               /\ LitValue(w, nk) \/ LitValue(w, nl) \/ LitValue(w, no)
        <4>1. Gate(tag, k, l, n + 1) = FourClauses(k, l, no, k, nl, o, nk, l, o, nk, nl, no)
          BY <1>4, <2>8 DEF ThreeClauses, FourClauses
        <4> QED BY <4>1, SatisfiesFour
      <3>2. Holds(tag, a \in f, a \in g, FALSE) <=> ~(a \in f <=> a \in g)
        BY <2>8 DEF Holds
      <3> QED BY <2>1, <2>2, <3>1, <3>2 DEF w
    <2> QED BY <2>3, <2>4, <2>5, <2>6, <2>7, <2>8 DEF GateTag
  <1>8. Defines(Gate(tag, k, l, n + 1), Both(tag, f, g), cs, n, vs)
    BY <1>7 DEF Defines
  <1> QED BY <1>6, <1>8

(* The clauses of an if-then-else.                                         *)
LEMMA IteDefines ==
    ASSUME NEW cs, NEW n, NEW vs, NEW A, NEW P, NEW pend, NEW D,
           Sound(cs, n, vs, A, P, pend, D),
           NEW i, NEW f, <<i, f>> \in D, NEW t, NEW g, <<t, g>> \in D,
           NEW e, NEW h, <<e, h>> \in D
    PROVE  /\ IteGate(i, t, e, n + 1) \subseteq SUBSET Lit(n + 1)
           /\ Defines(IteGate(i, t, e, n + 1), Chosen(f, g, h), cs, n, vs)
  <1>1. n \in Nat
    BY DEF Sound, LitTypes
  <1> DEFINE o == n + 1
             no == -(n + 1)
             ni == -i
             nt == -t
             ne == -e
  <1>2. o \in Lit(n + 1) /\ no \in Lit(n + 1)
    BY <1>1 DEF Lit
  <1>3. /\ i \in Lit(n + 1) /\ ni \in Lit(n + 1) /\ t \in Lit(n + 1) /\ nt \in Lit(n + 1)
        /\ e \in Lit(n + 1) /\ ne \in Lit(n + 1)
    <2>1. i \in Lit(n) /\ t \in Lit(n) /\ e \in Lit(n)
      BY DEF Sound, LitTypes
    <2> QED BY <1>1, <2>1 DEF Lit
  <1>4. IteGate(i, t, e, n + 1) = {{i, e, no}, {i, ne, o}, {ni, t, no}, {ni, nt, o}}
    BY DEF IteGate
  <1>5. ASSUME NEW m \in [1..n -> BOOLEAN], NEW a \in Assignment, NEW b \in BOOLEAN,
               Satisfies(m, cs), Agrees(m, vs, a)
        PROVE  /\ LitValue(More(m, n, b), i) <=> a \in f
               /\ LitValue(More(m, n, b), ni) <=> a \notin f
               /\ LitValue(More(m, n, b), t) <=> a \in g
               /\ LitValue(More(m, n, b), nt) <=> a \notin g
               /\ LitValue(More(m, n, b), e) <=> a \in h
               /\ LitValue(More(m, n, b), ne) <=> a \notin h
               /\ LitValue(More(m, n, b), o) <=> b
               /\ LitValue(More(m, n, b), no) <=> ~b
    BY <1>1, <1>5, KnownValue, OutValue
  <1> HIDE DEF o, no, ni, nt, ne
  <1>6. IteGate(i, t, e, n + 1) \subseteq SUBSET Lit(n + 1)
    BY <1>2, <1>3, <1>4
  <1>7. ASSUME NEW m \in [1..n -> BOOLEAN], NEW a \in Assignment, NEW b \in BOOLEAN,
               Satisfies(m, cs), Agrees(m, vs, a)
        PROVE  Satisfies(More(m, n, b), IteGate(i, t, e, n + 1)) <=> (b <=> a \in Chosen(f, g, h))
    <2> DEFINE w == More(m, n, b)
    <2>1. /\ LitValue(w, i) <=> a \in f
          /\ LitValue(w, ni) <=> a \notin f
          /\ LitValue(w, t) <=> a \in g
          /\ LitValue(w, nt) <=> a \notin g
          /\ LitValue(w, e) <=> a \in h
          /\ LitValue(w, ne) <=> a \notin h
          /\ LitValue(w, o) <=> b
          /\ LitValue(w, no) <=> ~b
      BY <1>5, <1>7
    <2>2. a \in Chosen(f, g, h) <=> IF a \in f THEN a \in g ELSE a \in h
      BY DEF Chosen
    <2> HIDE DEF w
    <2>3. Satisfies(w, IteGate(i, t, e, n + 1)) <=>
             /\ LitValue(w, i) \/ LitValue(w, e) \/ LitValue(w, no)
             /\ LitValue(w, i) \/ LitValue(w, ne) \/ LitValue(w, o)
             /\ LitValue(w, ni) \/ LitValue(w, t) \/ LitValue(w, no)
             /\ LitValue(w, ni) \/ LitValue(w, nt) \/ LitValue(w, o)
      <3>1. IteGate(i, t, e, n + 1) = FourClauses(i, e, no, i, ne, o, ni, t, no, ni, nt, o)
        BY <1>4 DEF FourClauses
      <3> QED BY <3>1, SatisfiesFour
    <2> QED BY <2>1, <2>2, <2>3 DEF w
  <1>8. Defines(IteGate(i, t, e, n + 1), Chosen(f, g, h), cs, n, vs)
    BY <1>7 DEF Defines
  <1> QED BY <1>6, <1>8

(* A negated literal has the other assignments.                            *)
LEMMA NegationSound ==
    ASSUME NEW cs, NEW n, NEW vs, NEW A, NEW P, NEW pend, NEW D,
           Sound(cs, n, vs, A, P, pend, D), NEW l, NEW f, <<l, f>> \in D
    PROVE  Sound(cs, n, vs, A, P, pend, D \union {<<-l, Assignment \ f>>})
  <1>1. n \in Nat /\ l \in Lit(n) /\ f \in SUBSET Assignment
    BY DEF Sound, LitTypes
  <1>2. -l \in Lit(n)
    BY <1>1 DEF Lit
  <1> DEFINE g == Assignment \ f
             nl == -l
  <1>3. g \in SUBSET Assignment
    OBVIOUS
  <1>4. LitTypes(cs, n, vs, A, P, pend, D \union {<<nl, g>>})
    <2> HIDE DEF g
    <2> QED BY <1>2, <1>3 DEF Sound, LitTypes
  <1>5. Exact(cs, n, vs, A, P, pend, D \union {<<nl, g>>})
    <2> SUFFICES ASSUME NEW m \in [1..n -> BOOLEAN], NEW a \in Assignment,
                        Satisfies(m, cs), Agrees(m, vs, a)
                 PROVE  /\ a \in A
                        /\ \A d \in D \union {<<nl, g>>} : LitValue(m, d[1]) <=> a \in d[2]
                        /\ a \in P <=> \A k \in pend : LitValue(m, k)
      BY DEF Exact
    <2>1. /\ a \in A
          /\ \A d \in D : LitValue(m, d[1]) <=> a \in d[2]
          /\ a \in P <=> \A k \in pend : LitValue(m, k)
      BY DEF Sound, Exact
    <2>2. LitValue(m, <<l, f>>[1]) <=> a \in <<l, f>>[2]
      BY <2>1
    <2>3. LitValue(m, nl) <=> ~LitValue(m, l)
      BY <1>1, LitValueBool
    <2>4. LitValue(m, nl) <=> a \in g
      BY <2>2, <2>3
    <2> HIDE DEF g, nl
    <2>5. LitValue(m, <<nl, g>>[1]) <=> a \in <<nl, g>>[2]
      BY <2>4
    <2> QED BY <2>1, <2>5
  <1> QED BY <1>4, <1>5 DEF Sound

(***************************************************************************)
(* The wrappers of the SAT libraries.                                      *)
(***************************************************************************)
LEMMA WrapperClauses ==
    ASSUME NEW lib, NEW w, IsWrapper(lib, w), NEW cs
    PROVE  /\ IsWrapper(lib, Clauses(lib, w, cs))
           /\ Solved(Clauses(lib, w, cs)) = Solved(w) \union cs
           /\ Pending(Clauses(lib, w, cs)) = Pending(w)
           /\ Clauses(lib, w, cs).last = w.last
  BY DEF IsWrapper, Clauses, Solved, Pending

LEMMA WrapperAssume ==
    ASSUME NEW lib, NEW w, IsWrapper(lib, w), NEW ls
    PROVE  /\ IsWrapper(lib, AssumeLits(lib, w, ls))
           /\ Solved(AssumeLits(lib, w, ls)) = Solved(w)
           /\ Pending(AssumeLits(lib, w, ls)) = Pending(w) \union ls
           /\ AssumeLits(lib, w, ls).last = w.last
  BY DEF IsWrapper, AssumeLits, Solved, Pending

LEMMA WrapperNewVar ==
    ASSUME NEW lib, NEW w, IsWrapper(lib, w)
    PROVE  /\ IsWrapper(lib, NewVarId(w))
           /\ Solved(NewVarId(w)) = Solved(w)
           /\ Pending(NewVarId(w)) = Pending(w)
           /\ NewVarId(w).last = w.last + 1
  BY DEF IsWrapper, NewVarId, Solved, Pending

LEMMA WrapperModels ==
    ASSUME NEW lib, NEW w, IsWrapper(lib, w)
    PROVE  SatModels(lib, w) = Models(Solved(w) \union Units(Pending(w)), w.last)
  <1>1. Flush(lib, w).clauses = Solved(w) /\ Flush(lib, w).assumed = Pending(w)
    BY DEF IsWrapper, Flush, Solved, Pending
  <1> QED BY <1>1 DEF SatModels

(* After solve() nothing is pending, or MiniSAT has found out that there   *)
(* is no model at all.                                                     *)
LEMMA WrapperSolved ==
    ASSUME NEW lib, NEW w, IsWrapper(lib, w)
    PROVE  /\ IsWrapper(lib, SatSolved(lib, w))
           /\ Solved(SatSolved(lib, w)) = Solved(w)
           /\ SatSolved(lib, w).last = w.last
           /\ \/ Pending(SatSolved(lib, w)) = {}
              \/ Pending(SatSolved(lib, w)) = Pending(w) /\ Models(Solved(w), w.last) = {}
  <1>1. CASE lib = "MiniSAT" /\ Models(w.clauses, w.last) = {}
    <2>1. SatSolved(lib, w) = w
      BY <1>1 DEF SatSolved
    <2>2. Solved(w) = w.clauses
      BY <1>1 DEF IsWrapper, Solved
    <2> QED BY <1>1, <2>1, <2>2
  <1>2. CASE ~(lib = "MiniSAT" /\ Models(w.clauses, w.last) = {})
    <2>1. SatSolved(lib, w) = [Flush(lib, w) EXCEPT !.assumed = {}]
      BY <1>2 DEF SatSolved
    <2> QED BY <2>1 DEF IsWrapper, Flush, Solved, Pending
  <1> QED BY <1>1, <1>2

(***************************************************************************)
(* SAT_Clause.                                                             *)
(***************************************************************************)
AllTag == {"true", "false", "not", "ite"} \union PredicateTag \union EqualityTag
Meant(tag, f, g, h) == {a \in Assignment : Holds(tag, a \in f, a \in g, a \in h)}

(* The literals of the operands, and what they mean.                       *)
OperandsIn(tag, args, f, g, h, D) ==
    /\ f \in SUBSET Assignment /\ g \in SUBSET Assignment /\ h \in SUBSET Assignment
    /\ Arity(tag) >= 1 => <<args[1], f>> \in D
    /\ Arity(tag) >= 2 => <<args[2], g>> \in D
    /\ Arity(tag) >= 3 => <<args[3], h>> \in D

LEMMA MeantCases ==
    ASSUME NEW f, NEW g, NEW h, NEW tag
    PROVE  /\ tag = "true" => Meant(tag, f, g, h) = Assignment
           /\ tag = "false" => Meant(tag, f, g, h) = {}
           /\ tag = "not" => Meant(tag, f, g, h) = Assignment \ f
           /\ tag = "ite" => Meant(tag, f, g, h) = Chosen(f, g, h)
           /\ tag = "implies" => Meant(tag, f, g, h) = Chosen(f, g, Assignment)
           /\ tag = "equal" => Meant(tag, f, g, h) = Both("xnor", f, g)
           /\ tag \in {"nequal", "distinct"} => Meant(tag, f, g, h) = Both("xor", f, g)
           /\ tag \in GateTag => Meant(tag, f, g, h) = Both(tag, f, g)
  <1>1. tag = "true" => Meant(tag, f, g, h) = Assignment BY DEF Meant, Holds
  <1>2. tag = "false" => Meant(tag, f, g, h) = {} BY DEF Meant, Holds
  <1>3. tag = "not" => Meant(tag, f, g, h) = Assignment \ f BY DEF Meant, Holds
  <1>4. tag = "ite" => Meant(tag, f, g, h) = Chosen(f, g, h) BY DEF Meant, Holds, Chosen
  <1>5. tag = "implies" => Meant(tag, f, g, h) = Chosen(f, g, Assignment)
    BY DEF Meant, Holds, Chosen
  <1>6. tag = "equal" => Meant(tag, f, g, h) = Both("xnor", f, g) BY DEF Meant, Holds, Both
  <1>7. tag \in {"nequal", "distinct"} => Meant(tag, f, g, h) = Both("xor", f, g)
    BY DEF Meant, Holds, Both
  <1>8. tag \in GateTag => Meant(tag, f, g, h) = Both(tag, f, g)
    BY DEF Meant, Holds, Both, GateTag
  <1> QED BY <1>1, <1>2, <1>3, <1>4, <1>5, <1>6, <1>7, <1>8

(* Whether an assignment is meant, by the operands that it satisfies.      *)
LEMMA MeantAt ==
    ASSUME NEW f, NEW g, NEW h, NEW tag, NEW a
    PROVE  /\ a \in Meant(tag, f, g, h) => a \in Assignment
           /\ a \in Assignment =>
                /\ tag = "true" => a \in Meant(tag, f, g, h)
                /\ tag = "false" => a \notin Meant(tag, f, g, h)
                /\ tag = "not" => (a \in Meant(tag, f, g, h) <=> a \notin f)
                /\ tag = "ite" => (a \in Meant(tag, f, g, h) <=> (a \in f /\ a \in g) \/ (a \notin f /\ a \in h))
                /\ tag = "and" => (a \in Meant(tag, f, g, h) <=> a \in f /\ a \in g)
                /\ tag = "nand" => (a \in Meant(tag, f, g, h) <=> ~(a \in f /\ a \in g))
                /\ tag = "or" => (a \in Meant(tag, f, g, h) <=> a \in f \/ a \in g)
                /\ tag = "nor" => (a \in Meant(tag, f, g, h) <=> ~(a \in f \/ a \in g))
                /\ tag = "implies" => (a \in Meant(tag, f, g, h) <=> a \notin f \/ a \in g)
                /\ tag \in {"xor", "nequal", "distinct"} => (a \in Meant(tag, f, g, h) <=> ~(a \in f <=> a \in g))
                /\ tag \in {"xnor", "equal"} => (a \in Meant(tag, f, g, h) <=> (a \in f <=> a \in g))
  <1>1. a \in Meant(tag, f, g, h) <=> a \in Assignment /\ Holds(tag, a \in f, a \in g, a \in h)
    BY DEF Meant
  <1> DEFINE H == Holds(tag, a \in f, a \in g, a \in h)
  <1>2. /\ tag = "true" => H
        /\ tag = "false" => ~H
        /\ tag = "not" => (H <=> a \notin f)
        /\ tag = "ite" => (H <=> (a \in f /\ a \in g) \/ (a \notin f /\ a \in h))
        /\ tag = "and" => (H <=> a \in f /\ a \in g)
        /\ tag = "nand" => (H <=> ~(a \in f /\ a \in g))
        /\ tag = "or" => (H <=> a \in f \/ a \in g)
        /\ tag = "nor" => (H <=> ~(a \in f \/ a \in g))
        /\ tag = "implies" => (H <=> a \notin f \/ a \in g)
    BY DEF Holds
  <1>3. tag \in {"xor", "nequal", "distinct"} => (H <=> ~(a \in f <=> a \in g))
    <2>1. CASE tag = "xor" BY <2>1 DEF Holds
    <2>2. CASE tag = "nequal" BY <2>2 DEF Holds
    <2>3. CASE tag = "distinct" BY <2>3 DEF Holds
    <2> HIDE DEF H
    <2> QED BY <2>1, <2>2, <2>3
  <1>4. tag \in {"xnor", "equal"} => (H <=> (a \in f <=> a \in g))
    <2>1. CASE tag = "xnor" BY <2>1 DEF Holds
    <2>2. CASE tag = "equal" BY <2>2 DEF Holds
    <2> HIDE DEF H
    <2> QED BY <2>1, <2>2
  <1> HIDE DEF H
  <1>5. a \in Meant(tag, f, g, h) <=> a \in Assignment /\ H
    BY <1>1 DEF H
  <1> QED BY <1>2, <1>3, <1>4, <1>5

LEMMA ArityCases ==
    ASSUME NEW tag \in AllTag
    PROVE  /\ Arity(tag) \in 0..3
           /\ Arity(tag) = 0 <=> tag \in {"true", "false"}
           /\ Arity(tag) = 1 <=> tag = "not"
           /\ Arity(tag) = 3 <=> tag = "ite"
           /\ Arity(tag) = 2 <=> tag \in GateTag \union EqualityTag \union {"implies"}
           /\ tag \in {"true", "false", "not", "ite", "implies"} \union GateTag \union EqualityTag
  BY DEF AllTag, Arity, PredicateTag, EqualityTag, GateTag

(* The gate of a new variable is handed to the library.                    *)
LEMMA DefinedSound ==
    ASSUME NEW lib, NEW w, IsWrapper(lib, w), NEW vs, NEW A, NEW P, NEW D,
           Sound(Solved(w), w.last, vs, A, P, Pending(w), D),
           NEW gs, gs \subseteq SUBSET Lit(w.last + 1), NEW f \in SUBSET Assignment,
           Defines(gs, f, Solved(w), w.last, vs), NEW t, t = Clauses(lib, NewVarId(w), gs)
    PROVE  /\ IsWrapper(lib, t)
           /\ Sound(Solved(t), t.last, vs, A, P, Pending(t), D \union {<<w.last + 1, f>>})
  <1>1. /\ IsWrapper(lib, NewVarId(w)) /\ Solved(NewVarId(w)) = Solved(w)
        /\ Pending(NewVarId(w)) = Pending(w) /\ NewVarId(w).last = w.last + 1
    BY WrapperNewVar
  <1>2. /\ IsWrapper(lib, t) /\ Solved(t) = Solved(w) \union gs
        /\ Pending(t) = Pending(w) /\ t.last = w.last + 1
    BY <1>1, WrapperClauses
  <1>3. Sound(Solved(w) \union gs, w.last + 1, vs, A, P, Pending(w), D \union {<<w.last + 1, f>>})
    BY GateSound
  <1> QED BY <1>2, <1>3

(* Every operation returns a literal that means what SMT-LIB says.         *)
LEMMA ClauseOpSound ==
    ASSUME NEW lib, NEW w, IsWrapper(lib, w), NEW vs, NEW A, NEW P, NEW D,
           Sound(Solved(w), w.last, vs, A, P, Pending(w), D), <<TrueLit, Assignment>> \in D,
           NEW tag \in AllTag, NEW args, NEW f, NEW g, NEW h, OperandsIn(tag, args, f, g, h, D),
           NEW r, r = ClauseOp(lib, w, tag, args)
    PROVE  /\ IsWrapper(lib, r.s)
           /\ Sound(Solved(r.s), r.s.last, vs, A, P, Pending(r.s),
                    D \union {<<r.result, Meant(tag, f, g, h)>>})
  <1>1. f \in SUBSET Assignment /\ g \in SUBSET Assignment /\ h \in SUBSET Assignment
    BY DEF OperandsIn
  <1>12. /\ tag = "true" => Meant(tag, f, g, h) = Assignment
         /\ tag = "false" => Meant(tag, f, g, h) = {}
         /\ tag = "not" => Meant(tag, f, g, h) = Assignment \ f
         /\ tag = "ite" => Meant(tag, f, g, h) = Chosen(f, g, h)
         /\ tag = "implies" => Meant(tag, f, g, h) = Chosen(f, g, Assignment)
         /\ tag = "equal" => Meant(tag, f, g, h) = Both("xnor", f, g)
         /\ tag \in {"nequal", "distinct"} => Meant(tag, f, g, h) = Both("xor", f, g)
         /\ tag \in GateTag => Meant(tag, f, g, h) = Both(tag, f, g)
    BY MeantCases
  <1>2. CASE tag = "true"
    <2>1. r = Built(w, TrueLit)
      BY <1>2 DEF ClauseOp
    <2>2. r.s = w /\ r.result = TrueLit /\ Meant(tag, f, g, h) = Assignment
      BY <1>2, <1>12, <2>1 DEF Built
    <2>3. D \union {<<r.result, Meant(tag, f, g, h)>>} = D
      BY <2>2
    <2> QED BY <2>2, <2>3
  <1>3. CASE tag = "false"
    <2>1. r = Built(w, -TrueLit)
      BY <1>3 DEF ClauseOp
    <2>2. r.s = w /\ r.result = -TrueLit /\ Meant(tag, f, g, h) = Assignment \ Assignment
      BY <1>3, <1>12, <2>1 DEF Built
    <2>3. Sound(Solved(w), w.last, vs, A, P, Pending(w), D \union {<<-TrueLit, Assignment \ Assignment>>})
      BY NegationSound
    <2> QED BY <2>2, <2>3
  <1>4. CASE tag = "not"
    <2>1. r = Built(w, -args[1])
      BY <1>4 DEF ClauseOp
    <2>2. r.s = w /\ r.result = -args[1] /\ Meant(tag, f, g, h) = Assignment \ f
      BY <1>4, <1>12, <2>1 DEF Built
    <2>3. <<args[1], f>> \in D
      BY <1>4 DEF OperandsIn, Arity
    <2>4. Sound(Solved(w), w.last, vs, A, P, Pending(w), D \union {<<-args[1], Assignment \ f>>})
      BY <2>3, NegationSound
    <2> QED BY <2>2, <2>4
  <1>5. ASSUME NEW gate \in GateTag,
               r = Built(Clauses(lib, NewVarId(w), Gate(gate, args[1], args[2], w.last + 1)), w.last + 1),
               Meant(tag, f, g, h) = Both(gate, f, g), Arity(tag) = 2
        PROVE  /\ IsWrapper(lib, r.s)
               /\ Sound(Solved(r.s), r.s.last, vs, A, P, Pending(r.s),
                    D \union {<<r.result, Meant(tag, f, g, h)>>})
    <2> DEFINE gs == Gate(gate, args[1], args[2], w.last + 1)
    <2>1. <<args[1], f>> \in D /\ <<args[2], g>> \in D
      BY <1>5 DEF OperandsIn
    <2>2. gs \subseteq SUBSET Lit(w.last + 1) /\ Defines(gs, Both(gate, f, g), Solved(w), w.last, vs)
      BY <2>1, GateDefines
    <2>3. Both(gate, f, g) \in SUBSET Assignment
      BY DEF Both
    <2>4. r.s = Clauses(lib, NewVarId(w), gs) /\ r.result = w.last + 1
      BY <1>5 DEF Built
    <2> HIDE DEF gs
    <2> QED BY <1>5, <2>2, <2>3, <2>4, DefinedSound
  <1>6. ASSUME NEW e, NEW k, <<e, k>> \in D,
               r = Built(Clauses(lib, NewVarId(w), IteGate(args[1], args[2], e, w.last + 1)), w.last + 1),
               Meant(tag, f, g, h) = Chosen(f, g, k), Arity(tag) >= 2, Arity(tag) \in 0..3
        PROVE  /\ IsWrapper(lib, r.s)
               /\ Sound(Solved(r.s), r.s.last, vs, A, P, Pending(r.s),
                    D \union {<<r.result, Meant(tag, f, g, h)>>})
    <2> DEFINE gs == IteGate(args[1], args[2], e, w.last + 1)
    <2>1. <<args[1], f>> \in D /\ <<args[2], g>> \in D
      BY <1>6 DEF OperandsIn
    <2>2. gs \subseteq SUBSET Lit(w.last + 1) /\ Defines(gs, Chosen(f, g, k), Solved(w), w.last, vs)
      BY <1>6, <2>1, IteDefines
    <2>3. Chosen(f, g, k) \in SUBSET Assignment
      BY DEF Chosen
    <2>4. r.s = Clauses(lib, NewVarId(w), gs) /\ r.result = w.last + 1
      BY <1>6 DEF Built
    <2> HIDE DEF gs
    <2> QED BY <1>6, <2>2, <2>3, <2>4, DefinedSound
  <1>7. CASE tag \in GateTag
    <2>1. r = Built(Clauses(lib, NewVarId(w), Gate(tag, args[1], args[2], w.last + 1)), w.last + 1)
      BY <1>7 DEF ClauseOp, GateTag
    <2>2. Meant(tag, f, g, h) = Both(tag, f, g)
      BY <1>7, <1>12
    <2>3. Arity(tag) = 2
      BY <1>7, ArityCases
    <2> QED BY <1>5, <1>7, <2>1, <2>2, <2>3
  <1>8. CASE tag = "equal"
    <2>1. r = Built(Clauses(lib, NewVarId(w), Gate("xnor", args[1], args[2], w.last + 1)), w.last + 1)
      BY <1>8 DEF ClauseOp
    <2>2. Meant(tag, f, g, h) = Both("xnor", f, g)
      BY <1>8, <1>12
    <2>3. Arity(tag) = 2 /\ "xnor" \in GateTag
      BY <1>8 DEF Arity, GateTag
    <2> QED BY <1>5, <2>1, <2>2, <2>3
  <1>9. CASE tag \in {"nequal", "distinct"}
    <2>1. r = Built(Clauses(lib, NewVarId(w), Gate("xor", args[1], args[2], w.last + 1)), w.last + 1)
      BY <1>9 DEF ClauseOp
    <2>2. Meant(tag, f, g, h) = Both("xor", f, g)
      BY <1>9, <1>12
    <2>3. Arity(tag) = 2 /\ "xor" \in GateTag
      BY <1>9 DEF Arity, GateTag
    <2> QED BY <1>5, <2>1, <2>2, <2>3
  <1>10. CASE tag = "implies"
    <2>1. r = Built(Clauses(lib, NewVarId(w), IteGate(args[1], args[2], TrueLit, w.last + 1)), w.last + 1)
      BY <1>10 DEF ClauseOp
    <2>2. Meant(tag, f, g, h) = Chosen(f, g, Assignment)
      BY <1>10, <1>12
    <2>3. Arity(tag) = 2
      BY <1>10 DEF Arity
    <2> QED BY <1>6, <2>1, <2>2, <2>3
  <1>11. CASE tag = "ite"
    <2>1. r = Built(Clauses(lib, NewVarId(w), IteGate(args[1], args[2], args[3], w.last + 1)), w.last + 1)
      BY <1>11 DEF ClauseOp
    <2>2. Meant(tag, f, g, h) = Chosen(f, g, h)
      BY <1>11, <1>12
    <2>3. Arity(tag) = 3
      BY <1>11 DEF Arity
    <2>4. <<args[3], h>> \in D
      BY <2>3 DEF OperandsIn
    <2> QED BY <1>6, <2>1, <2>2, <2>3, <2>4
  <1> QED BY <1>2, <1>3, <1>4, <1>7, <1>8, <1>9, <1>10, <1>11, ArityCases DEF EqualityTag

(* The formulas and their results: one more is appended.                   *)
Formulas(rs, ms) == ms \in Seq(SUBSET Assignment) /\ rs = [k \in DOMAIN ms |-> rs[k]]
LEMMA DenotedGrows ==
    ASSUME NEW rs, NEW ms, Formulas(rs, ms), NEW r, NEW f \in SUBSET Assignment
    PROVE  /\ Denoted(Append(rs, r), Append(ms, f)) = Denoted(rs, ms) \union {<<r, f>>}
           /\ Formulas(Append(rs, r), Append(ms, f))
           /\ DOMAIN Append(ms, f) = DOMAIN ms \union {Len(ms) + 1}
           /\ Append(ms, f)[Len(ms) + 1] = f /\ Append(rs, r)[Len(ms) + 1] = r
           /\ \A k \in DOMAIN ms : Append(ms, f)[k] = ms[k] /\ Append(rs, r)[k] = rs[k]
  <1> DEFINE n == Len(ms)
  <1>0. ms \in Seq(SUBSET Assignment) /\ rs = [k \in DOMAIN ms |-> rs[k]]
    BY DEF Formulas
  <1>1. n \in Nat /\ DOMAIN ms = 1..n
    BY <1>0
  <1>2. Append(ms, f) \in Seq(SUBSET Assignment) /\ DOMAIN Append(ms, f) = 1..(n + 1)
    BY <1>0
  <1>3. Append(ms, f)[n + 1] = f /\ \A k \in 1..n : Append(ms, f)[k] = ms[k]
    BY <1>0
  <1> DEFINE S == {rs[k] : k \in DOMAIN ms} \union {r}
  <1>4. rs \in Seq(S) /\ Len(rs) = n /\ r \in S
    <2>1. rs \in [1..n -> S]
      BY <1>0, <1>1
    <2> QED BY <1>1, <2>1
  <1> HIDE DEF S
  <1>5. /\ Append(rs, r) = [k \in 1..(n + 1) |-> Append(rs, r)[k]]
        /\ Append(rs, r)[n + 1] = r /\ \A k \in 1..n : Append(rs, r)[k] = rs[k]
    <2>1. Append(rs, r) \in Seq(S) /\ Len(Append(rs, r)) = n + 1
      BY <1>1, <1>4
    <2>2. Append(rs, r) = [k \in 1..(n + 1) |-> Append(rs, r)[k]]
      <3> DEFINE q == Append(rs, r)
      <3> HIDE DEF q
      <3>1. q \in Seq(S) /\ Len(q) = n + 1
        BY <2>1 DEF q
      <3>2. q \in [1..(n + 1) -> S]
        BY <3>1
      <3> QED BY <3>2 DEF q
    <2>3. Append(rs, r)[n + 1] = r /\ \A k \in 1..n : Append(rs, r)[k] = rs[k]
      BY <1>1, <1>4
    <2> QED BY <2>2, <2>3
  <1>6. 1..(n + 1) = 1..n \union {n + 1}
    BY <1>1
  <1> DEFINE nr == Append(rs, r)
             nm == Append(ms, f)
  <1> HIDE DEF nr, nm, n
  <1>7. DOMAIN nm = 1..n \union {n + 1} /\ nm[n + 1] = f /\ nr[n + 1] = r
        /\ \A k \in 1..n : nm[k] = ms[k] /\ nr[k] = rs[k]
    BY <1>2, <1>3, <1>5, <1>6 DEF nr, nm
  <1>8. {<<nr[k], nm[k]>> : k \in DOMAIN nm} = {<<rs[k], ms[k]>> : k \in DOMAIN ms} \union {<<r, f>>}
    BY <1>1, <1>7
  <1>9. Denoted(nr, nm) = Denoted(rs, ms) \union {<<r, f>>}
    BY <1>8 DEF Denoted
  <1> QED BY <1>1, <1>2, <1>3, <1>5, <1>6, <1>9 DEF nr, nm, n, Formulas

(* The meanings of the operands of an operation.                           *)
Nth(ms, args, i) == IF i <= Len(args) THEN ms[args[i]] ELSE {}
LEMMA NthOperand ==
    ASSUME NEW tag \in AllTag, NEW ms \in Seq(SUBSET Assignment),
           NEW args \in [1..Arity(tag) -> DOMAIN ms]
    PROVE  /\ Len(args) = Arity(tag) /\ DOMAIN args = 1..Arity(tag)
           /\ \A i \in 1..3 : Nth(ms, args, i) \in SUBSET Assignment
           /\ \A i \in 1..3 : i <= Arity(tag) =>
                 args[i] \in DOMAIN ms /\ i \in DOMAIN args /\ Nth(ms, args, i) = ms[args[i]]
  <1>1. Arity(tag) \in Nat
    BY ArityCases
  <1>2. Len(args) = Arity(tag) /\ DOMAIN args = 1..Arity(tag)
    BY <1>1
  <1>3. \A k \in DOMAIN ms : ms[k] \in SUBSET Assignment
    OBVIOUS
  <1>4. \A i \in 1..3 : i <= Arity(tag) =>
           args[i] \in DOMAIN ms /\ i \in DOMAIN args /\ Nth(ms, args, i) = ms[args[i]]
    BY <1>1, <1>2 DEF Nth
  <1>5. \A i \in 1..3 : ~(i <= Arity(tag)) => Nth(ms, args, i) = {}
    BY <1>1, <1>2 DEF Nth
  <1> QED BY <1>2, <1>3, <1>4, <1>5

LEMMA OperandsDenoted ==
    ASSUME NEW tag \in AllTag, NEW ms \in Seq(SUBSET Assignment), NEW rs,
           NEW args \in [1..Arity(tag) -> DOMAIN ms],
           NEW ls, ls = [i \in DOMAIN args |-> rs[args[i]]]
    PROVE  OperandsIn(tag, ls, Nth(ms, args, 1), Nth(ms, args, 2), Nth(ms, args, 3), Denoted(rs, ms))
  <1>1. \A k \in DOMAIN ms : <<rs[k], ms[k]>> \in Denoted(rs, ms)
    BY DEF Denoted
  <1>2. \A i \in 1..3 : i <= Arity(tag) => <<ls[i], Nth(ms, args, i)>> \in Denoted(rs, ms)
    <2> TAKE i \in 1..3
    <2> HAVE i <= Arity(tag)
    <2>1. args[i] \in DOMAIN ms /\ i \in DOMAIN args /\ Nth(ms, args, i) = ms[args[i]]
      BY NthOperand
    <2>2. ls[i] = rs[args[i]]
      BY <2>1
    <2> QED BY <1>1, <2>1, <2>2
  <1>3. \A i \in 1..3 : Nth(ms, args, i) \in SUBSET Assignment
    BY NthOperand
  <1>4. Arity(tag) \in 0..3
    BY ArityCases
  <1>5. 1 \in 1..3 /\ 2 \in 1..3 /\ 3 \in 1..3
    OBVIOUS
  <1>6. (Arity(tag) >= 1 => 1 <= Arity(tag)) /\ (Arity(tag) >= 2 => 2 <= Arity(tag)) /\ (Arity(tag) >= 3 => 3 <= Arity(tag))
    BY <1>4
  <1> QED BY <1>2, <1>3, <1>5, <1>6 DEF OperandsIn

NoVariables == [v \in {} |-> 0]
WithVariable(vs, v, r) == [w \in DOMAIN vs \union {v} |-> IF w = v THEN r ELSE vs[w]]

LEMMA UnitSound ==
    Sound({{TrueLit}}, 1, NoVariables, Assignment, Assignment, {}, {<<TrueLit, Assignment>>})
  <1>1. TrueLit \in Lit(1) /\ ~(TrueLit < 0) /\ TrueLit = 1
    BY DEF TrueLit, Lit
  <1>2. LitTypes({{TrueLit}}, 1, NoVariables, Assignment, Assignment, {}, {<<TrueLit, Assignment>>})
    BY <1>1 DEF LitTypes, NoVariables
  <1>3. \A m : Satisfies(m, {{TrueLit}}) <=> LitValue(m, TrueLit)
    BY DEF Satisfies
  <1>4. \A m, a : Agrees(m, NoVariables, a)
    BY DEF Agrees, NoVariables
  <1>5. Realized({{TrueLit}}, 1, NoVariables, Assignment)
    <2> DEFINE m == [i \in 1..1 |-> TRUE]
    <2>1. m \in [1..1 -> BOOLEAN] /\ LitValue(m, TrueLit)
      BY <1>1 DEF LitValue
    <2> HIDE DEF m
    <2> QED BY <1>3, <1>4, <2>1 DEF Realized
  <1>6. Exact({{TrueLit}}, 1, NoVariables, Assignment, Assignment, {}, {<<TrueLit, Assignment>>})
    BY <1>3 DEF Exact
  <1> QED BY <1>2, <1>5, <1>6 DEF Sound

LEMMA ClauseInitOK ==
    ASSUME NEW lib
    PROVE  ClauseOK(lib, ClauseInit(lib), NoVariables, Assignment, Assignment, <<>>, <<>>)
  <1>1. /\ IsWrapper(lib, Wrapper) /\ Solved(Wrapper) = {} /\ Pending(Wrapper) = {}
        /\ Wrapper.last = 0
    BY DEF Wrapper, IsWrapper, Solved, Pending
  <1>2. /\ IsWrapper(lib, NewVarId(Wrapper)) /\ Solved(NewVarId(Wrapper)) = {}
        /\ Pending(NewVarId(Wrapper)) = {} /\ NewVarId(Wrapper).last = 1
    BY <1>1, WrapperNewVar
  <1>3. ClauseInit(lib) = Clauses(lib, NewVarId(Wrapper), {{TrueLit}})
    BY DEF ClauseInit, AssertLit, Clause
  <1>4. /\ IsWrapper(lib, ClauseInit(lib)) /\ Solved(ClauseInit(lib)) = {{TrueLit}}
        /\ Pending(ClauseInit(lib)) = {} /\ ClauseInit(lib).last = 1
    BY <1>2, <1>3, WrapperClauses
  <1>5. Denoted(<<>>, <<>>) = {<<TrueLit, Assignment>>}
    BY DEF Denoted
  <1> QED BY <1>4, <1>5, UnitSound DEF ClauseOK

LEMMA ClauseVarOK ==
    ASSUME NEW lib, NEW w, NEW vs, NEW A, NEW P, NEW rs, NEW ms, Formulas(rs, ms),
           ClauseOK(lib, w, vs, A, P, rs, ms), NEW v \in Var, v \notin DOMAIN vs
    PROVE  ClauseOK(lib, ClauseVar(w).s, WithVariable(vs, v, ClauseVar(w).result), A, P,
                    Append(rs, ClauseVar(w).result), Append(ms, {a \in Assignment : a[v]}))
  <1> DEFINE t == NewVarId(w)
             f == {a \in Assignment : a[v]}
             n == w.last + 1
  <1>1. ClauseVar(w).s = t /\ ClauseVar(w).result = n
    BY DEF ClauseVar, Built
  <1>2. IsWrapper(lib, w) /\ Sound(Solved(w), w.last, vs, A, P, Pending(w), Denoted(rs, ms))
    BY DEF ClauseOK
  <1>3. IsWrapper(lib, t) /\ Solved(t) = Solved(w) /\ Pending(t) = Pending(w) /\ t.last = n
    BY <1>2, WrapperNewVar
  <1>4. Sound(Solved(w), n, WithVariable(vs, v, n), A, P, Pending(w), Denoted(rs, ms) \union {<<n, f>>})
    BY <1>2, VariableSound DEF WithVariable
  <1>5. f \in SUBSET Assignment
    OBVIOUS
  <1> HIDE DEF f, n, t
  <1>6. Denoted(Append(rs, n), Append(ms, f)) = Denoted(rs, ms) \union {<<n, f>>}
    BY <1>5, DenotedGrows
  <1>7. ClauseOK(lib, t, WithVariable(vs, v, n), A, P, Append(rs, n), Append(ms, f))
    BY <1>3, <1>4, <1>6 DEF ClauseOK
  <1> QED BY <1>1, <1>7 DEF f

LEMMA ClauseOpOK ==
    ASSUME NEW lib, NEW w, NEW vs, NEW A, NEW P, NEW rs, NEW ms, Formulas(rs, ms),
           ClauseOK(lib, w, vs, A, P, rs, ms), NEW tag \in AllTag,
           NEW args \in [1..Arity(tag) -> DOMAIN ms],
           NEW ls, ls = [i \in DOMAIN args |-> rs[args[i]]],
           NEW r, r = ClauseOp(lib, w, tag, ls),
           NEW f, f = Meant(tag, Nth(ms, args, 1), Nth(ms, args, 2), Nth(ms, args, 3))
    PROVE  ClauseOK(lib, r.s, vs, A, P, Append(rs, r.result), Append(ms, f))
  <1>1. IsWrapper(lib, w) /\ Sound(Solved(w), w.last, vs, A, P, Pending(w), Denoted(rs, ms))
    BY DEF ClauseOK
  <1>2. OperandsIn(tag, ls, Nth(ms, args, 1), Nth(ms, args, 2), Nth(ms, args, 3), Denoted(rs, ms))
    BY OperandsDenoted DEF Formulas
  <1>3. <<TrueLit, Assignment>> \in Denoted(rs, ms)
    BY DEF Denoted
  <1>4. /\ IsWrapper(lib, r.s)
        /\ Sound(Solved(r.s), r.s.last, vs, A, P, Pending(r.s), Denoted(rs, ms) \union {<<r.result, f>>})
    BY <1>1, <1>2, <1>3, ClauseOpSound
  <1>5. f \in SUBSET Assignment
    BY DEF Meant
  <1>6. Denoted(Append(rs, r.result), Append(ms, f)) = Denoted(rs, ms) \union {<<r.result, f>>}
    <2> DEFINE q == r.result
    <2> HIDE DEF q
    <2>1. Denoted(Append(rs, q), Append(ms, f)) = Denoted(rs, ms) \union {<<q, f>>}
      BY <1>5, DenotedGrows
    <2> QED BY <2>1 DEF q
  <1> QED BY <1>4, <1>6 DEF ClauseOK

LEMMA ClauseAssertOK ==
    ASSUME NEW lib, NEW w, NEW vs, NEW A, NEW P, NEW rs, NEW ms,
           ClauseOK(lib, w, vs, A, P, rs, ms), NEW k \in DOMAIN ms
    PROVE  ClauseOK(lib, AssertLit(lib, w, rs[k]), vs, A \intersect ms[k], P \intersect ms[k], rs, ms)
  <1>1. IsWrapper(lib, w) /\ Sound(Solved(w), w.last, vs, A, P, Pending(w), Denoted(rs, ms))
    BY DEF ClauseOK
  <1>2. <<rs[k], ms[k]>> \in Denoted(rs, ms)
    BY DEF Denoted
  <1>3. Sound(Solved(w) \union {{rs[k]}}, w.last, vs, A \intersect ms[k], P \intersect ms[k],
              Pending(w), Denoted(rs, ms))
    BY <1>1, <1>2, AssertSound
  <1>4. AssertLit(lib, w, rs[k]) = Clauses(lib, w, {{rs[k]}})
    BY DEF AssertLit, Clause
  <1>5. LET t == Clauses(lib, w, {{rs[k]}})
        IN  /\ IsWrapper(lib, t) /\ Solved(t) = Solved(w) \union {{rs[k]}}
            /\ Pending(t) = Pending(w) /\ t.last = w.last
    BY <1>1, WrapperClauses
  <1> QED BY <1>3, <1>4, <1>5 DEF ClauseOK

LEMMA ClauseAssumeOK ==
    ASSUME NEW lib, NEW w, NEW vs, NEW A, NEW P, NEW rs, NEW ms,
           ClauseOK(lib, w, vs, A, P, rs, ms), NEW k \in DOMAIN ms
    PROVE  ClauseOK(lib, AssumeLit(lib, w, rs[k]), vs, A, P \intersect ms[k], rs, ms)
  <1>1. IsWrapper(lib, w) /\ Sound(Solved(w), w.last, vs, A, P, Pending(w), Denoted(rs, ms))
    BY DEF ClauseOK
  <1>2. <<rs[k], ms[k]>> \in Denoted(rs, ms)
    BY DEF Denoted
  <1>3. Sound(Solved(w), w.last, vs, A, P \intersect ms[k], Pending(w) \union {rs[k]}, Denoted(rs, ms))
    BY <1>1, <1>2, AssumeSound
  <1>4. AssumeLit(lib, w, rs[k]) = AssumeLits(lib, w, {rs[k]})
    BY DEF AssumeLit
  <1>5. LET t == AssumeLits(lib, w, {rs[k]})
        IN  /\ IsWrapper(lib, t) /\ Solved(t) = Solved(w)
            /\ Pending(t) = Pending(w) \union {rs[k]} /\ t.last = w.last
    BY <1>1, WrapperAssume
  <1> QED BY <1>3, <1>4, <1>5 DEF ClauseOK

LEMMA ClauseSolvedOK ==
    ASSUME NEW lib, NEW w, NEW vs, NEW A, NEW P, NEW rs, NEW ms,
           ClauseOK(lib, w, vs, A, P, rs, ms)
    PROVE  ClauseOK(lib, SatSolved(lib, w), vs, A, A, rs, ms)
  <1> DEFINE t == SatSolved(lib, w)
  <1>1. IsWrapper(lib, w) /\ Sound(Solved(w), w.last, vs, A, P, Pending(w), Denoted(rs, ms))
    BY DEF ClauseOK
  <1>2. IsWrapper(lib, t) /\ Solved(t) = Solved(w) /\ t.last = w.last
    BY <1>1, WrapperSolved
  <1>3. CASE Pending(t) = {}
    <2>1. Sound(Solved(w), w.last, vs, A, A, {}, Denoted(rs, ms))
      BY <1>1, ForgetSound
    <2> QED BY <1>2, <1>3, <2>1 DEF ClauseOK
  <1>4. CASE Pending(t) = Pending(w) /\ Models(Solved(w), w.last) = {}
    <2>1. w.last \in Nat /\ Solved(w) \subseteq SUBSET Lit(w.last)
      BY <1>1 DEF Sound, LitTypes
    <2>2. \A m \in [1..w.last -> BOOLEAN] : ~Satisfies(m, Solved(w))
      BY <1>4, <2>1, ModelsSatisfy
    <2>3. Sound(Solved(w), w.last, vs, A, A, Pending(w), Denoted(rs, ms))
      BY <1>1, <2>2, ForgetSound
    <2> QED BY <1>2, <1>4, <2>3 DEF ClauseOK
  <1> QED BY <1>1, <1>3, <1>4, WrapperSolved

LEMMA ClauseFound ==
    ASSUME NEW lib, NEW w, NEW vs, NEW A, NEW P, NEW rs, NEW ms,
           ClauseOK(lib, w, vs, A, P, rs, ms)
    PROVE  /\ SatModels(lib, w) = {} <=> P = {}
           /\ \A m \in SatModels(lib, w) :
                 /\ m \in [1..w.last -> BOOLEAN]
                 /\ \A a \in Assignment : Agrees(m, vs, a) => a \in P
           /\ w.last \in Nat /\ \A v \in DOMAIN vs : vs[v] \in Lit(w.last)
  <1>1. IsWrapper(lib, w) /\ Sound(Solved(w), w.last, vs, A, P, Pending(w), Denoted(rs, ms))
    BY DEF ClauseOK
  <1>2. w.last \in Nat /\ \A v \in DOMAIN vs : vs[v] \in Lit(w.last)
    BY <1>1 DEF Sound, LitTypes
  <1>3. SatModels(lib, w) = Models(Solved(w) \union Units(Pending(w)), w.last)
    BY <1>1, WrapperModels
  <1>4. /\ Models(Solved(w) \union Units(Pending(w)), w.last) = {} <=> P = {}
        /\ \A m \in Models(Solved(w) \union Units(Pending(w)), w.last) :
              /\ m \in [1..w.last -> BOOLEAN]
              /\ \A a \in Assignment : Agrees(m, vs, a) => a \in P
    BY <1>1, FoundSound, Zenon
  <1> QED BY <1>2, <1>3, <1>4

(***************************************************************************)
(* SAT_Aiger.                                                              *)
(***************************************************************************)
LEMMA AigerLits ==
    ASSUME NEW n \in Nat \ {0}, NEW l \in AigerLit(n)
    PROVE  /\ SatLit(l) \in Lit(n)
           /\ AigerNot(l) \in AigerLit(n)
           /\ SatLit(AigerNot(l)) = -SatLit(l)
           /\ l \in AigerLit(n + 1)
  <1>1. l \in Int /\ 0 <= l /\ l <= 2 * n + 1
    BY DEF AigerLit
  <1>2. PICK v \in Int : l = 2 * v \/ l = 2 * v + 1
    <2>1. l = 2 * (l \div 2) \/ l = 2 * (l \div 2) + 1
      BY <1>1
    <2> QED BY <1>1, <2>1
  <1>3. v \in 0..n
    BY <1>1, <1>2
  <1>4. l \in AigerLit(n + 1)
    BY <1>1 DEF AigerLit
  <1>5. CASE l = 2 * v
    <2>1. l % 2 = 0 /\ (l + 1) % 2 = 1 /\ l \div 2 = v /\ (l + 1) \div 2 = v
      BY <1>3, <1>5
    <2>2. AigerNot(l) = l + 1
      BY <2>1 DEF AigerNot
    <2>3. SatLit(l) = IF v = 0 THEN -1 ELSE v
      BY <1>3, <1>5, <2>1 DEF SatLit, AigerTrue, AigerFalse, TrueVar
    <2>4. SatLit(l + 1) = IF v = 0 THEN 1 ELSE -v
      BY <1>3, <1>5, <2>1 DEF SatLit, AigerTrue, AigerFalse, TrueVar
    <2>5. l + 1 \in AigerLit(n)
      BY <1>1, <1>3, <1>5 DEF AigerLit
    <2> QED BY <1>3, <1>4, <2>2, <2>3, <2>4, <2>5 DEF Lit
  <1>6. CASE l = 2 * v + 1
    <2>1. l % 2 = 1 /\ (l - 1) % 2 = 0 /\ l \div 2 = v /\ (l - 1) \div 2 = v
      BY <1>3, <1>6
    <2>2. AigerNot(l) = l - 1
      BY <2>1 DEF AigerNot
    <2>3. SatLit(l) = IF v = 0 THEN 1 ELSE -v
      BY <1>3, <1>6, <2>1 DEF SatLit, AigerTrue, AigerFalse, TrueVar
    <2>4. SatLit(l - 1) = IF v = 0 THEN -1 ELSE v
      BY <1>3, <1>6, <2>1 DEF SatLit, AigerTrue, AigerFalse, TrueVar
    <2>5. l - 1 \in AigerLit(n)
      BY <1>1, <1>3, <1>6 DEF AigerLit
    <2> QED BY <1>3, <1>4, <2>2, <2>3, <2>4, <2>5 DEF Lit
  <1> QED BY <1>2, <1>5, <1>6

LEMMA NewLit ==
    ASSUME NEW n \in Nat \ {0}
    PROVE  /\ 2 * (n + 1) \in AigerLit(n + 1)
           /\ SatLit(2 * (n + 1)) = n + 1
           /\ 2 * (n + 1) \notin {2 * v : v \in 1..n}
           /\ 2 * (n + 1) \in {2 * v : v \in 1..(n + 1)}
           /\ \A l \in {2 * v : v \in 1..n} : l \in {2 * v : v \in 1..(n + 1)}
  <1>1. 2 * (n + 1) \in AigerLit(n + 1)
    BY DEF AigerLit
  <1>2. SatLit(2 * (n + 1)) = n + 1
    <2>1. (2 * (n + 1)) % 2 = 0 /\ (2 * (n + 1)) \div 2 = n + 1
      OBVIOUS
    <2> QED BY <2>1 DEF SatLit, AigerTrue, AigerFalse
  <1>3. 2 * (n + 1) \notin {2 * v : v \in 1..n} /\ 2 * (n + 1) \in {2 * v : v \in 1..(n + 1)}
    OBVIOUS
  <1>4. \A l \in {2 * v : v \in 1..n} : l \in {2 * v : v \in 1..(n + 1)}
    OBVIOUS
  <1> QED BY <1>1, <1>2, <1>3, <1>4

LEMMA SatDenotedGrows ==
    ASSUME NEW S, NEW k, NEW y
    PROVE  SatDenoted(S \union {<<k, y>>}) = SatDenoted(S) \union {<<SatLit(k), y>>}
  <1> DEFINE e == <<k, y>>
             q == <<SatLit(k), y>>
  <1>1. <<SatLit(e[1]), e[2]>> = q
    OBVIOUS
  <1> HIDE DEF e, q
  <1>2. \A x : x \in SatDenoted(S \union {e}) <=> x \in SatDenoted(S) \/ x = q
    BY <1>1 DEF SatDenoted
  <1>3. SatDenoted(S \union {e}) = SatDenoted(S) \union {q}
    BY <1>2
  <1> QED BY <1>3 DEF e, q

(* A negated literal, and fewer literals.                                  *)
LEMMA AigerNotSound ==
    ASSUME NEW lib, NEW g, NEW vs, NEW A, NEW P, NEW D, AigerSound(lib, g, vs, A, P, D),
           NEW l, NEW f, <<l, f>> \in D
    PROVE  AigerSound(lib, g, vs, A, P, D \union {<<AigerNot(l), Assignment \ f>>})
  <1>1. g.maxvar \in Nat \ {0} /\ D \subseteq AigerLit(g.maxvar) \X SUBSET Assignment
    BY DEF AigerSound, AigerTypes
  <1>2. l \in AigerLit(g.maxvar)
    BY <1>1
  <1>3. AigerNot(l) \in AigerLit(g.maxvar) /\ SatLit(AigerNot(l)) = -SatLit(l)
    BY <1>1, <1>2, AigerLits
  <1> DEFINE nl == AigerNot(l)
             h == Assignment \ f
             sl == SatLit(l)
  <1>4. <<SatLit(l), f>> \in SatDenoted(D)
    <2>1. <<SatLit(<<l, f>>[1]), <<l, f>>[2]>> \in SatDenoted(D)
      BY DEF SatDenoted
    <2> QED BY <2>1
  <1>5. Sound(Known(g), g.maxvar, SatLits(vs), A, P, AllPending(g), SatDenoted(D) \union {<<-sl, h>>})
    BY <1>4, NegationSound DEF AigerSound
  <1>6. h \in SUBSET Assignment
    OBVIOUS
  <1> HIDE DEF nl, h, sl
  <1>7. SatDenoted(D \union {<<nl, h>>}) = SatDenoted(D) \union {<<-sl, h>>}
    <2>1. SatLit(nl) = -sl
      BY <1>3 DEF nl, sl
    <2>2. \A x, y : SatDenoted(D \union {<<x, y>>}) = SatDenoted(D) \union {<<SatLit(x), y>>}
      BY SatDenotedGrows, Zenon
    <2> QED BY <2>1, <2>2
  <1>8. D \union {<<nl, h>>} \subseteq AigerLit(g.maxvar) \X SUBSET Assignment
    BY <1>1, <1>3, <1>6 DEF nl
  <1>9. AigerSound(lib, g, vs, A, P, D \union {<<nl, h>>})
    BY <1>5, <1>7, <1>8 DEF AigerSound
  <1> QED BY <1>9 DEF nl, h

LEMMA AigerFewer ==
    ASSUME NEW lib, NEW g, NEW vs, NEW A, NEW P, NEW D, AigerSound(lib, g, vs, A, P, D),
           NEW E, E \subseteq D
    PROVE  AigerSound(lib, g, vs, A, P, E)
  <1>1. SatDenoted(E) \subseteq SatDenoted(D)
    BY DEF SatDenoted
  <1>2. Sound(Known(g), g.maxvar, SatLits(vs), A, P, AllPending(g), SatDenoted(E))
    BY <1>1, FewerSound DEF AigerSound
  <1>3. E \subseteq AigerLit(g.maxvar) \X SUBSET Assignment
    BY DEF AigerSound
  <1> QED BY <1>2, <1>3 DEF AigerSound

(* One and-gate more.                                                      *)
LEMMA AddAndFields ==
    ASSUME NEW lib, NEW g, AigerTypes(lib, g), Handed(g),
           NEW a \in AigerLit(g.maxvar), NEW b \in AigerLit(g.maxvar),
           NEW t, t = 2 * (g.maxvar + 1), NEW r, r = AddAnd(NewVar(g), t, a, b)
    PROVE  /\ AigerTypes(lib, r) /\ Handed(r)
           /\ r.maxvar = g.maxvar + 1 /\ r.assumptions = g.assumptions /\ r.solver = g.solver
           /\ Known(r) = Known(g) \union GateClauses([lhs |-> t, rhs0 |-> a, rhs1 |-> b])
  <1> DEFINE n == g.maxvar
             e == [lhs |-> t, rhs0 |-> a, rhs1 |-> b]
             q == Append(g.ands, e)
             Gt(j) == [lhs : {2 * v : v \in 1..j}, rhs0 : AigerLit(j), rhs1 : AigerLit(j)]
  <1>1. n \in Nat \ {0} /\ g.ands \in Seq(Gt(n))
    BY DEF AigerTypes
  <1>2. \A x \in Gt(n) : x \in Gt(n + 1)
    <2>1. \A l \in AigerLit(n) : l \in AigerLit(n + 1)
      BY <1>1, AigerLits
    <2>2. \A l \in {2 * v : v \in 1..n} : l \in {2 * v : v \in 1..(n + 1)}
      BY <1>1, NewLit
    <2> HIDE DEF n
    <2> QED BY <2>1, <2>2
  <1>3. e \in Gt(n + 1)
    <2>1. t \in {2 * v : v \in 1..(n + 1)} /\ a \in AigerLit(n + 1) /\ b \in AigerLit(n + 1)
      BY <1>1, NewLit, AigerLits
    <2> HIDE DEF n
    <2> QED BY <2>1
  <1>4. /\ r.maxvar = n + 1 /\ r.ands = q /\ r.assertions = g.assertions
        /\ r.assumptions = g.assumptions /\ r.evaluated = g.evaluated /\ r.solver = g.solver
        /\ r = [maxvar |-> r.maxvar, ands |-> r.ands, assertions |-> r.assertions,
                assumptions |-> r.assumptions, evaluated |-> r.evaluated, solver |-> r.solver]
    <2> HIDE DEF e
    <2> QED BY DEF AddAnd, NewVar, AigerTypes, e
  <1> HIDE DEF e, Gt
  <1>5. Len(g.ands) \in Nat /\ g.ands \in Seq(Gt(n + 1))
    BY <1>1, <1>2
  <1>6. q \in Seq(Gt(n + 1)) /\ Len(q) = Len(g.ands) + 1 /\ q[Len(q)] = e
        /\ \A k \in 1..Len(g.ands) : q[k] = g.ands[k]
    BY <1>3, <1>5
  <1>7. AigerTypes(lib, r)
    <2>1. \A l \in AigerLit(n) : l \in AigerLit(n + 1)
      BY <1>1, AigerLits
    <2>2. r.maxvar \in Nat \ {0}
      BY <1>1, <1>4
    <2>3. r.ands \in Seq(Gt(r.maxvar))
      BY <1>4, <1>6
    <2>4. /\ r.assertions \subseteq AigerLit(r.maxvar) /\ TrueVar \in r.assertions
          /\ r.assumptions \subseteq AigerLit(r.maxvar)
          /\ IsWrapper(lib, r.solver)
      BY <1>4, <2>1 DEF AigerTypes
    <2>5. /\ r = [maxvar |-> r.maxvar, ands |-> r.ands, assertions |-> r.assertions,
                assumptions |-> r.assumptions, evaluated |-> r.evaluated, solver |-> r.solver]
      BY <1>4
    <2>6. r.ands \in Seq([lhs : {2 * v : v \in 1..r.maxvar}, rhs0 : AigerLit(r.maxvar),
                       rhs1 : AigerLit(r.maxvar)])
      BY <2>3 DEF Gt
    <2> QED BY <2>2, <2>4, <2>5, <2>6, Zenon DEF AigerTypes
  <1>8. Gates(r) = Gates(g) \union GateClauses(e)
    <2> HIDE DEF q
    <2>1. Len(q) \in 1..Len(q) /\ \A k \in 1..Len(g.ands) : k \in 1..Len(q)
      BY <1>5, <1>6
    <2>2. \A k \in 1..Len(q) : k = Len(q) \/ k \in 1..Len(g.ands)
      BY <1>5, <1>6
    <2>3. \A x : x \in Gates(r) <=> \E k \in 1..Len(q) : x \in GateClauses(q[k])
      BY <1>4 DEF Gates
    <2>4. \A x : x \in Gates(g) <=> \E k \in 1..Len(g.ands) : x \in GateClauses(g.ands[k])
      BY DEF Gates
    <2>5. ASSUME NEW x, x \in Gates(r) PROVE x \in Gates(g) \union GateClauses(e)
      <3>1. PICK k \in 1..Len(q) : x \in GateClauses(q[k])
        BY <2>3, <2>5
      <3>2. CASE k = Len(q) BY <1>6, <3>1, <3>2
      <3>3. CASE k \in 1..Len(g.ands) BY <1>6, <2>4, <3>1, <3>3
      <3> QED BY <2>2, <3>2, <3>3
    <2>6. ASSUME NEW x, x \in Gates(g) \union GateClauses(e) PROVE x \in Gates(r)
      <3>1. CASE x \in Gates(g)
        <4>1. PICK k \in 1..Len(g.ands) : x \in GateClauses(g.ands[k])
          BY <2>4, <3>1
        <4> QED BY <1>6, <2>1, <2>3, <4>1
      <3>2. CASE x \in GateClauses(e) BY <1>6, <2>1, <2>3, <3>2
      <3> QED BY <2>6, <3>1, <3>2
    <2> QED BY <2>5, <2>6
  <1>9. Known(r) = Known(g) \union GateClauses(e)
    BY <1>4, <1>8 DEF Known
  <1>10. Handed(r)
    <2>1. Solved(r.solver) \subseteq Known(r)
      BY <1>4, <1>9 DEF Handed
    <2>2. r.evaluated \subseteq {2 * v : v \in 1..r.maxvar}
      BY <1>1, <1>4, NewLit DEF Handed
    <2>3. t \notin g.evaluated
      BY <1>1, NewLit DEF Handed
    <2>4. ASSUME NEW k \in 1..Len(r.ands), r.ands[k].lhs \in r.evaluated
          PROVE  GateClauses(r.ands[k]) \subseteq Solved(r.solver)
      <3>1. CASE k \in 1..Len(g.ands)
        <4>1. r.ands[k] = g.ands[k] /\ r.evaluated = g.evaluated /\ r.solver = g.solver
          BY <1>4, <1>6, <3>1
        <4> QED BY <2>4, <3>1, <4>1 DEF Handed
      <3>2. CASE k \notin 1..Len(g.ands)
        <4>1. k = Len(q)
          BY <1>4, <1>5, <1>6, <3>2
        <4>2. r.ands[k] = e
          BY <1>4, <1>6, <4>1
        <4>3. r.ands[k].lhs = t
          BY <4>2 DEF e
        <4> QED BY <1>4, <2>3, <2>4, <4>3
      <3> QED BY <3>1, <3>2
    <2> QED BY <2>1, <2>2, <2>4 DEF Handed
  <1> QED BY <1>4, <1>7, <1>9, <1>10 DEF e

LEMMA AigerAndSound ==
    ASSUME NEW lib, NEW g, NEW vs, NEW A, NEW P, NEW D, AigerSound(lib, g, vs, A, P, D),
           NEW a, NEW f, <<a, f>> \in D, NEW b, NEW h, <<b, h>> \in D, NEW r, r = And(g, a, b)
    PROVE  AigerSound(lib, r.s, vs, A, P, D \union {<<r.result, f \intersect h>>})
  <1> DEFINE n == g.maxvar
             t == 2 * (g.maxvar + 1)
             s == AddAnd(NewVar(g), t, a, b)
             cs == GateClauses([lhs |-> t, rhs0 |-> a, rhs1 |-> b])
             q == f \intersect h
  <1>1. r.s = s /\ r.result = t
    BY DEF And, Built
  <1>2. /\ n \in Nat \ {0} /\ D \subseteq AigerLit(n) \X SUBSET Assignment
        /\ vs \in [DOMAIN vs -> AigerLit(n)] /\ AigerTypes(lib, g) /\ Handed(g)
    BY DEF AigerSound, AigerTypes
  <1>3. a \in AigerLit(n) /\ b \in AigerLit(n) /\ f \in SUBSET Assignment /\ h \in SUBSET Assignment
    BY <1>2
  <1>4. /\ AigerTypes(lib, s) /\ Handed(s) /\ s.maxvar = n + 1
        /\ s.assumptions = g.assumptions /\ s.solver = g.solver /\ Known(s) = Known(g) \union cs
    BY <1>2, <1>3, AddAndFields
  <1>5. AllPending(s) = AllPending(g)
    BY <1>4 DEF AllPending
  <1>6. SatLit(t) = n + 1 /\ t \in AigerLit(n + 1)
    BY <1>2, NewLit
  <1> HIDE DEF t, s
  <1>7. cs = Gate("and", SatLit(a), SatLit(b), n + 1)
    <2>1. cs = {{-(n + 1), SatLit(a)}, {-(n + 1), SatLit(b)}, {n + 1, -SatLit(a), -SatLit(b)}}
      BY <1>6 DEF GateClauses
    <2>2. Gate("and", SatLit(a), SatLit(b), n + 1) =
             {{-SatLit(a), -SatLit(b), n + 1}, {SatLit(b), -(n + 1)}, {SatLit(a), -(n + 1)}}
      BY DEF Gate
    <2> HIDE DEF cs
    <2> QED BY <2>1, <2>2
  <1>8. <<SatLit(a), f>> \in SatDenoted(D) /\ <<SatLit(b), h>> \in SatDenoted(D)
    <2>1. <<SatLit(<<a, f>>[1]), <<a, f>>[2]>> \in SatDenoted(D)
      BY DEF SatDenoted
    <2>2. <<SatLit(<<b, h>>[1]), <<b, h>>[2]>> \in SatDenoted(D)
      BY DEF SatDenoted
    <2> QED BY <2>1, <2>2
  <1>9. q = Both("and", f, h) /\ q \in SUBSET Assignment
    BY <1>3 DEF Both, Holds
  <1> HIDE DEF cs, q
  <1>10. Sound(Known(g), n, SatLits(vs), A, P, AllPending(g), SatDenoted(D))
    BY DEF AigerSound
  <1>11. cs \subseteq SUBSET Lit(n + 1) /\ Defines(cs, q, Known(g), n, SatLits(vs))
    <2>1. "and" \in GateTag
      BY DEF GateTag
    <2> QED BY <1>7, <1>8, <1>9, <1>10, <2>1, GateDefines
  <1>12. Sound(Known(g) \union cs, n + 1, SatLits(vs), A, P, AllPending(g), SatDenoted(D) \union {<<n + 1, q>>})
    BY <1>9, <1>10, <1>11, GateSound
  <1>13. SatDenoted(D \union {<<t, q>>}) = SatDenoted(D) \union {<<n + 1, q>>}
    <2>1. \A x, y : SatDenoted(D \union {<<x, y>>}) = SatDenoted(D) \union {<<SatLit(x), y>>}
      BY SatDenotedGrows, Zenon
    <2> QED BY <1>6, <2>1
  <1>14. \A l \in AigerLit(n) : l \in AigerLit(n + 1)
    BY <1>2, AigerLits
  <1> HIDE DEF n
  <1>15. D \union {<<t, q>>} \subseteq AigerLit(n + 1) \X SUBSET Assignment
    <2>1. AigerLit(n) \subseteq AigerLit(n + 1)
      BY <1>14
    <2> QED BY <1>2, <1>6, <1>9, <2>1
  <1>16. vs \in [DOMAIN vs -> AigerLit(n + 1)]
    BY <1>2, <1>14
  <1>17. AigerSound(lib, s, vs, A, P, D \union {<<t, q>>})
    BY <1>4, <1>5, <1>12, <1>13, <1>15, <1>16 DEF AigerSound
  <1> QED BY <1>1, <1>17 DEF q

(* The operations made from it.                                            *)
LEMMA AigerInvertedSound ==
    ASSUME NEW lib, NEW r, NEW vs, NEW A, NEW P, NEW D, NEW f,
           AigerSound(lib, r.s, vs, A, P, D \union {<<r.result, f>>}),
           NEW i, i = Inverted(r)
    PROVE  AigerSound(lib, i.s, vs, A, P, D \union {<<i.result, Assignment \ f>>})
  <1>1. i.s = r.s /\ i.result = AigerNot(r.result)
    BY DEF Inverted, Built
  <1> DEFINE q == r.result
             E == D \union {<<q, f>>}
             x == <<AigerNot(q), Assignment \ f>>
  <1>2. <<q, f>> \in E
    OBVIOUS
  <1>3. AigerSound(lib, r.s, vs, A, P, E \union {x})
    <2> HIDE DEF E
    <2> QED BY <1>2, AigerNotSound DEF E
  <1>4. D \union {x} \subseteq E \union {x}
    OBVIOUS
  <1> HIDE DEF q, E, x
  <1>5. AigerSound(lib, r.s, vs, A, P, D \union {x})
    BY <1>3, <1>4, AigerFewer
  <1> QED BY <1>1, <1>5 DEF x, q

LEMMA AigerOrSound ==
    ASSUME NEW lib, NEW g, NEW vs, NEW A, NEW P, NEW D, AigerSound(lib, g, vs, A, P, D),
           NEW a, NEW f, <<a, f>> \in D, NEW b, NEW h, <<b, h>> \in D, NEW r, r = Or(g, a, b)
    PROVE  AigerSound(lib, r.s, vs, A, P, D \union {<<r.result, f \union h>>})
  <1> DEFINE x == <<AigerNot(a), Assignment \ f>>
             y == <<AigerNot(b), Assignment \ h>>
             E == D \union {x}
             F == E \union {y}
             i == And(g, AigerNot(a), AigerNot(b))
             q == (Assignment \ f) \intersect (Assignment \ h)
  <1>1. f \subseteq Assignment /\ h \subseteq Assignment
    BY DEF AigerSound
  <1>2. AigerSound(lib, g, vs, A, P, E)
    BY AigerNotSound
  <1>3. <<b, h>> \in E
    OBVIOUS
  <1>4. AigerSound(lib, g, vs, A, P, F)
    <2> HIDE DEF E
    <2> QED BY <1>2, <1>3, AigerNotSound
  <1>5. <<AigerNot(a), Assignment \ f>> \in F /\ <<AigerNot(b), Assignment \ h>> \in F
    OBVIOUS
  <1>6. AigerSound(lib, i.s, vs, A, P, F \union {<<i.result, q>>})
    <2> HIDE DEF F
    <2> QED BY <1>4, <1>5, AigerAndSound
  <1>7. r = Inverted(i)
    BY DEF Or, Inverted
  <1>8. Assignment \ q = f \union h
    BY <1>1
  <1> HIDE DEF i, q
  <1>9. AigerSound(lib, r.s, vs, A, P, F \union {<<r.result, Assignment \ q>>})
    <2> HIDE DEF F
    <2> QED BY <1>6, <1>7, AigerInvertedSound
  <1>10. D \union {<<r.result, Assignment \ q>>} \subseteq F \union {<<r.result, Assignment \ q>>}
    OBVIOUS
  <1> HIDE DEF F
  <1> QED BY <1>8, <1>9, <1>10, AigerFewer

LEMMA AigerXnorSound ==
    ASSUME NEW lib, NEW g, NEW vs, NEW A, NEW P, NEW D, AigerSound(lib, g, vs, A, P, D),
           NEW a, NEW f, <<a, f>> \in D, NEW b, NEW h, <<b, h>> \in D, NEW r, r = Xnor(g, a, b)
    PROVE  AigerSound(lib, r.s, vs, A, P,
                      D \union {<<r.result, ((Assignment \ f) \intersect (Assignment \ h)) \union (f \intersect h)>>})
  <1> DEFINE x == <<AigerNot(a), Assignment \ f>>
             y == <<AigerNot(b), Assignment \ h>>
             E == D \union {x}
             F == E \union {y}
             r1 == And(g, AigerNot(a), AigerNot(b))
             r2 == And(r1.s, a, b)
             q1 == (Assignment \ f) \intersect (Assignment \ h)
             q2 == f \intersect h
             F1 == F \union {<<r1.result, q1>>}
             F2 == F1 \union {<<r2.result, q2>>}
  <1>1. AigerSound(lib, g, vs, A, P, E)
    BY AigerNotSound
  <1>2. <<b, h>> \in E
    OBVIOUS
  <1>3. AigerSound(lib, g, vs, A, P, F)
    <2> HIDE DEF E
    <2> QED BY <1>1, <1>2, AigerNotSound
  <1>4. <<AigerNot(a), Assignment \ f>> \in F /\ <<AigerNot(b), Assignment \ h>> \in F
    OBVIOUS
  <1>5. AigerSound(lib, r1.s, vs, A, P, F1)
    <2> HIDE DEF F
    <2> QED BY <1>3, <1>4, AigerAndSound
  <1>6. <<a, f>> \in F1 /\ <<b, h>> \in F1
    OBVIOUS
  <1>7. AigerSound(lib, r2.s, vs, A, P, F2)
    <2> DEFINE g1 == r1.s
    <2>1. r2 = And(g1, a, b)
      OBVIOUS
    <2>2. AigerSound(lib, g1, vs, A, P, F1)
      BY <1>5
    <2> HIDE DEF F1, g1, r1, r2
    <2> QED BY <1>6, <2>1, <2>2, AigerAndSound
  <1>8. <<r1.result, q1>> \in F2 /\ <<r2.result, q2>> \in F2 /\ D \subseteq F2
    OBVIOUS
  <1>9. r = Or(r2.s, r1.result, r2.result)
    BY DEF Xnor
  <1> HIDE DEF r1, r2, q1, q2, F2
  <1>10. AigerSound(lib, r.s, vs, A, P, F2 \union {<<r.result, q1 \union q2>>})
    <2> DEFINE g2 == r2.s
               l1 == r1.result
               l2 == r2.result
    <2> HIDE DEF g2, l1, l2
    <2>1. /\ AigerSound(lib, g2, vs, A, P, F2) /\ r = Or(g2, l1, l2)
          /\ <<l1, q1>> \in F2 /\ <<l2, q2>> \in F2
      BY <1>7, <1>8, <1>9 DEF g2, l1, l2
    <2> QED BY <2>1, AigerOrSound
  <1>11. D \union {<<r.result, q1 \union q2>>} \subseteq F2 \union {<<r.result, q1 \union q2>>}
    BY <1>8
  <1>12. AigerSound(lib, r.s, vs, A, P, D \union {<<r.result, q1 \union q2>>})
    BY <1>10, <1>11, AigerFewer
  <1> QED BY <1>12 DEF q1, q2

ThreeIn(D, i, f, t, h, e, k) == <<i, f>> \in D /\ <<t, h>> \in D /\ <<e, k>> \in D
Picked(f, h, k) == ((Assignment \ f) \union h) \intersect (f \union k)
LEMMA AigerIteSound ==
    ASSUME NEW lib, NEW g, NEW vs, NEW A, NEW P, NEW D, AigerSound(lib, g, vs, A, P, D),
           NEW i, NEW f, NEW t, NEW h, NEW e, NEW k, ThreeIn(D, i, f, t, h, e, k),
           NEW r, r = IteOf(g, i, t, e)
    PROVE  AigerSound(lib, r.s, vs, A, P, D \union {<<r.result, Picked(f, h, k)>>})
  <1> DEFINE x == <<AigerNot(i), Assignment \ f>>
             E == D \union {x}
             r1 == Or(g, AigerNot(i), t)
             r2 == Or(r1.s, i, e)
             q1 == (Assignment \ f) \union h
             q2 == f \union k
             F1 == E \union {<<r1.result, q1>>}
             F2 == F1 \union {<<r2.result, q2>>}
  <1>0. <<i, f>> \in D /\ <<t, h>> \in D /\ <<e, k>> \in D
    BY DEF ThreeIn
  <1>1. AigerSound(lib, g, vs, A, P, E)
    BY <1>0, AigerNotSound
  <1>2. <<AigerNot(i), Assignment \ f>> \in E /\ <<t, h>> \in E
    BY <1>0
  <1>3. AigerSound(lib, r1.s, vs, A, P, F1)
    <2> HIDE DEF E
    <2> QED BY <1>1, <1>2, AigerOrSound
  <1>4. <<i, f>> \in F1 /\ <<e, k>> \in F1
    BY <1>0
  <1>5. AigerSound(lib, r2.s, vs, A, P, F2)
    <2> DEFINE g1 == r1.s
    <2>1. r2 = Or(g1, i, e)
      OBVIOUS
    <2>2. AigerSound(lib, g1, vs, A, P, F1)
      BY <1>3
    <2> HIDE DEF F1, g1, r1, r2
    <2> QED BY <1>4, <2>1, <2>2, AigerOrSound
  <1>6. <<r1.result, q1>> \in F2 /\ <<r2.result, q2>> \in F2 /\ D \subseteq F2
    OBVIOUS
  <1>7. r = And(r2.s, r1.result, r2.result)
    BY DEF IteOf
  <1> HIDE DEF r1, r2, q1, q2, F2
  <1>8. AigerSound(lib, r.s, vs, A, P, F2 \union {<<r.result, q1 \intersect q2>>})
    <2> DEFINE g2 == r2.s
               l1 == r1.result
               l2 == r2.result
    <2> HIDE DEF g2, l1, l2
    <2>1. /\ AigerSound(lib, g2, vs, A, P, F2) /\ r = And(g2, l1, l2)
          /\ <<l1, q1>> \in F2 /\ <<l2, q2>> \in F2
      BY <1>5, <1>6, <1>7 DEF g2, l1, l2
    <2> QED BY <2>1, AigerAndSound
  <1>9. D \union {<<r.result, q1 \intersect q2>>} \subseteq F2 \union {<<r.result, q1 \intersect q2>>}
    BY <1>6
  <1>10. AigerSound(lib, r.s, vs, A, P, D \union {<<r.result, q1 \intersect q2>>})
    BY <1>8, <1>9, AigerFewer
  <1> QED BY <1>10 DEF q1, q2, Picked

(* Every operation returns a literal that means what SMT-LIB says.         *)
LEMMA AigerOpSound ==
    ASSUME NEW lib, NEW g, NEW vs, NEW A, NEW P, NEW D, AigerSound(lib, g, vs, A, P, D),
           <<TrueLit, Assignment>> \in D, NEW tag \in AllTag, NEW args,
           NEW f, NEW h, NEW k, OperandsIn(tag, args, f, h, k, D),
           NEW r, r = AigerOp(g, tag, args)
    PROVE  AigerSound(lib, r.s, vs, A, P, D \union {<<r.result, Meant(tag, f, h, k)>>})
  <1> DEFINE a == args[1]
             b == args[2]
             M == Meant(tag, f, h, k)
  <1>1. f \in SUBSET Assignment /\ h \in SUBSET Assignment /\ k \in SUBSET Assignment
    BY DEF OperandsIn
  <1>2. AigerTrue = TrueLit /\ AigerNot(TrueLit) = AigerFalse
    BY DEF AigerTrue, TrueLit, AigerFalse, AigerNot
  <1>3. CASE tag = "true"
    <2>1. r.s = g /\ r.result = TrueLit
      BY <1>2, <1>3 DEF AigerOp, Built
    <2>2. M = Assignment
      BY <1>3 DEF Meant, Holds
    <2>3. D \union {<<r.result, M>>} = D
      BY <2>1, <2>2
    <2> QED BY <2>1, <2>3
  <1>4. CASE tag = "false"
    <2>1. r.s = g /\ r.result = AigerNot(TrueLit)
      BY <1>2, <1>4 DEF AigerOp, Built
    <2>2. M = Assignment \ Assignment
      BY <1>4 DEF Meant, Holds
    <2>3. AigerSound(lib, g, vs, A, P, D \union {<<AigerNot(TrueLit), Assignment \ Assignment>>})
      BY AigerNotSound
    <2> QED BY <2>1, <2>2, <2>3
  <1>5. CASE tag = "not"
    <2>1. r.s = g /\ r.result = AigerNot(a)
      BY <1>5 DEF AigerOp, Built
    <2>2. M = Assignment \ f
      BY <1>5 DEF Meant, Holds
    <2>3. <<a, f>> \in D
      BY <1>5, ArityCases DEF OperandsIn
    <2>4. AigerSound(lib, g, vs, A, P, D \union {<<AigerNot(a), Assignment \ f>>})
      BY <2>3, AigerNotSound
    <2> QED BY <2>1, <2>2, <2>4
  <1>6. ASSUME tag \in GateTag \union EqualityTag \union {"implies"}
        PROVE  <<a, f>> \in D /\ <<b, h>> \in D
    BY <1>6, ArityCases DEF OperandsIn
  <1>7. CASE tag = "and"
    <2>1. r = And(g, a, b)
      BY <1>7 DEF AigerOp
    <2>2. M = f \intersect h
      BY <1>1, <1>7 DEF Meant, Holds
    <2>3. <<a, f>> \in D /\ <<b, h>> \in D
      BY <1>6, <1>7 DEF GateTag
    <2>4. AigerSound(lib, r.s, vs, A, P, D \union {<<r.result, f \intersect h>>})
      <3> HIDE DEF a, b, M
      <3> QED BY <2>1, <2>3, AigerAndSound
    <2> QED BY <2>2, <2>4
  <1>8. CASE tag = "nand"
    <2> DEFINE i == And(g, a, b)
               q == f \intersect h
    <2>1. r = Inverted(i)
      BY <1>8 DEF AigerOp
    <2>2. M = Assignment \ q
      BY <1>1, <1>8 DEF Meant, Holds
    <2>3. <<a, f>> \in D /\ <<b, h>> \in D
      BY <1>6, <1>8 DEF GateTag
    <2> HIDE DEF a, b, M
    <2>4. AigerSound(lib, i.s, vs, A, P, D \union {<<i.result, q>>})
      BY <2>3, AigerAndSound
    <2> HIDE DEF i, q
    <2> QED BY <2>1, <2>2, <2>4, AigerInvertedSound DEF M
  <1>9. CASE tag = "or"
    <2>1. r = Or(g, a, b)
      BY <1>9 DEF AigerOp
    <2>2. M = f \union h
      BY <1>1, <1>9 DEF Meant, Holds
    <2>3. <<a, f>> \in D /\ <<b, h>> \in D
      BY <1>6, <1>9 DEF GateTag
    <2>4. AigerSound(lib, r.s, vs, A, P, D \union {<<r.result, f \union h>>})
      <3> HIDE DEF a, b, M
      <3> QED BY <2>1, <2>3, AigerOrSound
    <2> QED BY <2>2, <2>4
  <1>10. CASE tag = "nor"
    <2> DEFINE i == Or(g, a, b)
               q == f \union h
    <2>1. r = Inverted(i)
      BY <1>10 DEF AigerOp
    <2>2. M = Assignment \ q
      BY <1>1, <1>10 DEF Meant, Holds
    <2>3. <<a, f>> \in D /\ <<b, h>> \in D
      BY <1>6, <1>10 DEF GateTag
    <2> HIDE DEF a, b, M
    <2>4. AigerSound(lib, i.s, vs, A, P, D \union {<<i.result, q>>})
      BY <2>3, AigerOrSound
    <2> HIDE DEF i, q
    <2> QED BY <2>1, <2>2, <2>4, AigerInvertedSound DEF M
  <1>11. CASE tag = "implies"
    <2> DEFINE x == <<AigerNot(a), Assignment \ f>>
               E == D \union {x}
    <2>1. r = Or(g, AigerNot(a), b)
      BY <1>11 DEF AigerOp
    <2>2. M = (Assignment \ f) \union h
      BY <1>1, <1>11 DEF Meant, Holds
    <2>3. <<a, f>> \in D /\ <<b, h>> \in D
      BY <1>6, <1>11
    <2> HIDE DEF a, b, M
    <2>4. AigerSound(lib, g, vs, A, P, E)
      BY <2>3, AigerNotSound
    <2>5. x \in E /\ <<b, h>> \in E
      BY <2>3
    <2>6. AigerSound(lib, r.s, vs, A, P, E \union {<<r.result, (Assignment \ f) \union h>>})
      <3> HIDE DEF E
      <3> QED BY <2>1, <2>4, <2>5, AigerOrSound
    <2>7. D \union {<<r.result, (Assignment \ f) \union h>>} \subseteq E \union {<<r.result, (Assignment \ f) \union h>>}
      OBVIOUS
    <2> HIDE DEF E
    <2> QED BY <2>2, <2>6, <2>7, AigerFewer DEF M
  <1> DEFINE same == ((Assignment \ f) \intersect (Assignment \ h)) \union (f \intersect h)
  <1>12. CASE tag \in {"equal", "xnor"}
    <2>1. r = Xnor(g, a, b)
      BY <1>12 DEF AigerOp
    <2>2. M = same
      <3>1. M \subseteq Assignment /\ \A x \in Assignment : x \in M <=> (x \in f <=> x \in h)
        BY <1>12, MeantAt
      <3> HIDE DEF M
      <3> QED BY <1>1, <3>1
    <2>3. <<a, f>> \in D /\ <<b, h>> \in D
      BY <1>6, <1>12 DEF GateTag, EqualityTag
    <2>4. AigerSound(lib, r.s, vs, A, P, D \union {<<r.result, same>>})
      <3> HIDE DEF a, b, M
      <3> QED BY <2>1, <2>3, AigerXnorSound
    <2> QED BY <2>2, <2>4
  <1>13. CASE tag \in {"nequal", "distinct", "xor"}
    <2> DEFINE i == Xnor(g, a, b)
    <2>1. r = Inverted(i)
      BY <1>13 DEF AigerOp
    <2>2. M = Assignment \ same
      <3>1. M \subseteq Assignment /\ \A x \in Assignment : x \in M <=> ~(x \in f <=> x \in h)
        BY <1>13, MeantAt
      <3> HIDE DEF M
      <3> QED BY <1>1, <3>1
    <2>3. <<a, f>> \in D /\ <<b, h>> \in D
      BY <1>6, <1>13 DEF GateTag, EqualityTag
    <2> HIDE DEF a, b, M
    <2>4. AigerSound(lib, i.s, vs, A, P, D \union {<<i.result, same>>})
      BY <2>3, AigerXnorSound
    <2> HIDE DEF i, same
    <2> QED BY <2>1, <2>2, <2>4, AigerInvertedSound DEF M
  <1>14. CASE tag = "ite"
    <2> DEFINE c == args[3]
               q == ((Assignment \ f) \union h) \intersect (f \union k)
    <2>1. r = IteOf(g, a, b, c)
      BY <1>14 DEF AigerOp
    <2>2. M = q
      BY <1>1, <1>14 DEF Meant, Holds
    <2>3. <<a, f>> \in D /\ <<b, h>> \in D /\ <<c, k>> \in D
      BY <1>14, ArityCases DEF OperandsIn
    <2>4. AigerSound(lib, r.s, vs, A, P, D \union {<<r.result, q>>})
      <3> HIDE DEF a, b, c, M
      <3>1. ThreeIn(D, a, f, b, h, c, k)
        BY <2>3 DEF ThreeIn
      <3>2. AigerSound(lib, r.s, vs, A, P, D \union {<<r.result, Picked(f, h, k)>>})
        BY <2>1, <3>1, AigerIteSound
      <3> QED BY <3>2 DEF Picked
    <2> QED BY <2>2, <2>4
  <1> QED BY <1>3, <1>4, <1>5, <1>7, <1>8, <1>9, <1>10, <1>11, <1>12, <1>13, <1>14, ArityCases
          DEF EqualityTag, GateTag

LEMMA AigerOpOK ==
    ASSUME NEW lib, NEW g, NEW vs, NEW A, NEW P, NEW rs, NEW ms, Formulas(rs, ms),
           AigerOK(lib, g, vs, A, P, rs, ms), NEW tag \in AllTag,
           NEW args \in [1..Arity(tag) -> DOMAIN ms],
           NEW ls, ls = [i \in DOMAIN args |-> rs[args[i]]],
           NEW r, r = AigerOp(g, tag, ls),
           NEW f, f = Meant(tag, Nth(ms, args, 1), Nth(ms, args, 2), Nth(ms, args, 3))
    PROVE  AigerOK(lib, r.s, vs, A, P, Append(rs, r.result), Append(ms, f))
  <1>1. AigerSound(lib, g, vs, A, P, Denoted(rs, ms))
    BY DEF AigerOK
  <1>2. OperandsIn(tag, ls, Nth(ms, args, 1), Nth(ms, args, 2), Nth(ms, args, 3), Denoted(rs, ms))
    BY OperandsDenoted DEF Formulas
  <1>3. <<TrueLit, Assignment>> \in Denoted(rs, ms)
    BY DEF Denoted
  <1>4. AigerSound(lib, r.s, vs, A, P, Denoted(rs, ms) \union {<<r.result, f>>})
    BY <1>1, <1>2, <1>3, AigerOpSound
  <1>5. f \in SUBSET Assignment
    BY DEF Meant
  <1>6. Denoted(Append(rs, r.result), Append(ms, f)) = Denoted(rs, ms) \union {<<r.result, f>>}
    <2> DEFINE q == r.result
    <2> HIDE DEF q
    <2>1. Denoted(Append(rs, q), Append(ms, f)) = Denoted(rs, ms) \union {<<q, f>>}
      BY <1>5, DenotedGrows
    <2> QED BY <2>1 DEF q
  <1> QED BY <1>4, <1>6 DEF AigerOK

LEMMA AigerInitOK ==
    ASSUME NEW lib
    PROVE  AigerOK(lib, AigerInit(lib), NoVariables, Assignment, Assignment, <<>>, <<>>)
  <1> DEFINE g == AigerInit(lib)
  <1>1. /\ g.maxvar = 1 /\ g.ands = <<>> /\ g.assertions = {1} /\ g.assumptions = {}
        /\ g.evaluated = {} /\ g.solver = Wrapper
        /\ g = [maxvar |-> g.maxvar, ands |-> g.ands, assertions |-> g.assertions,
                assumptions |-> g.assumptions, evaluated |-> g.evaluated, solver |-> g.solver]
    BY DEF AigerInit, TrueVar
  <1>2. IsWrapper(lib, Wrapper) /\ Solved(Wrapper) = {} /\ Pending(Wrapper) = {}
    BY DEF Wrapper, IsWrapper, Solved, Pending
  <1> HIDE DEF g
  <1>3. SatLit(1) = 1 /\ 1 \in AigerLit(1) /\ TrueLit = 1
    BY DEF SatLit, AigerTrue, AigerFalse, TrueVar, AigerLit, TrueLit
  <1>4. Gates(g) = {}
    BY <1>1 DEF Gates
  <1>5. Known(g) = {{TrueLit}}
    <2>1. {SatLit(l) : l \in g.assertions} = {TrueLit}
      BY <1>1, <1>3
    <2>2. Units({TrueLit}) = {{TrueLit}}
      BY DEF Units
    <2> QED BY <1>4, <2>1, <2>2 DEF Known
  <1>6. AllPending(g) = {}
    BY <1>1, <1>2 DEF AllPending
  <1>7. AigerTypes(lib, g)
    <2>1. g.ands \in Seq([lhs : {2 * v : v \in 1..g.maxvar}, rhs0 : AigerLit(g.maxvar),
                       rhs1 : AigerLit(g.maxvar)])
      BY <1>1
    <2>2. /\ g.maxvar \in Nat \ {0} /\ g.assertions \subseteq AigerLit(g.maxvar)
          /\ TrueVar \in g.assertions /\ g.assumptions \subseteq AigerLit(g.maxvar)
          /\ IsWrapper(lib, g.solver)
      BY <1>1, <1>2, <1>3 DEF TrueVar
    <2> QED BY <1>1, <2>1, <2>2, Zenon DEF AigerTypes
  <1>8. Handed(g)
    BY <1>1, <1>2 DEF Handed
  <1>9. SatLits(NoVariables) = NoVariables
    BY DEF SatLits, NoVariables
  <1>10. Denoted(<<>>, <<>>) = {<<TrueLit, Assignment>>}
    BY DEF Denoted
  <1>11. SatDenoted({<<TrueLit, Assignment>>}) = {<<TrueLit, Assignment>>}
    BY <1>3 DEF SatDenoted
  <1>12. Sound(Known(g), 1, NoVariables, Assignment, Assignment, {}, {<<TrueLit, Assignment>>})
    BY <1>5, UnitSound
  <1>13. NoVariables \in [DOMAIN NoVariables -> AigerLit(1)]
    BY DEF NoVariables
  <1>14. {<<TrueLit, Assignment>>} \subseteq AigerLit(1) \X SUBSET Assignment
    BY <1>3
  <1>15. AigerSound(lib, g, NoVariables, Assignment, Assignment, {<<TrueLit, Assignment>>})
    BY <1>1, <1>6, <1>7, <1>8, <1>9, <1>11, <1>12, <1>13, <1>14 DEF AigerSound
  <1> QED BY <1>10, <1>15 DEF AigerOK, g

LEMMA AigerVarOK ==
    ASSUME NEW lib, NEW g, NEW vs, NEW A, NEW P, NEW rs, NEW ms, Formulas(rs, ms),
           AigerOK(lib, g, vs, A, P, rs, ms), NEW v \in Var, v \notin DOMAIN vs
    PROVE  AigerOK(lib, AigerVar(g).s, WithVariable(vs, v, AigerVar(g).result), A, P,
                   Append(rs, AigerVar(g).result), Append(ms, {a \in Assignment : a[v]}))
  <1> DEFINE s == NewVar(g)
             n == g.maxvar
             t == 2 * (n + 1)
             f == {a \in Assignment : a[v]}
             D == Denoted(rs, ms)
             ws == WithVariable(vs, v, t)
             Gt(j) == [lhs : {2 * u : u \in 1..j}, rhs0 : AigerLit(j), rhs1 : AigerLit(j)]
  <1>1. AigerVar(g).s = s /\ AigerVar(g).result = t
    BY DEF AigerVar, Built
  <1>2. /\ AigerTypes(lib, g) /\ Handed(g) /\ n \in Nat \ {0}
        /\ vs \in [DOMAIN vs -> AigerLit(n)] /\ D \subseteq AigerLit(n) \X SUBSET Assignment
        /\ Sound(Known(g), n, SatLits(vs), A, P, AllPending(g), SatDenoted(D))
    BY DEF AigerOK, AigerSound, AigerTypes
  <1>3. /\ s.maxvar = n + 1 /\ s.ands = g.ands /\ s.assertions = g.assertions
        /\ s.assumptions = g.assumptions /\ s.evaluated = g.evaluated /\ s.solver = g.solver
        /\ s = [maxvar |-> s.maxvar, ands |-> s.ands, assertions |-> s.assertions,
                assumptions |-> s.assumptions, evaluated |-> s.evaluated, solver |-> s.solver]
    BY <1>2 DEF NewVar, AigerTypes
  <1> HIDE DEF s
  <1>4. SatLit(t) = n + 1 /\ t \in AigerLit(n + 1)
    BY <1>2, NewLit
  <1>5. \A l \in AigerLit(n) : l \in AigerLit(n + 1) /\ SatLit(l) \in Lit(n)
    BY <1>2, AigerLits
  <1>6. AigerTypes(lib, s)
    <2>1. \A x \in Gt(n) : x \in Gt(n + 1)
      <3>1. \A l \in {2 * u : u \in 1..n} : l \in {2 * u : u \in 1..(n + 1)}
        BY <1>2, NewLit
      <3> HIDE DEF n
      <3> QED BY <1>5, <3>1
    <2>2. g.ands \in Seq(Gt(n))
      BY <1>2 DEF AigerTypes
    <2> HIDE DEF Gt
    <2>3. s.ands \in Seq(Gt(n + 1))
      BY <1>3, <2>1, <2>2
    <2>4. /\ s.maxvar \in Nat \ {0}
          /\ s.assertions \subseteq AigerLit(s.maxvar) /\ TrueVar \in s.assertions
          /\ s.assumptions \subseteq AigerLit(s.maxvar)
          /\ IsWrapper(lib, s.solver)
      BY <1>2, <1>3, <1>5 DEF AigerTypes
    <2>5. s.ands \in Seq([lhs : {2 * u : u \in 1..s.maxvar}, rhs0 : AigerLit(s.maxvar),
                       rhs1 : AigerLit(s.maxvar)])
      BY <1>3, <2>3 DEF Gt
    <2> QED BY <1>3, <2>4, <2>5, Zenon DEF AigerTypes
  <1>7. Known(s) = Known(g) /\ AllPending(s) = AllPending(g)
    BY <1>3 DEF Known, Gates, AllPending
  <1>8. Handed(s)
    BY <1>2, <1>3, <1>7, NewLit DEF Handed
  <1>9. SatLits(ws) = [w \in DOMAIN SatLits(vs) \union {v} |-> IF w = v THEN n + 1 ELSE SatLits(vs)[w]]
    <2>1. DOMAIN ws = DOMAIN vs \union {v} /\ ws[v] = t /\ \A w \in DOMAIN vs : w # v => ws[w] = vs[w]
      BY DEF WithVariable
    <2> HIDE DEF ws, t
    <2> QED BY <1>4, <2>1 DEF SatLits
  <1>10. v \notin DOMAIN SatLits(vs)
    BY DEF SatLits
  <1>11. f \in SUBSET Assignment
    OBVIOUS
  <1>12. Sound(Known(g), n + 1, SatLits(ws), A, P, AllPending(g), SatDenoted(D) \union {<<n + 1, f>>})
    <2> DEFINE xs == SatLits(vs)
               ys == SatLits(ws)
               E == SatDenoted(D)
               cs == Known(g)
               pend == AllPending(g)
    <2>1. /\ Sound(cs, n, xs, A, P, pend, E) /\ v \notin DOMAIN xs
          /\ ys = WithVariable(xs, v, n + 1)
      BY <1>2, <1>9, <1>10 DEF WithVariable
    <2> HIDE DEF n, xs, ys, E, cs, pend
    <2>2. Sound(cs, n + 1, ys, A, P, pend, E \union {<<n + 1, f>>})
      BY <2>1, VariableSound DEF WithVariable
    <2> QED BY <2>2 DEF xs, ys, E, cs, pend
  <1> HIDE DEF f, D, t
  <1>13. SatDenoted(D \union {<<t, f>>}) = SatDenoted(D) \union {<<n + 1, f>>}
    <2>1. \A x, y : SatDenoted(D \union {<<x, y>>}) = SatDenoted(D) \union {<<SatLit(x), y>>}
      BY SatDenotedGrows, Zenon
    <2> QED BY <1>4, <2>1
  <1> HIDE DEF n
  <1>14. D \union {<<t, f>>} \subseteq AigerLit(n + 1) \X SUBSET Assignment
    <2>1. AigerLit(n) \subseteq AigerLit(n + 1)
      BY <1>5
    <2> QED BY <1>2, <1>4, <1>11, <2>1
  <1>15. ws \in [DOMAIN ws -> AigerLit(n + 1)]
    BY <1>2, <1>4, <1>5 DEF WithVariable
  <1> HIDE DEF ws
  <1>16. AigerSound(lib, s, ws, A, P, D \union {<<t, f>>})
    BY <1>3, <1>6, <1>7, <1>8, <1>12, <1>13, <1>14, <1>15 DEF AigerSound
  <1>17. Denoted(Append(rs, t), Append(ms, f)) = D \union {<<t, f>>}
    BY <1>11, DenotedGrows DEF D
  <1>18. AigerOK(lib, s, ws, A, P, Append(rs, t), Append(ms, f))
    BY <1>16, <1>17 DEF AigerOK
  <1> QED BY <1>1, <1>18 DEF f, ws

LEMMA AigerAssertOK ==
    ASSUME NEW lib, NEW g, NEW vs, NEW A, NEW P, NEW rs, NEW ms,
           AigerOK(lib, g, vs, A, P, rs, ms), NEW k \in DOMAIN ms
    PROVE  AigerOK(lib, [g EXCEPT !.assertions = @ \union {rs[k]}], vs,
                   A \intersect ms[k], P \intersect ms[k], rs, ms)
  <1> DEFINE n == g.maxvar
             D == Denoted(rs, ms)
             l == rs[k]
             f == ms[k]
             s == [g EXCEPT !.assertions = @ \union {l}]
  <1>1. /\ AigerTypes(lib, g) /\ Handed(g) /\ n \in Nat \ {0}
        /\ vs \in [DOMAIN vs -> AigerLit(n)] /\ D \subseteq AigerLit(n) \X SUBSET Assignment
        /\ Sound(Known(g), n, SatLits(vs), A, P, AllPending(g), SatDenoted(D))
    BY DEF AigerOK, AigerSound, AigerTypes
  <1>2. /\ s.maxvar = n /\ s.ands = g.ands /\ s.assertions = g.assertions \union {l}
        /\ s.assumptions = g.assumptions /\ s.evaluated = g.evaluated /\ s.solver = g.solver
        /\ s = [maxvar |-> s.maxvar, ands |-> s.ands, assertions |-> s.assertions,
                assumptions |-> s.assumptions, evaluated |-> s.evaluated, solver |-> s.solver]
    <2>1. g = [maxvar |-> g.maxvar, ands |-> g.ands, assertions |-> g.assertions,
               assumptions |-> g.assumptions, evaluated |-> g.evaluated, solver |-> g.solver]
      BY <1>1 DEF AigerTypes
    <2> HIDE DEF l, n
    <2> QED BY <2>1 DEF n
  <1>3. <<l, f>> \in D
    BY DEF Denoted
  <1> HIDE DEF s, l, f, D
  <1>4. l \in AigerLit(n)
    BY <1>1, <1>3
  <1>5. AigerTypes(lib, s)
    <2>1. s.assertions \subseteq AigerLit(s.maxvar) /\ TrueVar \in s.assertions
      BY <1>1, <1>2, <1>4 DEF AigerTypes
    <2>2. g.ands = s.ands /\ g.maxvar = s.maxvar /\ g.assumptions = s.assumptions /\ g.solver = s.solver
      BY <1>2
    <2>3. /\ s.maxvar \in Nat \ {0}
          /\ s.ands \in Seq([lhs : {2 * v : v \in 1..s.maxvar}, rhs0 : AigerLit(s.maxvar),
                       rhs1 : AigerLit(s.maxvar)])
          /\ s.assumptions \subseteq AigerLit(s.maxvar)
          /\ IsWrapper(lib, s.solver)
      BY <1>1, <2>2, Zenon DEF AigerTypes
    <2> QED BY <1>2, <2>1, <2>3, Zenon DEF AigerTypes
  <1>6. Known(s) = Known(g) \union {{SatLit(l)}}
    <2>1. {SatLit(x) : x \in s.assertions} = {SatLit(x) : x \in g.assertions} \union {SatLit(l)}
      BY <1>2
    <2>2. \A S, x : Units(S \union {x}) = Units(S) \union {{x}}
      BY DEF Units
    <2>3. Gates(s) = Gates(g)
      BY <1>2 DEF Gates
    <2> DEFINE S == {SatLit(x) : x \in g.assertions}
               T == {SatLit(x) : x \in s.assertions}
               q == SatLit(l)
    <2>4. T = S \union {q}
      BY <2>1
    <2>5. Known(s) = Gates(s) \union Units(T) /\ Known(g) = Gates(g) \union Units(S)
      BY DEF Known
    <2> HIDE DEF S, T, q
    <2>6. Units(T) = Units(S) \union {{q}}
      BY <2>2, <2>4
    <2>7. Known(s) = Known(g) \union {{q}}
      BY <2>3, <2>5, <2>6
    <2> QED BY <2>7 DEF q
  <1>7. AllPending(s) = AllPending(g)
    BY <1>2 DEF AllPending
  <1>8. Handed(s)
    BY <1>1, <1>2, <1>6 DEF Handed
  <1>9. <<SatLit(l), f>> \in SatDenoted(D)
    <2>1. <<SatLit(<<l, f>>[1]), <<l, f>>[2]>> \in SatDenoted(D)
      BY <1>3 DEF SatDenoted
    <2> QED BY <2>1
  <1>10. Sound(Known(g) \union {{SatLit(l)}}, n, SatLits(vs), A \intersect f, P \intersect f,
               AllPending(g), SatDenoted(D))
    BY <1>1, <1>9, AssertSound
  <1>11. AigerSound(lib, s, vs, A \intersect f, P \intersect f, D)
    BY <1>1, <1>2, <1>5, <1>6, <1>7, <1>8, <1>10 DEF AigerSound
  <1> QED BY <1>11 DEF AigerOK, s, l, f, D

LEMMA AigerAssumeOK ==
    ASSUME NEW lib, NEW g, NEW vs, NEW A, NEW P, NEW rs, NEW ms,
           AigerOK(lib, g, vs, A, P, rs, ms), NEW k \in DOMAIN ms
    PROVE  AigerOK(lib, [g EXCEPT !.assumptions = @ \union {rs[k]}], vs,
                   A, P \intersect ms[k], rs, ms)
  <1> DEFINE n == g.maxvar
             D == Denoted(rs, ms)
             l == rs[k]
             f == ms[k]
             s == [g EXCEPT !.assumptions = @ \union {l}]
  <1>1. /\ AigerTypes(lib, g) /\ Handed(g) /\ n \in Nat \ {0}
        /\ vs \in [DOMAIN vs -> AigerLit(n)] /\ D \subseteq AigerLit(n) \X SUBSET Assignment
        /\ Sound(Known(g), n, SatLits(vs), A, P, AllPending(g), SatDenoted(D))
    BY DEF AigerOK, AigerSound, AigerTypes
  <1>2. /\ s.maxvar = n /\ s.ands = g.ands /\ s.assertions = g.assertions
        /\ s.assumptions = g.assumptions \union {l} /\ s.evaluated = g.evaluated /\ s.solver = g.solver
        /\ s = [maxvar |-> s.maxvar, ands |-> s.ands, assertions |-> s.assertions,
                assumptions |-> s.assumptions, evaluated |-> s.evaluated, solver |-> s.solver]
    <2>1. g = [maxvar |-> g.maxvar, ands |-> g.ands, assertions |-> g.assertions,
               assumptions |-> g.assumptions, evaluated |-> g.evaluated, solver |-> g.solver]
      BY <1>1 DEF AigerTypes
    <2> HIDE DEF l, n
    <2> QED BY <2>1 DEF n
  <1>3. <<l, f>> \in D
    BY DEF Denoted
  <1> HIDE DEF s, l, f, D
  <1>4. l \in AigerLit(n)
    BY <1>1, <1>3
  <1>5. AigerTypes(lib, s)
    <2>1. s.assumptions \subseteq AigerLit(s.maxvar)
      BY <1>1, <1>2, <1>4 DEF AigerTypes
    <2>2. g.ands = s.ands /\ g.maxvar = s.maxvar /\ g.assertions = s.assertions /\ g.solver = s.solver
      BY <1>2
    <2>3. /\ s.maxvar \in Nat \ {0}
          /\ s.ands \in Seq([lhs : {2 * v : v \in 1..s.maxvar}, rhs0 : AigerLit(s.maxvar),
                       rhs1 : AigerLit(s.maxvar)])
          /\ s.assertions \subseteq AigerLit(s.maxvar) /\ TrueVar \in s.assertions
          /\ IsWrapper(lib, s.solver)
      BY <1>1, <2>2, Zenon DEF AigerTypes
    <2> QED BY <1>2, <2>1, <2>3, Zenon DEF AigerTypes
  <1>6. Known(s) = Known(g)
    BY <1>2 DEF Known, Gates
  <1>7. AllPending(s) = AllPending(g) \union {SatLit(l)}
    <2>1. {SatLit(x) : x \in s.assumptions} = {SatLit(x) : x \in g.assumptions} \union {SatLit(l)}
      BY <1>2
    <2> QED BY <1>2, <2>1 DEF AllPending
  <1>8. Handed(s)
    BY <1>1, <1>2, <1>6 DEF Handed
  <1>9. <<SatLit(l), f>> \in SatDenoted(D)
    <2>1. <<SatLit(<<l, f>>[1]), <<l, f>>[2]>> \in SatDenoted(D)
      BY <1>3 DEF SatDenoted
    <2> QED BY <2>1
  <1>10. Sound(Known(g), n, SatLits(vs), A, P \intersect f,
               AllPending(g) \union {SatLit(l)}, SatDenoted(D))
    BY <1>1, <1>9, AssumeSound
  <1>11. AigerSound(lib, s, vs, A, P \intersect f, D)
    BY <1>1, <1>2, <1>5, <1>6, <1>7, <1>8, <1>10 DEF AigerSound
  <1> QED BY <1>11 DEF AigerOK, s, l, f, D

(* What solve() hands to the library: in the end it has all the gates, all *)
(* the assertions and all that is pending.                                 *)
LEMMA AigerFlushed ==
    ASSUME NEW lib, NEW g, AigerTypes(lib, g), Handed(g), NEW s, s = AigerFlush(lib, g)
    PROVE  /\ s = [maxvar |-> s.maxvar, ands |-> s.ands, assertions |-> s.assertions,
                   assumptions |-> s.assumptions, evaluated |-> s.evaluated, solver |-> s.solver]
           /\ s.maxvar = g.maxvar /\ s.ands = g.ands /\ s.assertions = g.assertions
           /\ s.assumptions = {}
           /\ s.evaluated \subseteq {2 * v : v \in 1..g.maxvar}
           /\ IsWrapper(lib, s.solver) /\ s.solver.last = g.maxvar
           /\ Solved(s.solver) = Known(g) /\ Pending(s.solver) = AllPending(g)
  <1> DEFINE E == {g.ands[k].lhs : k \in Fresh(g)}
             cs == UNION {GateClauses(g.ands[k]) : k \in Fresh(g)}
             us == Units({SatLit(l) : l \in g.assertions})
             ls == {SatLit(l) : l \in g.assumptions}
             w1 == Clauses(lib, g.solver, cs)
             w2 == [w1 EXCEPT !.last = g.maxvar]
             w3 == Clauses(lib, w2, us)
             w4 == AssumeLits(lib, w3, ls)
             g1 == AigerEval(lib, g)
             g2 == HandAssertions(lib, g1)
  <1>1. g = [maxvar |-> g.maxvar, ands |-> g.ands, assertions |-> g.assertions,
             assumptions |-> g.assumptions, evaluated |-> g.evaluated, solver |-> g.solver]
        /\ IsWrapper(lib, g.solver)
    BY DEF AigerTypes
  <1>2. IsWrapper(lib, w1) /\ Solved(w1) = Solved(g.solver) \union cs /\ Pending(w1) = Pending(g.solver)
    <2> HIDE DEF cs
    <2> QED BY <1>1, WrapperClauses
  <1>3. /\ IsWrapper(lib, w2) /\ Solved(w2) = Solved(w1) /\ Pending(w2) = Pending(w1)
        /\ w2.last = g.maxvar
    <2> HIDE DEF w1
    <2> QED BY <1>2 DEF IsWrapper, Solved, Pending
  <1>4. /\ IsWrapper(lib, w3) /\ Solved(w3) = Solved(w2) \union us /\ Pending(w3) = Pending(w2)
        /\ w3.last = w2.last
    <2> HIDE DEF w1, w2, us
    <2> QED BY <1>3, WrapperClauses
  <1>5. /\ IsWrapper(lib, w4) /\ Solved(w4) = Solved(w3) /\ Pending(w4) = Pending(w3) \union ls
        /\ w4.last = w3.last
    <2> HIDE DEF w1, w2, w3, us, ls
    <2> QED BY <1>4, WrapperAssume
  <1>6. g1 = [maxvar |-> g.maxvar, ands |-> g.ands, assertions |-> g.assertions,
              assumptions |-> g.assumptions, evaluated |-> g.evaluated \union E, solver |-> w2]
    <2>1. g1 = [g EXCEPT !.evaluated = @ \union E, !.solver = w2]
      BY <1>1 DEF AigerEval
    <2> HIDE DEF E, w2
    <2> QED BY <1>1, <2>1
  <1> HIDE DEF w2, g1, E, cs
  <1>7. g2 = [maxvar |-> g.maxvar, ands |-> g.ands, assertions |-> g.assertions,
              assumptions |-> g.assumptions, evaluated |-> g.evaluated \union E, solver |-> w3]
    <2>1. g1.solver = w2 /\ g1.assertions = g.assertions
      BY <1>6
    <2>2. g2 = [g1 EXCEPT !.solver = w3]
      BY <2>1 DEF HandAssertions
    <2> HIDE DEF w3, g2
    <2> QED BY <1>6, <2>2
  <1> HIDE DEF w3, g2
  <1>8. s = [maxvar |-> g.maxvar, ands |-> g.ands, assertions |-> g.assertions,
             assumptions |-> {}, evaluated |-> g.evaluated \union E, solver |-> w4]
    <2>1. g2.solver = w3 /\ g2.assumptions = g.assumptions
      BY <1>7
    <2>2. s = HandAssumptions(lib, g2)
      BY DEF AigerFlush, g1, g2
    <2>3. s = [g2 EXCEPT !.solver = w4, !.assumptions = {}]
      BY <2>1, <2>2 DEF HandAssumptions
    <2> HIDE DEF w4
    <2> QED BY <1>7, <2>3
  <1> HIDE DEF w4
  <1>9. g.evaluated \union E \subseteq {2 * v : v \in 1..g.maxvar}
    <2>1. \A k \in Fresh(g) : g.ands[k].lhs \in {2 * v : v \in 1..g.maxvar}
      <3> DEFINE L == {2 * v : v \in 1..g.maxvar}
                 R == AigerLit(g.maxvar)
      <3>1. g.ands \in Seq([lhs : L, rhs0 : R, rhs1 : R])
        BY DEF AigerTypes
      <3> HIDE DEF L, R
      <3>2. \A k \in 1..Len(g.ands) : g.ands[k] \in [lhs : L, rhs0 : R, rhs1 : R]
        <4> DEFINE S == [lhs : L, rhs0 : R, rhs1 : R]
        <4> HIDE DEF S
        <4>1. g.ands \in Seq(S)
          BY <3>1 DEF S
        <4>2. \A k \in 1..Len(g.ands) : g.ands[k] \in S
          BY <4>1
        <4> QED BY <4>2 DEF S
      <3>3. \A k \in 1..Len(g.ands) : g.ands[k].lhs \in L
        BY <3>2
      <3> QED BY <3>3 DEF Fresh, L
    <2>2. g.evaluated \subseteq {2 * v : v \in 1..g.maxvar}
      BY DEF Handed
    <2> QED BY <2>1, <2>2 DEF E
  <1>10. Solved(g.solver) \union cs \union us = Known(g)
    <2>1. \A c \in cs : c \in Gates(g)
      BY DEF cs, Gates, Fresh
    <2>2. \A c \in Gates(g) : c \in Solved(g.solver) \/ c \in cs
      <3> SUFFICES ASSUME NEW c \in Gates(g), c \notin Solved(g.solver) PROVE c \in cs
        OBVIOUS
      <3>1. PICK k \in 1..Len(g.ands) : c \in GateClauses(g.ands[k])
        BY DEF Gates
      <3>2. g.ands[k].lhs \notin g.evaluated
        BY <3>1 DEF Handed
      <3>3. k \in Fresh(g)
        BY <3>2 DEF Fresh
      <3> QED BY <3>1, <3>3 DEF cs
    <2>3. Known(g) = Gates(g) \union us
      BY DEF Known
    <2>4. Solved(g.solver) \subseteq Known(g)
      BY DEF Handed
    <2> HIDE DEF us
    <2> QED BY <2>1, <2>2, <2>3, <2>4
  <1>11. Solved(w4) = Known(g) /\ Pending(w4) = AllPending(g) /\ w4.last = g.maxvar
    BY <1>2, <1>3, <1>4, <1>5, <1>10 DEF AllPending
  <1> QED BY <1>5, <1>8, <1>9, <1>11

LEMMA AigerSolvedOK ==
    ASSUME NEW lib, NEW g, NEW vs, NEW A, NEW P, NEW rs, NEW ms,
           AigerOK(lib, g, vs, A, P, rs, ms)
    PROVE  AigerOK(lib, AigerSolved(lib, g), vs, A, A, rs, ms)
  <1> DEFINE n == g.maxvar
             D == Denoted(rs, ms)
             s == AigerFlush(lib, g)
             w == SatSolved(lib, s.solver)
             t == AigerSolved(lib, g)
  <1>1. /\ AigerTypes(lib, g) /\ Handed(g) /\ n \in Nat \ {0}
        /\ vs \in [DOMAIN vs -> AigerLit(n)] /\ D \subseteq AigerLit(n) \X SUBSET Assignment
        /\ Sound(Known(g), n, SatLits(vs), A, P, AllPending(g), SatDenoted(D))
    BY DEF AigerOK, AigerSound, AigerTypes
  <1>2. /\ s = [maxvar |-> s.maxvar, ands |-> s.ands, assertions |-> s.assertions,
                assumptions |-> s.assumptions, evaluated |-> s.evaluated, solver |-> s.solver]
        /\ s.maxvar = n /\ s.ands = g.ands /\ s.assertions = g.assertions
        /\ s.assumptions = {}
        /\ s.evaluated \subseteq {2 * v : v \in 1..g.maxvar}
        /\ IsWrapper(lib, s.solver) /\ s.solver.last = n
        /\ Solved(s.solver) = Known(g) /\ Pending(s.solver) = AllPending(g)
    BY <1>1, AigerFlushed, ZenonT(40)
  <1>3. t = [s EXCEPT !.solver = w]
    BY DEF AigerSolved
  <1> HIDE DEF s
  <1>4. /\ IsWrapper(lib, w) /\ Solved(w) = Known(g)
        /\ \/ Pending(w) = {}
           \/ Pending(w) = AllPending(g) /\ Models(Known(g), n) = {}
    <2> DEFINE u == s.solver
    <2> HIDE DEF u
    <2>1. IsWrapper(lib, u) /\ u.last = n /\ Solved(u) = Known(g) /\ Pending(u) = AllPending(g)
      BY <1>2 DEF u
    <2>2. /\ IsWrapper(lib, SatSolved(lib, u)) /\ Solved(SatSolved(lib, u)) = Solved(u)
          /\ \/ Pending(SatSolved(lib, u)) = {}
             \/ Pending(SatSolved(lib, u)) = Pending(u) /\ Models(Solved(u), u.last) = {}
      BY <2>1, WrapperSolved
    <2>3. w = SatSolved(lib, u)
      BY DEF u
    <2> HIDE DEF w, n
    <2> QED BY <2>1, <2>2, <2>3
  <1> HIDE DEF w
  <1>5. /\ t.maxvar = n /\ t.ands = g.ands /\ t.assertions = g.assertions /\ t.assumptions = {}
        /\ t.evaluated \subseteq {2 * v : v \in 1..n} /\ t.solver = w
        /\ t = [maxvar |-> t.maxvar, ands |-> t.ands, assertions |-> t.assertions,
                assumptions |-> t.assumptions, evaluated |-> t.evaluated, solver |-> t.solver]
    <2> HIDE DEF t
    <2> QED BY <1>2, <1>3
  <1> HIDE DEF t, n, D
  <1>6. AigerTypes(lib, t)
    <2>1. t.ands = g.ands /\ t.maxvar = g.maxvar /\ t.assertions = g.assertions
      BY <1>5 DEF n
    <2>2. /\ t.maxvar \in Nat \ {0}
          /\ t.ands \in Seq([lhs : {2 * v : v \in 1..t.maxvar}, rhs0 : AigerLit(t.maxvar),
                       rhs1 : AigerLit(t.maxvar)])
          /\ t.assertions \subseteq AigerLit(t.maxvar) /\ TrueVar \in t.assertions
      BY <1>1, <2>1, Zenon DEF AigerTypes
    <2>3. t.assumptions \subseteq AigerLit(t.maxvar) /\ IsWrapper(lib, t.solver)
      BY <1>4, <1>5
    <2> QED BY <1>5, <2>2, <2>3, Zenon DEF AigerTypes
  <1>7. Known(t) = Known(g) /\ Gates(t) = Gates(g)
    BY <1>5 DEF Known, Gates
  <1>8. AllPending(t) = Pending(w)
    BY <1>5 DEF AllPending
  <1>9. Handed(t)
    <2>1. Solved(t.solver) = Known(t)
      BY <1>4, <1>5, <1>7
    <2>2. ASSUME NEW k \in 1..Len(t.ands) PROVE GateClauses(t.ands[k]) \subseteq Solved(t.solver)
      <3>1. GateClauses(t.ands[k]) \subseteq Gates(t)
        BY DEF Gates
      <3>2. Gates(t) \subseteq Known(t)
        BY DEF Known
      <3> QED BY <2>1, <3>1, <3>2
    <2> QED BY <1>5, <2>1, <2>2 DEF Handed
  <1>10. Sound(Known(g), n, SatLits(vs), A, A, Pending(w), SatDenoted(D))
    <2>1. CASE Pending(w) = {}
      <3>1. Sound(Known(g), n, SatLits(vs), A, A, {}, SatDenoted(D))
        BY <1>1, ForgetSound
      <3> QED BY <2>1, <3>1
    <2>2. CASE Pending(w) = AllPending(g) /\ Models(Known(g), n) = {}
      <3>1. n \in Nat /\ Known(g) \subseteq SUBSET Lit(n)
        BY <1>1 DEF Sound, LitTypes
      <3>2. \A m \in [1..n -> BOOLEAN] : ~Satisfies(m, Known(g))
        BY <2>2, <3>1, ModelsSatisfy
      <3> QED BY <1>1, <2>2, <3>2, ForgetSound
    <2> QED BY <1>4, <2>1, <2>2
  <1>11. AigerSound(lib, t, vs, A, A, D)
    BY <1>1, <1>5, <1>6, <1>7, <1>8, <1>9, <1>10 DEF AigerSound
  <1> QED BY <1>11 DEF AigerOK, t, D

LEMMA AigerFound ==
    ASSUME NEW lib, NEW g, NEW vs, NEW A, NEW P, NEW rs, NEW ms,
           AigerOK(lib, g, vs, A, P, rs, ms)
    PROVE  /\ AigerModels(lib, g) = {} <=> P = {}
           /\ \A m \in AigerModels(lib, g) :
                 /\ m \in [1..g.maxvar -> BOOLEAN]
                 /\ \A a \in Assignment : Agrees(m, SatLits(vs), a) => a \in P
           /\ g.maxvar \in Nat
           /\ DOMAIN SatLits(vs) = DOMAIN vs
           /\ \A v \in DOMAIN vs : SatLits(vs)[v] = SatLit(vs[v]) /\ SatLit(vs[v]) \in Lit(g.maxvar)
  <1> DEFINE w == AigerFlush(lib, g).solver
  <1>1. /\ AigerTypes(lib, g) /\ Handed(g)
        /\ Sound(Known(g), g.maxvar, SatLits(vs), A, P, AllPending(g), SatDenoted(Denoted(rs, ms)))
    BY DEF AigerOK, AigerSound
  <1>2. /\ IsWrapper(lib, w) /\ w.last = g.maxvar
        /\ Solved(w) = Known(g) /\ Pending(w) = AllPending(g)
    BY <1>1, AigerFlushed
  <1>3. AigerModels(lib, g) = SatModels(lib, w)
    BY DEF AigerModels
  <1> HIDE DEF w
  <1>4. AigerModels(lib, g) = Models(Known(g) \union Units(AllPending(g)), g.maxvar)
    BY <1>2, <1>3, WrapperModels
  <1>5. /\ Models(Known(g) \union Units(AllPending(g)), g.maxvar) = {} <=> P = {}
        /\ \A m \in Models(Known(g) \union Units(AllPending(g)), g.maxvar) :
              /\ m \in [1..g.maxvar -> BOOLEAN]
              /\ \A a \in Assignment : Agrees(m, SatLits(vs), a) => a \in P
    BY <1>1, FoundSound, Zenon
  <1>6. g.maxvar \in Nat /\ SatLits(vs) \in [DOMAIN SatLits(vs) -> Lit(g.maxvar)]
    BY <1>1 DEF Sound, LitTypes
  <1>7. DOMAIN SatLits(vs) = DOMAIN vs /\ \A v \in DOMAIN vs : SatLits(vs)[v] = SatLit(vs[v])
    BY DEF SatLits
  <1>8. \A v \in DOMAIN vs : SatLits(vs)[v] \in Lit(g.maxvar)
    BY <1>6, <1>7
  <1> QED BY <1>4, <1>5, <1>6, <1>7, <1>8

(***************************************************************************)
(* The opcode maps of the bit-vector back ends.                            *)
(***************************************************************************)
(* h has the entries of f and otherwise those of g.                        *)
Overrides(h, f, g) ==
    /\ DOMAIN h = DOMAIN f \union DOMAIN g
    /\ \A x \in DOMAIN f : h[x] = f[x]
    /\ \A x \in DOMAIN g : x \notin DOMAIN f => h[x] = g[x]
LEMMA Overridden ==
    ASSUME NEW f, NEW g
    PROVE  Overrides(Over(f, g), f, g)
  BY DEF Over, Overrides

Plain(fn) == Call(fn, FALSE)
Denied(fn) == Call(fn, TRUE)
LEMMA MapsOf ==
    /\ \A S : Same(S) = [t \in S |-> Plain(t)]
    /\ \A f : As(f) = [t \in DOMAIN f |-> Plain(f[t])]
    /\ \A f : Negated(f) = [t \in DOMAIN f |-> Denied(f[t])]
  BY Zenon DEF Same, As, Negated, Plain, Denied

Renamed == As([equal |-> "eq"])
LEMMA CommonOpcodes ==
    /\ DOMAIN Common = PredicateTag \union CompareTag \union WordTag \union {"equal", "bvshr", "bvcomp"}
    /\ \A tag \in {"and", "or", "xor", "implies"} : Common[tag] = Plain(tag)
    /\ Common["nand"] = Denied("and") /\ Common["nor"] = Denied("or")
    /\ Common["xnor"] = Denied("xor") /\ Common["equal"] = Plain("eq")
  <1> DEFINE N == NegatedPredicates
             R == Renamed
             S == Shifts
             rest == Same(PredicateTag \union CompareTag \union WordTag)
             sr == Over(S, rest)
             rsr == Over(R, sr)
  <1>1. /\ DOMAIN N = {"nand", "nor", "xnor"} /\ N["nand"] = Denied("and")
        /\ N["nor"] = Denied("or") /\ N["xnor"] = Denied("xor")
    BY MapsOf DEF NegatedPredicates
  <1>2. DOMAIN R = {"equal"} /\ R["equal"] = Plain("eq")
    BY MapsOf DEF Renamed
  <1>3. DOMAIN S = {"bvshr", "bvcomp"}
    BY MapsOf DEF Shifts
  <1>4. /\ DOMAIN rest = PredicateTag \union CompareTag \union WordTag
        /\ \A tag \in DOMAIN rest : rest[tag] = Plain(tag)
    BY MapsOf
  <1>5. Common = Over(N, rsr)
    BY DEF Common, Renamed
  <1> HIDE DEF N, R, S, rest
  <1>6. /\ DOMAIN sr = {"bvshr", "bvcomp"} \union DOMAIN rest
        /\ \A tag \in DOMAIN rest : tag \notin {"bvshr", "bvcomp"} => sr[tag] = Plain(tag)
    <2>1. Overrides(sr, S, rest)
      BY Overridden
    <2> HIDE DEF sr
    <2> QED BY <1>3, <1>4, <2>1 DEF Overrides
  <1> HIDE DEF sr
  <1>7. /\ DOMAIN rsr = {"equal"} \union DOMAIN sr /\ rsr["equal"] = Plain("eq")
        /\ \A tag \in DOMAIN sr : tag # "equal" => rsr[tag] = sr[tag]
    <2>1. Overrides(rsr, R, sr)
      BY Overridden
    <2> HIDE DEF rsr
    <2> QED BY <1>2, <2>1 DEF Overrides
  <1> HIDE DEF rsr
  <1>8. /\ DOMAIN Common = {"nand", "nor", "xnor"} \union DOMAIN rsr
        /\ \A tag \in {"nand", "nor", "xnor"} : Common[tag] = N[tag]
        /\ \A tag \in DOMAIN rsr : tag \notin {"nand", "nor", "xnor"} => Common[tag] = rsr[tag]
    <2>1. Overrides(Common, N, rsr)
      BY <1>5, Overridden
    <2> QED BY <1>1, <2>1 DEF Overrides
  <1>9. {"and", "or", "xor", "implies", "nand", "nor", "xnor"} \subseteq DOMAIN rest
    BY <1>4 DEF PredicateTag
  <1>10. ASSUME NEW tag \in {"and", "or", "xor", "implies"} PROVE Common[tag] = Plain(tag)
    <2>1. tag \in DOMAIN rest /\ tag \notin {"bvshr", "bvcomp"} /\ tag # "equal" /\ tag \notin {"nand", "nor", "xnor"}
      BY <1>9
    <2>2. tag \in DOMAIN sr /\ tag \in DOMAIN rsr
      BY <1>6, <1>7, <2>1
    <2> QED BY <1>6, <1>7, <1>8, <2>1, <2>2
  <1>11. DOMAIN Common = PredicateTag \union CompareTag \union WordTag \union {"equal", "bvshr", "bvcomp"}
    BY <1>4, <1>6, <1>7, <1>8, <1>9
  <1> QED BY <1>1, <1>7, <1>8, <1>10, <1>11

(* The opcode of a predicate: what the library is asked for, and whether   *)
(* it is negated.                                                          *)
LEMMA OpcodeOf ==
    ASSUME NEW k \in SmtKind, NEW T, T = Opcodes[k]
    PROVE  /\ \A tag \in {"and", "or", "xor", "implies"} : T[tag] = Plain(tag)
           /\ T["nand"] = Denied("and") /\ T["nor"] = Denied("or")
           /\ T["xnor"] = Denied("xor") /\ T["equal"] = Plain("eq")
           /\ \A tag \in {"nequal", "distinct"} : T[tag] \in {Plain("neq"), Denied("eq")}
  <1> DEFINE M == Negated([nequal |-> "eq", distinct |-> "eq"])
             two == {"nequal", "distinct"}
             wc == Over(NegatedWords, Common)
  <1>1. DOMAIN Distinct = two /\ \A tag \in two : Distinct[tag] = Plain("neq")
    BY MapsOf DEF Distinct
  <1>2. DOMAIN M = two /\ \A tag \in two : M[tag] = Denied("eq")
    BY MapsOf
  <1>3. DOMAIN NegatedWords = {"bvnand", "bvnor", "bvxnor"}
    BY MapsOf DEF NegatedWords
  <1>4. T = Over(Distinct, Common) \/ T = Over(M, wc)
    BY DEF Opcodes, SmtKind, Z3Opcodes, STPOpcodes, CVC4Opcodes, Yices2Opcodes, BoolectorOpcodes
  <1> HIDE DEF M
  <1>5. ASSUME NEW tag \in PredicateTag \union {"equal"}
        PROVE  tag \in DOMAIN Common /\ tag \notin two /\ tag \notin DOMAIN NegatedWords
    BY <1>3, CommonOpcodes DEF PredicateTag
  <1>6. ASSUME NEW tag \in PredicateTag \union {"equal"}
        PROVE  tag \in DOMAIN wc /\ wc[tag] = Common[tag]
    <2>1. Overrides(wc, NegatedWords, Common)
      BY Overridden
    <2> HIDE DEF wc
    <2> QED BY <1>5, <2>1 DEF Overrides
  <1> HIDE DEF wc, two
  <1>9. Overrides(T, Distinct, Common) \/ Overrides(T, M, wc)
    BY <1>4, Overridden
  <1>7. ASSUME NEW tag \in PredicateTag \union {"equal"} PROVE T[tag] = Common[tag]
    BY <1>1, <1>2, <1>5, <1>6, <1>9 DEF Overrides
  <1>8. \A tag \in two : T[tag] \in {Plain("neq"), Denied("eq")}
    BY <1>1, <1>2, <1>9 DEF Overrides
  <1> QED BY <1>7, <1>8, CommonOpcodes DEF PredicateTag, two

(* The function of the library, negated or not, is that of the tag.        *)
LEMMA CalledPredicate ==
    ASSUME NEW k, NEW tag, NEW x \in BOOLEAN, NEW y \in BOOLEAN
    PROVE  /\ \A fn \in {"and", "or", "xor", "implies"} : Opcodes[k][tag] = Plain(fn) =>
                 (PredicateOp(k, tag, x, y) <=> LibraryPredicate(fn, x, y))
           /\ \A fn \in {"and", "or", "xor", "implies"} : Opcodes[k][tag] = Denied(fn) =>
                 (PredicateOp(k, tag, x, y) <=> ~LibraryPredicate(fn, x, y))
           /\ Opcodes[k][tag] = Plain("eq") => (PredicateOp(k, tag, x, y) <=> (x <=> y))
           /\ Opcodes[k][tag] \in {Plain("neq"), Denied("eq")} => (PredicateOp(k, tag, x, y) <=> ~(x <=> y))
           /\ LibraryPredicate("and", x, y) <=> x /\ y
           /\ LibraryPredicate("or", x, y) <=> x \/ y
           /\ LibraryPredicate("xor", x, y) <=> ~(x <=> y)
           /\ LibraryPredicate("implies", x, y) <=> (x => y)
           /\ LibraryPredicate("iff", x, y) <=> (x <=> y)
  <1> DEFINE c == Opcodes[k][tag]
             fn(d) == IF d.fn = "eq" THEN "iff" ELSE IF d.fn = "neq" THEN "xor" ELSE d.fn
  <1>1. PredicateOp(k, tag, x, y) <=> (LibraryPredicate(fn(c), x, y) # c.neg)
    BY Zenon DEF PredicateOp
  <1>2. /\ LibraryPredicate("and", x, y) <=> x /\ y
        /\ LibraryPredicate("or", x, y) <=> x \/ y
        /\ LibraryPredicate("implies", x, y) <=> (x => y)
    BY DEF LibraryPredicate
  <1>3. LibraryPredicate("xor", x, y) <=> ~(x <=> y)
    BY DEF LibraryPredicate
  <1>4. LibraryPredicate("iff", x, y) <=> (x <=> y)
    BY DEF LibraryPredicate
  <1>5. \A d : Plain(d).fn = d /\ Plain(d).neg = FALSE /\ Denied(d).fn = d /\ Denied(d).neg = TRUE
    BY DEF Plain, Denied, Call
  <1>6. \A d \in {"and", "or", "xor", "implies", "iff"} : LibraryPredicate(d, x, y) \in BOOLEAN
    BY DEF LibraryPredicate
  <1> HIDE DEF c
  <1>7. ASSUME NEW d \in {"and", "or", "xor", "implies"}, c = Plain(d)
        PROVE  PredicateOp(k, tag, x, y) <=> LibraryPredicate(d, x, y)
    <2>1. fn(c) = d /\ c.neg = FALSE
      BY <1>5, <1>7
    <2>2. PredicateOp(k, tag, x, y) <=> (LibraryPredicate(d, x, y) # FALSE)
      BY <1>1, <2>1, Zenon
    <2>3. LibraryPredicate(d, x, y) \in BOOLEAN
      BY <1>6
    <2> QED BY <2>2, <2>3, Zenon
  <1>8. ASSUME NEW d \in {"and", "or", "xor", "implies"}, c = Denied(d)
        PROVE  PredicateOp(k, tag, x, y) <=> ~LibraryPredicate(d, x, y)
    <2>1. fn(c) = d /\ c.neg = TRUE
      BY <1>5, <1>8
    <2>2. PredicateOp(k, tag, x, y) <=> (LibraryPredicate(d, x, y) # TRUE)
      BY <1>1, <2>1, Zenon
    <2>3. LibraryPredicate(d, x, y) \in BOOLEAN
      BY <1>6
    <2> QED BY <2>2, <2>3, Zenon
  <1>9. ASSUME c = Plain("eq") PROVE PredicateOp(k, tag, x, y) <=> (x <=> y)
    <2>1. fn(c) = "iff" /\ c.neg = FALSE
      BY <1>5, <1>9
    <2>2. PredicateOp(k, tag, x, y) <=> (LibraryPredicate("iff", x, y) # FALSE)
      BY <1>1, <2>1, Zenon
    <2>3. LibraryPredicate("iff", x, y) \in BOOLEAN
      BY <1>6
    <2> QED BY <1>4, <2>2, <2>3, Zenon
  <1>10. ASSUME c = Plain("neq") PROVE PredicateOp(k, tag, x, y) <=> ~(x <=> y)
    <2>1. fn(c) = "xor" /\ c.neg = FALSE
      BY <1>5, <1>10
    <2>2. PredicateOp(k, tag, x, y) <=> (LibraryPredicate("xor", x, y) # FALSE)
      BY <1>1, <2>1, Zenon
    <2>3. LibraryPredicate("xor", x, y) \in BOOLEAN
      BY <1>6
    <2> QED BY <1>3, <2>2, <2>3, Zenon
  <1>11. ASSUME c = Denied("eq") PROVE PredicateOp(k, tag, x, y) <=> ~(x <=> y)
    <2>1. fn(c) = "iff" /\ c.neg = TRUE
      BY <1>5, <1>11
    <2>2. PredicateOp(k, tag, x, y) <=> (LibraryPredicate("iff", x, y) # TRUE)
      BY <1>1, <2>1, Zenon
    <2>3. LibraryPredicate("iff", x, y) \in BOOLEAN
      BY <1>6
    <2> QED BY <1>4, <2>2, <2>3, Zenon
  <1>12. c \in {Plain("neq"), Denied("eq")} => (PredicateOp(k, tag, x, y) <=> ~(x <=> y))
    BY <1>10, <1>11, Zenon
  <1> QED BY <1>2, <1>3, <1>4, <1>7, <1>8, <1>9, <1>12, Zenon DEF c

(* An operation of a bit-vector back end means what SMT-LIB says, and one  *)
(* on BDDs does.                                                           *)
OperandsAre(tag, args, f, g, h) ==
    /\ f \in SUBSET Assignment /\ g \in SUBSET Assignment /\ h \in SUBSET Assignment
    /\ Arity(tag) >= 1 => args[1] = f
    /\ Arity(tag) >= 2 => args[2] = g
    /\ Arity(tag) >= 3 => args[3] = h

LEMMA BddOpMeans ==
    ASSUME NEW tag \in AllTag, NEW args, NEW f, NEW g, NEW h, OperandsAre(tag, args, f, g, h), NEW s
    PROVE  BddOp(s, tag, args) = Meant(tag, f, g, h)
  <1>1. f \subseteq Assignment /\ g \subseteq Assignment /\ h \subseteq Assignment
    BY DEF OperandsAre
  <1>2. Meant(tag, f, g, h) \subseteq Assignment
    BY DEF Meant
  <1> DEFINE M == Meant(tag, f, g, h)
             B == BddOp(s, tag, args)
  <1>3. CASE tag = "true"
    <2>1. B = Assignment BY <1>3 DEF BddOp, One
    <2>2. \A a \in Assignment : a \in M BY <1>3, MeantAt
    <2> QED BY <1>2, <2>1, <2>2
  <1>4. CASE tag = "false"
    <2>1. B = {} BY <1>4 DEF BddOp, Zero
    <2>2. \A a \in Assignment : a \notin M BY <1>4, MeantAt
    <2> QED BY <1>2, <2>1, <2>2
  <1>5. CASE tag = "not"
    <2>1. args[1] = f BY <1>5, ArityCases DEF OperandsAre
    <2>2. B = Assignment \ f BY <1>5, <2>1 DEF BddOp, BddNot
    <2>3. \A a \in Assignment : a \in M <=> a \notin f BY <1>5, MeantAt
    <2> QED BY <1>2, <2>2, <2>3
  <1>6. CASE tag = "ite"
    <2>1. args[1] = f /\ args[2] = g /\ args[3] = h BY <1>6, ArityCases DEF OperandsAre
    <2>2. B = (f \intersect g) \union (h \ f) BY <1>6, <2>1 DEF BddOp
    <2>3. \A a \in Assignment : a \in M <=> (a \in f /\ a \in g) \/ (a \notin f /\ a \in h) BY <1>6, MeantAt
    <2> HIDE DEF M, B
    <2>4. B = M BY <1>1, <1>2, <2>2, <2>3 DEF M
    <2> QED BY <2>4 DEF M, B
  <1>7. CASE tag \in GateTag \union EqualityTag \union {"implies"}
    <2>1. args[1] = f /\ args[2] = g BY <1>7, ArityCases DEF OperandsAre
    <2>2. CASE tag = "and"
      <3>1. B = f \intersect g BY <2>1, <2>2 DEF BddOp
      <3>2. \A a \in Assignment : a \in M <=> a \in f /\ a \in g BY <2>2, MeantAt
      <3> QED BY <1>1, <1>2, <3>1, <3>2
    <2>3. CASE tag = "nand"
      <3>1. B = Assignment \ (f \intersect g) BY <2>1, <2>3 DEF BddOp, BddNot
      <3>2. \A a \in Assignment : a \in M <=> ~(a \in f /\ a \in g) BY <2>3, MeantAt
      <3> QED BY <1>1, <1>2, <3>1, <3>2
    <2>4. CASE tag = "or"
      <3>1. B = f \union g BY <2>1, <2>4 DEF BddOp
      <3>2. \A a \in Assignment : a \in M <=> a \in f \/ a \in g BY <2>4, MeantAt
      <3> QED BY <1>1, <1>2, <3>1, <3>2
    <2>5. CASE tag = "nor"
      <3>1. B = Assignment \ (f \union g) BY <2>1, <2>5 DEF BddOp, BddNot
      <3>2. \A a \in Assignment : a \in M <=> ~(a \in f \/ a \in g) BY <2>5, MeantAt
      <3> QED BY <1>1, <1>2, <3>1, <3>2
    <2>6. CASE tag = "implies"
      <3>1. B = (Assignment \ f) \union g BY <2>1, <2>6 DEF BddOp, BddNot
      <3>2. \A a \in Assignment : a \in M <=> a \notin f \/ a \in g BY <2>6, MeantAt
      <3> QED BY <1>1, <1>2, <3>1, <3>2
    <2>7. CASE tag \in {"equal", "xnor"}
      <3>1. B = Assignment \ ((f \ g) \union (g \ f)) BY <2>1, <2>7 DEF BddOp, BddNot, BddXor
      <3>2. \A a \in Assignment : a \in M <=> (a \in f <=> a \in g) BY <2>7, MeantAt
      <3> HIDE DEF M, B
      <3>3. B = M BY <1>1, <1>2, <3>1, <3>2 DEF M
      <3> QED BY <3>3 DEF M, B
    <2>8. CASE tag \in {"nequal", "xor", "distinct"}
      <3>1. B = (f \ g) \union (g \ f) BY <2>1, <2>8 DEF BddOp, BddXor
      <3>2. \A a \in Assignment : a \in M <=> ~(a \in f <=> a \in g) BY <2>8, MeantAt
      <3> HIDE DEF M, B
      <3>3. B = M BY <1>1, <1>2, <3>1, <3>2 DEF M
      <3> QED BY <3>3 DEF M, B
    <2> QED BY <1>7, <2>2, <2>3, <2>4, <2>5, <2>6, <2>7, <2>8 DEF GateTag, EqualityTag
  <1> QED BY <1>3, <1>4, <1>5, <1>6, <1>7, ArityCases

LEMMA SmtOpMeans ==
    ASSUME NEW k \in SmtKinds, NEW tag \in AllTag, NEW args, NEW f, NEW g, NEW h,
           OperandsAre(tag, args, f, g, h)
    PROVE  SmtOp(k, tag, args) = Meant(tag, f, g, h)
  <1> DEFINE table == IF k = "Yices2OneShot" THEN "Yices2" ELSE k
             M == Meant(tag, f, g, h)
             T == Opcodes[table]
  <1>1. CASE tag \notin PredicateTag \union EqualityTag
    <2>1. SmtOp(k, tag, args) = BddOp(SmtInit, tag, args)
      BY <1>1 DEF SmtOp
    <2> QED BY <2>1, BddOpMeans
  <1>2. CASE tag \in PredicateTag \union EqualityTag
    <2>1. table \in SmtKind
      BY DEF SmtKinds, SmtKind
    <2>2. args[1] = f /\ args[2] = g
      <3>1. Arity(tag) = 2
        BY <1>2 DEF Arity, PredicateTag, EqualityTag
      <3> QED BY <3>1 DEF OperandsAre
    <2>3. SmtOp(k, tag, args) = {a \in Assignment : PredicateOp(table, tag, a \in f, a \in g)}
      BY <1>2, <2>2 DEF SmtOp
    <2> HIDE DEF table
    <2>4. /\ \A t \in {"and", "or", "xor", "implies"} : T[t] = Plain(t)
          /\ T["nand"] = Denied("and") /\ T["nor"] = Denied("or")
          /\ T["xnor"] = Denied("xor") /\ T["equal"] = Plain("eq")
          /\ \A t \in {"nequal", "distinct"} : T[t] \in {Plain("neq"), Denied("eq")}
      BY <2>1, OpcodeOf
    <2>5. ASSUME NEW a \in Assignment
          PROVE  PredicateOp(table, tag, a \in f, a \in g) <=> a \in M
      <3> DEFINE x == a \in f
                 y == a \in g
                 op == PredicateOp(table, tag, x, y)
      <3>1. x \in BOOLEAN /\ y \in BOOLEAN
        OBVIOUS
      <3>2. /\ \A fn \in {"and", "or", "xor", "implies"} : T[tag] = Plain(fn) =>
                 (op <=> LibraryPredicate(fn, x, y))
            /\ \A fn \in {"and", "or", "xor", "implies"} : T[tag] = Denied(fn) =>
                 (op <=> ~LibraryPredicate(fn, x, y))
            /\ T[tag] = Plain("eq") => (op <=> (x <=> y))
            /\ T[tag] \in {Plain("neq"), Denied("eq")} => (op <=> ~(x <=> y))
            /\ LibraryPredicate("and", x, y) <=> x /\ y
            /\ LibraryPredicate("or", x, y) <=> x \/ y
            /\ LibraryPredicate("xor", x, y) <=> ~(x <=> y)
            /\ LibraryPredicate("implies", x, y) <=> (x => y)
        <4> HIDE DEF x, y
        <4> QED BY <3>1, CalledPredicate, Zenon
      <3> HIDE DEF op, T, M
      <3>3. CASE tag = "and"
        <4>1. op <=> x /\ y BY <2>4, <3>2, <3>3, Zenon
        <4> QED BY <3>3, <4>1, MeantAt DEF op, M
      <3>4. CASE tag = "nand"
        <4>1. op <=> ~(x /\ y) BY <2>4, <3>2, <3>4, Zenon
        <4> QED BY <3>4, <4>1, MeantAt DEF op, M
      <3>5. CASE tag = "or"
        <4>1. op <=> x \/ y BY <2>4, <3>2, <3>5, Zenon
        <4> QED BY <3>5, <4>1, MeantAt DEF op, M
      <3>6. CASE tag = "nor"
        <4>1. op <=> ~(x \/ y) BY <2>4, <3>2, <3>6, Zenon
        <4> QED BY <3>6, <4>1, MeantAt DEF op, M
      <3>7. CASE tag = "xor"
        <4>1. op <=> ~(x <=> y) BY <2>4, <3>2, <3>7, Zenon
        <4> QED BY <3>7, <4>1, MeantAt DEF op, M
      <3>8. CASE tag = "xnor"
        <4>1. op <=> (x <=> y) BY <2>4, <3>2, <3>8, Zenon
        <4> QED BY <3>8, <4>1, MeantAt DEF op, M
      <3>9. CASE tag = "implies"
        <4>1. op <=> (x => y) BY <2>4, <3>2, <3>9, Zenon
        <4> QED BY <3>9, <4>1, MeantAt DEF op, M
      <3>10. CASE tag = "equal"
        <4>1. op <=> (x <=> y) BY <2>4, <3>2, <3>10, Zenon
        <4> QED BY <3>10, <4>1, MeantAt DEF op, M
      <3>11. CASE tag \in {"nequal", "distinct"}
        <4>1. op <=> ~(x <=> y) BY <2>4, <3>2, <3>11, Zenon
        <4> QED BY <3>11, <4>1, MeantAt DEF op, M
      <3> QED BY <1>2, <3>3, <3>4, <3>5, <3>6, <3>7, <3>8, <3>9, <3>10, <3>11 DEF op, PredicateTag, EqualityTag
    <2>6. M \subseteq Assignment
      BY DEF Meant
    <2> HIDE DEF M
    <2>7. {a \in Assignment : PredicateOp(table, tag, a \in f, a \in g)} = M
      BY <2>5, <2>6, Zenon
    <2> QED BY <2>3, <2>7 DEF M
  <1> QED BY <1>1, <1>2

(***************************************************************************)
(* The bit-vector back ends.                                               *)
(***************************************************************************)
LEMMA SmtInitOK ==
    ASSUME NEW k \in SmtKinds
    PROVE  SmtOK(k, SmtInit, Assignment, Assignment)
  BY DEF SmtOK, SmtInit, SmtState, One

LEMMA SmtAssertOK ==
    ASSUME NEW k \in SmtKinds, NEW s, NEW A, NEW P, SmtOK(k, s, A, P), NEW f \in SUBSET Assignment
    PROVE  SmtOK(k, SmtAssert(k, s, f), A \intersect f, P \intersect f)
  <1>1. s \in SmtState
    BY DEF SmtOK
  <1>2. CASE k = "Yices2OneShot"
    BY <1>1, <1>2 DEF SmtOK, SmtAssert, Deferred, SmtState
  <1>3. CASE k \in {"CVC4", "Yices2"}
    BY <1>1, <1>3 DEF SmtOK, SmtAssert, Deferred, SmtState
  <1>4. CASE k \in {"Z3", "STP", "Boolector"}
    BY <1>1, <1>4 DEF SmtOK, SmtAssert, Deferred, SmtState
  <1> QED BY <1>2, <1>3, <1>4 DEF SmtKinds

LEMMA SmtAssumeOK ==
    ASSUME NEW k \in SmtKinds, NEW s, NEW A, NEW P, SmtOK(k, s, A, P), NEW f \in SUBSET Assignment
    PROVE  SmtOK(k, SmtAssume(k, s, f), A, P \intersect f)
  <1>1. s \in SmtState
    BY DEF SmtOK
  <1>2. CASE k = "Yices2OneShot"
    BY <1>1, <1>2 DEF SmtOK, SmtAssume, SmtState
  <1>3. CASE k \in {"CVC4", "Yices2"}
    BY <1>1, <1>3 DEF SmtOK, SmtAssume, SmtState
  <1>4. CASE k = "Boolector"
    BY <1>1, <1>4 DEF SmtOK, SmtAssume, SmtState
  <1>5. CASE k \in {"Z3", "STP"}
    BY <1>1, <1>5 DEF SmtOK, SmtAssume, SmtState
  <1> QED BY <1>2, <1>3, <1>4, <1>5 DEF SmtKinds

(* removeOldAssumptions() and pushAssertions() leave what was asserted on  *)
(* level 1 and what was assumed in assumptions_.                           *)
LEMMA SmtFlushed ==
    ASSUME NEW k \in {"CVC4", "Yices2"}, NEW s, NEW A, NEW P, SmtOK(k, s, A, P), NEW h,
           h = Flushed(k, s)
    PROVE  /\ h \in SmtState /\ h.level1 = A /\ h.asserts = One /\ h.level2 = One
           /\ h.level1 \intersect h.assumes = P /\ ~h.isPushed /\ h.held = s.held
           /\ ~h.held => h.assumes = One
  <1>1. s \in SmtState /\ s.level1 \intersect s.asserts = A
        /\ s.level1 \intersect s.asserts \intersect s.assumes = P
        /\ (~s.isPushed => s.level2 = One) /\ (~s.held => s.assumes = One)
    BY DEF SmtOK
  <1> DEFINE e == RemoveOld(k, s)
  <1>2. /\ e \in SmtState /\ e.level1 = s.level1 /\ e.asserts = s.asserts /\ e.assumes = s.assumes
        /\ e.level2 = One /\ ~e.isPushed /\ e.held = s.held
    BY <1>1 DEF RemoveOld, SmtState, One
  <1>3. h = PushAssertions(k, e)
    BY DEF Flushed
  <1> HIDE DEF e
  <1>4. /\ h \in SmtState /\ h.level1 = e.level1 \intersect e.asserts /\ h.asserts = One
        /\ h.assumes = e.assumes /\ h.level2 = One /\ ~h.isPushed /\ h.held = e.held
    <2>1. h = [e EXCEPT !.level1 = @ \intersect e.asserts, !.asserts = One]
      BY <1>3 DEF PushAssertions
    <2>2. One \in SUBSET Assignment
      BY DEF One
    <2> QED BY <1>2, <2>1, <2>2 DEF SmtState
  <1> QED BY <1>1, <1>2, <1>4

LEMMA SmtSolvedOK ==
    ASSUME NEW k \in SmtKinds, NEW s, NEW A, NEW P, SmtOK(k, s, A, P)
    PROVE  /\ SmtOK(k, SmtSolved(k, s), A, A) /\ SmtAsked(k, s) = P
           /\ k = "Yices2" => SmtSolved(k, s).held = FALSE
  <1>1. s \in SmtState
    BY DEF SmtOK
  <1>2. CASE k = "Yices2OneShot"
    <2>1. s.asserts = A /\ s.asserts \intersect s.assumes = P /\ s.level2 = One /\ ~s.isPushed
      BY <1>2 DEF SmtOK
    <2> DEFINE d == Deferring(k, s)
    <2>2. /\ d \in SmtState /\ d.asserts = s.asserts /\ d.assumes = One /\ d.level2 = s.level2
          /\ d.isPushed = s.isPushed /\ d.level1 = One \intersect s.asserts \intersect s.assumes
      <3> DEFINE e == RemoveOld(k, s)
                 h == PushAssertions(k, e)
      <3>1. e = [s EXCEPT !.level1 = One]
        BY <1>2, <2>1 DEF RemoveOld
      <3>2. h = [e EXCEPT !.level1 = @ \intersect e.asserts]
        <4> HIDE DEF e
        <4>1. e \in SmtState
          BY <1>1, <3>1 DEF SmtState, One
        <4> QED BY <1>2, <4>1 DEF PushAssertions, SmtState
      <3>3. d = [h EXCEPT !.level1 = @ \intersect h.assumes, !.assumes = One, !.held = FALSE]
        BY <1>2 DEF Deferring, Flushed, PushAssumptions
      <3> HIDE DEF e, h, d
      <3> QED BY <1>1, <3>1, <3>2, <3>3 DEF SmtState, One
    <2> HIDE DEF d
    <2>3. SmtSolved(k, s) = [d EXCEPT !.known = FALSE] /\ SmtAsked(k, s) = d.level1 \intersect d.level2
      BY <1>2 DEF SmtSolved, SmtAsked, Deferred, d
    <2>5. LET t == [d EXCEPT !.known = FALSE]
          IN  /\ t \in SmtState /\ t.asserts = s.asserts /\ t.assumes = One /\ t.level2 = s.level2
              /\ t.isPushed = s.isPushed
      BY <2>2 DEF SmtState
    <2>4. s.asserts \subseteq Assignment /\ s.assumes \subseteq Assignment
      BY <1>1 DEF SmtState
    <2>6. SmtAsked(k, s) = P
      BY <2>1, <2>2, <2>3, <2>4 DEF One
    <2>7. SmtOK(k, [d EXCEPT !.known = FALSE], A, A)
      BY <1>2, <2>1, <2>4, <2>5 DEF SmtOK, One
    <2> QED BY <1>2, <2>3, <2>6, <2>7
  <1>3. CASE k \in {"CVC4", "Yices2"}
    <2> DEFINE d == Deferring(k, s)
               h == Flushed(k, s)
               t == SmtSolved(k, s)
    <2>1. /\ h \in SmtState /\ h.level1 = A /\ h.asserts = One /\ h.level2 = One
          /\ h.level1 \intersect h.assumes = P /\ ~h.isPushed /\ h.held = s.held
          /\ ~h.held => h.assumes = One
      BY <1>3, SmtFlushed
    <2>2. d = PushAssumptions(k, h)
      BY DEF Deferring
    <2> HIDE DEF h, d
    <2>3. /\ d \in SmtState /\ d.level1 = h.level1 /\ d.asserts = One /\ d.held = FALSE
          /\ d.assumes = One /\ d.level2 = h.assumes /\ (~d.isPushed => d.level2 = One)
      <3>1. CASE k = "Yices2" /\ ~h.held
        <4>1. d = h /\ h.held \in BOOLEAN
          BY <2>1, <2>2, <3>1 DEF PushAssumptions, SmtState
        <4> QED BY <2>1, <3>1, <4>1
      <3>2. CASE ~(k = "Yices2" /\ ~h.held)
        <4>1. d = [h EXCEPT !.level2 = h.assumes, !.isPushed = TRUE, !.assumes = One, !.held = FALSE]
          BY <1>3, <2>2, <3>2 DEF PushAssumptions
        <4> QED BY <2>1, <4>1 DEF SmtState, One
      <3> QED BY <3>1, <3>2
    <2> DEFINE b == k = "Yices2" /\ ~d.isPushed /\ d.level1 = {}
    <2>4. t = [d EXCEPT !.known = b] /\ SmtAsked(k, s) = d.level1 \intersect d.level2
      BY <1>3 DEF SmtSolved, SmtAsked, Deferred, d
    <2>5. b \in BOOLEAN
      OBVIOUS
    <2> HIDE DEF b, t
    <2>6. /\ t \in SmtState /\ t.level1 = A /\ t.asserts = One /\ t.held = FALSE
          /\ t.assumes = One /\ (~t.isPushed => t.level2 = One)
      BY <2>1, <2>3, <2>4, <2>5 DEF SmtState
    <2>7. SmtAsked(k, s) = P
      BY <2>1, <2>3, <2>4
    <2>8. A \subseteq Assignment
      BY <2>1 DEF SmtState
    <2>9. SmtOK(k, t, A, A)
      BY <1>3, <2>6, <2>8 DEF SmtOK, One
    <2> QED BY <2>6, <2>7, <2>9 DEF t
  <1>4. CASE k \in {"Z3", "STP", "Boolector"}
    <2>1. s.level1 = A /\ s.level1 \intersect s.assumes \intersect s.native = P
      BY <1>4 DEF SmtOK
    <2>2. SmtAsked(k, s) = P
      BY <1>4, <2>1 DEF SmtAsked, Deferred
    <2> DEFINE d == [s EXCEPT !.assumes = One, !.held = FALSE, !.native = One]
    <2>3. SmtSolved(k, s) = d
      BY <1>4 DEF SmtSolved, Deferred
    <2>4. d \in SmtState /\ d.level1 = A /\ d.assumes = One /\ d.native = One /\ A \subseteq Assignment
      BY <1>1, <2>1 DEF SmtState, One
    <2> HIDE DEF d
    <2>5. SmtOK(k, d, A, A)
      BY <1>4, <2>4 DEF SmtOK, One
    <2> QED BY <1>4, <2>2, <2>3, <2>5
  <1> QED BY <1>2, <1>3, <1>4 DEF SmtKinds

(* Where solve() throws there is no solution and the state still stands    *)
(* for what it stood for.                                                  *)
LEMMA SmtRefusedOK ==
    ASSUME NEW k \in SmtKinds, NEW s, NEW A, NEW P, SmtOK(k, s, A, P), MayRefuse(k, s)
    PROVE  SmtOK(k, Refused(k, s), A, P) /\ A = {} /\ Refused(k, s).held = s.held
  <1> DEFINE h == Flushed(k, s)
             t == Refused(k, s)
  <1>1. k = "Yices2" /\ h.level1 = {}
    BY DEF MayRefuse
  <1>2. /\ h \in SmtState /\ h.level1 = A /\ h.asserts = One /\ h.level2 = One
        /\ h.level1 \intersect h.assumes = P /\ ~h.isPushed /\ h.held = s.held
        /\ ~h.held => h.assumes = One
    BY <1>1, SmtFlushed
  <1>3. t = [h EXCEPT !.known = TRUE]
    BY DEF Refused
  <1> HIDE DEF h, t
  <1>4. /\ t \in SmtState /\ t.level1 = A /\ t.asserts = One /\ t.level2 = One
        /\ t.assumes = h.assumes /\ t.held = s.held
    BY <1>2, <1>3 DEF SmtState
  <1>5. A \subseteq Assignment
    BY <1>2 DEF SmtState
  <1>6. SmtOK(k, t, A, P)
    BY <1>1, <1>2, <1>4, <1>5 DEF SmtOK, One
  <1> QED BY <1>1, <1>2, <1>4, <1>6 DEF t

(***************************************************************************)
(* CUDD_Context.                                                           *)
(***************************************************************************)
LEMMA SmallestNumber ==
    ASSUME NEW S \in SUBSET Nat, S # {}
    PROVE  \E k \in S : \A m \in S : k <= m
  <1>1. S \subseteq Nat
    OBVIOUS
  <1>2. PICK k \in S : \A m \in S : <<m, k>> \notin OpToRel(<, Nat)
    BY <1>1, NatLessThanWellFounded, WFMin, Zenon
  <1>3. \A m \in S : ~(m < k)
    BY <1>2 DEF OpToRel
  <1> QED BY <1>3

(* What is left of f when the variables of S have their values in a.       *)
Only(a, S) == [v \in S |-> a[v]]
First(order, k) == {order[j] : j \in 1..k}

LEMMA CofactorAt ==
    ASSUME NEW f, NEW a \in Assignment, NEW S \in SUBSET Var, NEW v \in Var
    PROVE  /\ At(f, Only(a, S \union {v})) = Cofactor(At(f, Only(a, S)), v, a[v])
           /\ ~DependsOn(At(f, Only(a, S)), v) => Cofactor(At(f, Only(a, S)), v, a[v]) = At(f, Only(a, S))
  <1> DEFINE g == At(f, Only(a, S))
             Fill1(x, T) == [u \in Var |-> IF u \in DOMAIN Only(a, T) THEN Only(a, T)[u] ELSE x[u]]
             Fill2(x, T) == [u \in Var |-> IF u \in T THEN a[u] ELSE x[u]]
  <1>1. \A x, T : Fill1(x, T) = Fill2(x, T)
    BY DEF Only
  <1>2. \A T, x : x \in At(f, Only(a, T)) <=> x \in Assignment /\ Fill2(x, T) \in f
    <2>1. \A T, x : x \in At(f, Only(a, T)) <=> x \in Assignment /\ Fill1(x, T) \in f
      BY DEF At
    <2> HIDE DEF Fill1, Fill2
    <2> QED BY <1>1, <2>1
  <1>3. \A x \in Assignment : Fill2([x EXCEPT ![v] = a[v]], S) = Fill2(x, S \union {v})
    BY DEF Assignment
  <1>4. \A x \in Assignment, b \in BOOLEAN : [x EXCEPT ![v] = b] \in Assignment
    BY DEF Assignment
  <1>5. a[v] \in BOOLEAN
    BY DEF Assignment
  <1>6. \A x, b : x \in Cofactor(g, v, b) <=> x \in Assignment /\ [x EXCEPT ![v] = b] \in g
    BY DEF Cofactor
  <1> HIDE DEF g, Fill2
  <1>7. \A x : x \in g <=> x \in Assignment /\ Fill2(x, S) \in f
    BY <1>2 DEF g
  <1>8. ASSUME NEW x
        PROVE  x \in At(f, Only(a, S \union {v})) <=> x \in Cofactor(g, v, a[v])
    <2>1. CASE x \in Assignment
      <3>1. [x EXCEPT ![v] = a[v]] \in g <=> Fill2([x EXCEPT ![v] = a[v]], S) \in f
        BY <1>4, <1>5, <1>7, <2>1
      <3>2. Fill2([x EXCEPT ![v] = a[v]], S) = Fill2(x, S \union {v})
        BY <1>3, <2>1
      <3>3. x \in At(f, Only(a, S \union {v})) <=> Fill2(x, S \union {v}) \in f
        BY <1>2, <2>1
      <3> QED BY <1>6, <2>1, <3>1, <3>2, <3>3
    <2>2. CASE x \notin Assignment
      BY <1>2, <1>6, <2>2
    <2> QED BY <2>1, <2>2
  <1>9. At(f, Only(a, S \union {v})) = Cofactor(g, v, a[v])
    BY <1>8
  <1>10. ASSUME ~DependsOn(g, v) PROVE Cofactor(g, v, a[v]) = g
    <2>1. Cofactor(g, v, TRUE) = Cofactor(g, v, FALSE)
      BY <1>10 DEF DependsOn
    <2>2. \A b, c \in BOOLEAN : Cofactor(g, v, b) = Cofactor(g, v, c)
      BY <2>1
    <2>3. ASSUME NEW x \in Assignment PROVE x \in Cofactor(g, v, a[v]) <=> x \in g
      <3>1. x[v] \in BOOLEAN /\ [x EXCEPT ![v] = x[v]] = x
        BY DEF Assignment
      <3>2. x \in Cofactor(g, v, x[v]) <=> x \in g
        BY <1>6, <3>1
      <3> QED BY <1>5, <2>2, <3>1, <3>2
    <2>4. \A x : x \in Cofactor(g, v, a[v]) => x \in Assignment
      BY <1>6
    <2>5. \A x : x \in g => x \in Assignment
      BY <1>7
    <2> QED BY <2>3, <2>4, <2>5
  <1> QED BY <1>9, <1>10 DEF g

(* A path of the diagram: it holds whatever the other variables are, and   *)
(* there is one if the formula is not Zero.                                *)
LEMMA CubesHold ==
    ASSUME NEW order, NEW f, NEW c \in Cubes(order, f)
    PROVE  /\ DOMAIN c \subseteq First(order, Len(order))
           /\ c \in [DOMAIN c -> BOOLEAN]
           /\ \A a \in Assignment : (\A v \in DOMAIN c : a[v] = c[v]) => a \in f
  <1>1. /\ c \in UNION {[met -> BOOLEAN] : met \in SUBSET First(order, Len(order))}
        /\ At(f, c) = One
    BY DEF Cubes, First
  <1>2. PICK met \in SUBSET First(order, Len(order)) : c \in [met -> BOOLEAN]
    BY <1>1
  <1>3. ASSUME NEW a \in Assignment, \A v \in DOMAIN c : a[v] = c[v] PROVE a \in f
    <2>1. a \in At(f, c)
      BY <1>1 DEF One
    <2>2. [v \in Var |-> IF v \in DOMAIN c THEN c[v] ELSE a[v]] \in f
      BY <2>1 DEF At
    <2>3. [v \in Var |-> IF v \in DOMAIN c THEN c[v] ELSE a[v]] = a
      BY <1>3 DEF Assignment
    <2> QED BY <2>2, <2>3
  <1> QED BY <1>2, <1>3

LEMMA CubesExist ==
    ASSUME NEW order \in Seq(Var), \A i, j \in 1..Len(order) : order[i] = order[j] => i = j,
           NEW f, Supported(f, First(order, Len(order))), NEW a \in Assignment, a \in f
    PROVE  Cubes(order, f) # {}
  <1> DEFINE n == Len(order)
             Left(k) == At(f, Only(a, First(order, k)))
             K == {k \in 1..n : DependsOn(Left(k - 1), order[k])}
             D == {order[k] : k \in K}
             Same1(k) == At(f, Only(a, D \intersect First(order, k))) = Left(k)
             c == Only(a, D)
  <1>1. n \in Nat /\ \A k \in 1..n : order[k] \in Var
    OBVIOUS
  <1>2. \A k \in 1..n : order[k] \in D <=> k \in K
    <2> HIDE DEF n
    <2> QED BY DEF n
  <1>3. D \subseteq First(order, n) /\ First(order, n) \subseteq Var
    BY <1>1 DEF First
  <1>4. First(order, 0) = {}
    BY DEF First
  <1>5. \A k \in 0..(n - 1) : First(order, k + 1) = First(order, k) \union {order[k + 1]}
    <2> TAKE k \in 0..(n - 1)
    <2>1. 1..(k + 1) = 1..k \union {k + 1}
      OBVIOUS
    <2> QED BY <2>1 DEF First
  <1>6. \A k \in 0..n : First(order, k) \subseteq Var
    BY <1>1 DEF First
  <1>7. \A k \in 1..n : k \in K <=> DependsOn(Left(k - 1), order[k])
    OBVIOUS
  <1> HIDE DEF K, D, n, Left
  <1>8. Same1(0)
    <2>1. D \intersect First(order, 0) = First(order, 0)
      BY <1>4
    <2> QED BY <2>1 DEF Left
  <1>9. ASSUME NEW k \in 0..(n - 1), Same1(k) PROVE Same1(k + 1)
    <2> DEFINE v == order[k + 1]
               F == First(order, k)
               E == D \intersect F
    <2>1. k + 1 \in 1..n /\ (k + 1) - 1 = k /\ k \in 0..n /\ k + 1 \in 0..n
      BY <1>1
    <2>2. v \in Var /\ F \in SUBSET Var /\ E \in SUBSET Var
      BY <1>1, <1>6, <2>1
    <2>3. First(order, k + 1) = F \union {v}
      BY <1>5
    <2>4. Left(k) = At(f, Only(a, F)) /\ Left(k + 1) = At(f, Only(a, F \union {v}))
      BY <2>3 DEF Left
    <2>5. At(f, Only(a, E)) = Left(k)
      BY <1>9
    <2>6. v \in D <=> DependsOn(Left(k), v)
      BY <1>2, <1>7, <2>1
    <2> HIDE DEF v, F
    <2> HIDE DEF E
    <2>7. \A S \in SUBSET Var, u \in Var :
             /\ At(f, Only(a, S \union {u})) = Cofactor(At(f, Only(a, S)), u, a[u])
             /\ ~DependsOn(At(f, Only(a, S)), u) => Cofactor(At(f, Only(a, S)), u, a[u]) = At(f, Only(a, S))
      BY CofactorAt, Zenon
    <2>8. /\ At(f, Only(a, F \union {v})) = Cofactor(At(f, Only(a, F)), v, a[v])
          /\ ~DependsOn(At(f, Only(a, F)), v) => Cofactor(At(f, Only(a, F)), v, a[v]) = At(f, Only(a, F))
          /\ At(f, Only(a, E \union {v})) = Cofactor(At(f, Only(a, E)), v, a[v])
      BY <2>2, <2>7, Zenon
    <2>9. CASE v \in D
      <3>1. D \intersect First(order, k + 1) = E \union {v}
        BY <2>3, <2>9 DEF E
      <3> QED BY <2>4, <2>5, <2>8, <3>1
    <2>10. CASE v \notin D
      <3>1. D \intersect First(order, k + 1) = E
        BY <2>3, <2>10 DEF E
      <3> QED BY <2>4, <2>5, <2>6, <2>8, <2>10, <3>1
    <2> QED BY <2>9, <2>10
  <1> HIDE DEF Same1
  <1>10. \A k \in 0..n : Same1(k)
    <2> DEFINE S == {k \in 0..n : ~Same1(k)}
    <2> SUFFICES ASSUME S # {} PROVE FALSE
      OBVIOUS
    <2>1. S \in SUBSET Nat
      OBVIOUS
    <2>2. PICK k \in S : \A m \in S : k <= m
      <3> HIDE DEF S
      <3> QED BY <2>1, SmallestNumber
    <2>3. k \in 0..n /\ ~Same1(k)
      OBVIOUS
    <2>4. k # 0
      BY <1>8, <2>3
    <2>5. k - 1 \in 0..(n - 1) /\ k - 1 \in 0..n /\ ~(k <= k - 1) /\ (k - 1) + 1 = k
      BY <1>1, <2>3, <2>4
    <2>6. Same1(k - 1)
      BY <2>2, <2>5
    <2> QED BY <1>9, <2>3, <2>5, <2>6
  <1>11. \A k \in 1..n : Above(order, k, c) = Only(a, D \intersect First(order, k - 1))
    BY DEF Above, Only, First
  <1>12. IsPath(order, f, c)
    <2> SUFFICES ASSUME NEW k \in 1..n
                 PROVE  order[k] \in DOMAIN c <=> DependsOn(At(f, Above(order, k, c)), order[k])
      BY DEF IsPath, n
    <2>1. k - 1 \in 0..n
      BY <1>1
    <2>2. At(f, Above(order, k, c)) = Left(k - 1)
      BY <1>10, <1>11, <2>1 DEF Same1
    <2>3. DOMAIN c = D
      BY DEF Only
    <2> QED BY <1>2, <1>7, <2>2, <2>3
  <1>13. At(f, c) = One
    <2>1. D \intersect First(order, n) = D
      BY <1>3
    <2>2. n \in 0..n
      BY <1>1
    <2>3. At(f, c) = Left(n)
      BY <1>10, <2>1, <2>2 DEF Same1
    <2>4. ASSUME NEW x \in Assignment PROVE x \in Left(n)
      <3> DEFINE y == [v \in Var |-> IF v \in First(order, n) THEN a[v] ELSE x[v]]
      <3>1. y \in Assignment
        BY DEF Assignment
      <3>2. \A v \in First(order, n) : a[v] = y[v]
        BY <1>3
      <3> HIDE DEF y
      <3>3. y \in f
        BY <3>1, <3>2 DEF Supported, n
      <3>4. y = [v \in Var |-> IF v \in DOMAIN Only(a, First(order, n)) THEN Only(a, First(order, n))[v] ELSE x[v]]
        BY DEF y, Only
      <3> QED BY <3>3, <3>4 DEF Left, At
    <2>5. Left(n) \subseteq Assignment
      BY DEF Left, At
    <2> QED BY <2>3, <2>4, <2>5 DEF One
  <1>14. c \in UNION {[met -> BOOLEAN] : met \in SUBSET {order[k] : k \in 1..Len(order)}}
    <2>1. D \in SUBSET First(order, n)
      BY <1>3
    <2>2. c \in [D -> BOOLEAN]
      BY <1>3 DEF Only, Assignment
    <2> HIDE DEF c
    <2> QED BY <2>1, <2>2 DEF First, n
  <1> HIDE DEF c
  <1> QED BY <1>12, <1>13, <1>14 DEF Cubes


(* CUDD_Context.                                                           *)
LEMMA BddInitOK == BddOK(BddInit, NoVariables, Assignment, Assignment)
  <1>1. BddInit.order = <<>> /\ <<>> \in Seq(Var) /\ Len(<<>>) = 0
    BY DEF BddInit
  <1>2. BddInit.assertions = Assignment /\ BddInit.assumptions = Assignment
    BY DEF BddInit, One
  <1>3. DOMAIN NoVariables = {}
    BY DEF NoVariables
  <1>4. BddInit = [assertions |-> BddInit.assertions, assumptions |-> BddInit.assumptions,
                   order |-> BddInit.order, previous |-> BddInit.previous, counted |-> BddInit.counted]
    BY DEF BddInit
  <1> QED BY <1>1, <1>2, <1>3, <1>4 DEF BddOK

LEMMA BddVarOK ==
    ASSUME NEW s, NEW vs, NEW A, NEW P, BddOK(s, vs, A, P), NEW v \in Var, v \notin DOMAIN vs
    PROVE  /\ BddOK(BddVar(s, v).s, WithVariable(vs, v, BddVar(s, v).result), A, P)
           /\ BddVar(s, v).result = {a \in Assignment : a[v]}
  <1> DEFINE order == s.order
             n == Len(order)
             longer == Append(order, v)
             t == [s EXCEPT !.order = longer]
             f == {a \in Assignment : a[v]}
  <1>1. BddVar(s, v).s = t /\ BddVar(s, v).result = f
    BY DEF BddVar
  <1>2. order \in Seq(Var) /\ n \in Nat
    BY DEF BddOK
  <1>3. /\ longer \in Seq(Var) /\ Len(longer) = n + 1 /\ longer[n + 1] = v
        /\ \A k \in 1..n : longer[k] = order[k]
    <2> HIDE DEF order
    <2> QED BY <1>2
  <1>4. {order[k] : k \in 1..n} = DOMAIN vs /\ \A i, j \in 1..n : order[i] = order[j] => i = j
    BY DEF BddOK
  <1>5. /\ s = [assertions |-> s.assertions, assumptions |-> s.assumptions, order |-> s.order,
                previous |-> s.previous, counted |-> s.counted]
        /\ s.assertions = A /\ s.assertions \intersect s.assumptions = P
    BY DEF BddOK
  <1> HIDE DEF order, n, longer, f
  <1>6. t = [assertions |-> s.assertions, assumptions |-> s.assumptions, order |-> longer,
             previous |-> s.previous, counted |-> s.counted]
    BY <1>5
  <1> HIDE DEF t
  <1>7. /\ t = [assertions |-> t.assertions, assumptions |-> t.assumptions, order |-> t.order,
                previous |-> t.previous, counted |-> t.counted]
        /\ t.assertions = A /\ t.assertions \intersect t.assumptions = P /\ t.order = longer
    BY <1>5, <1>6
  <1>8. 1..(n + 1) = 1..n \union {n + 1}
    BY <1>2
  <1>9. {longer[k] : k \in 1..(n + 1)} = DOMAIN vs \union {v}
    BY <1>3, <1>4, <1>8
  <1>10. \A k \in 1..n : longer[k] # v
    BY <1>3, <1>4
  <1>11. \A i, j \in 1..(n + 1) : longer[i] = longer[j] => i = j
    BY <1>3, <1>4, <1>8, <1>10
  <1>12. DOMAIN WithVariable(vs, v, f) = DOMAIN vs \union {v}
    BY DEF WithVariable
  <1>13. BddOK(t, WithVariable(vs, v, f), A, P)
    BY <1>3, <1>7, <1>9, <1>11, <1>12 DEF BddOK
  <1> QED BY <1>1, <1>13 DEF f

LEMMA BddMade ==
    ASSUME NEW s, NEW vs, NEW A, NEW P, NEW a, NEW b, NEW order, NEW p, NEW c,
           s = [assertions |-> a, assumptions |-> b, order |-> order, previous |-> p, counted |-> c],
           a = A, a \intersect b = P, order \in Seq(Var),
           {order[k] : k \in 1..Len(order)} = DOMAIN vs,
           \A i, j \in 1..Len(order) : order[i] = order[j] => i = j
    PROVE  BddOK(s, vs, A, P)
  <1>1. s.assertions = a /\ s.assumptions = b /\ s.order = order /\ s.previous = p /\ s.counted = c
    OBVIOUS
  <1>2. s = [assertions |-> s.assertions, assumptions |-> s.assumptions, order |-> s.order,
             previous |-> s.previous, counted |-> s.counted]
    BY <1>1
  <1> QED BY <1>1, <1>2, Zenon DEF BddOK

LEMMA BddGiven ==
    ASSUME NEW s, NEW vs, NEW A, NEW P, BddOK(s, vs, A, P), NEW f
    PROVE  /\ BddOK(BddAssert(s, f), vs, A \intersect f, P \intersect f)
           /\ BddOK(BddAssume(s, f), vs, A, P \intersect f)
  <1> DEFINE a == s.assertions
             b == s.assumptions
             order == s.order
             p == s.previous
             c == s.counted
  <1>1. /\ s = [assertions |-> a, assumptions |-> b, order |-> order, previous |-> p, counted |-> c]
        /\ a = A /\ a \intersect b = P
    BY DEF BddOK
  <1>2. /\ order \in Seq(Var) /\ {order[k] : k \in 1..Len(order)} = DOMAIN vs
        /\ \A i, j \in 1..Len(order) : order[i] = order[j] => i = j
    BY DEF BddOK
  <1>3. BddAssert(s, f) = [s EXCEPT !.assertions = a \intersect f]
    BY DEF BddAssert
  <1>4. BddAssume(s, f) = [s EXCEPT !.assumptions = b \intersect f]
    BY DEF BddAssume
  <1> HIDE DEF a, b, order, p, c
  <1>5. BddAssert(s, f) = [assertions |-> a \intersect f, assumptions |-> b, order |-> order,
                           previous |-> p, counted |-> c]
    BY <1>1, <1>3
  <1>6. BddAssume(s, f) = [assertions |-> a, assumptions |-> b \intersect f, order |-> order,
                           previous |-> p, counted |-> c]
    BY <1>1, <1>4
  <1>7. a \intersect f = A \intersect f /\ (a \intersect f) \intersect b = P \intersect f
        /\ a \intersect (b \intersect f) = P \intersect f
    BY <1>1
  <1>8. BddOK(BddAssert(s, f), vs, A \intersect f, P \intersect f)
    BY <1>2, <1>5, <1>7, BddMade
  <1>9. BddOK(BddAssume(s, f), vs, A, P \intersect f)
    BY <1>1, <1>2, <1>6, <1>7, BddMade
  <1> QED BY <1>8, <1>9

LEMMA BddSolvedOK ==
    ASSUME NEW s, NEW vs, NEW A, NEW P, BddOK(s, vs, A, P), A \subseteq Assignment
    PROVE  BddOK(BddSolved("CUDD_Context", s), vs, A, A)
  <1> DEFINE a == s.assertions
             b == s.assumptions
             order == s.order
             p == s.previous
             c == s.counted
  <1>1. s = [assertions |-> a, assumptions |-> b, order |-> order, previous |-> p, counted |-> c] /\ a = A
    BY DEF BddOK
  <1>2. /\ order \in Seq(Var) /\ {order[k] : k \in 1..Len(order)} = DOMAIN vs
        /\ \A i, j \in 1..Len(order) : order[i] = order[j] => i = j
    BY DEF BddOK
  <1>3. BddSolved("CUDD_Context", s) = [s EXCEPT !.assumptions = Assignment]
    BY DEF BddSolved, One
  <1> HIDE DEF a, b, order, p, c
  <1>4. BddSolved("CUDD_Context", s) = [assertions |-> a, assumptions |-> Assignment, order |-> order,
                                        previous |-> p, counted |-> c]
    BY <1>1, <1>3
  <1>5. a \intersect Assignment = A
    BY <1>1
  <1> QED BY <1>1, <1>2, <1>4, <1>5, BddMade

LEMMA BddFound ==
    ASSUME NEW s, NEW vs, NEW A, NEW P, BddOK(s, vs, A, P), P \subseteq Assignment,
           Supported(P, DOMAIN vs)
    PROVE  /\ BddSolutions("CUDD_Context", s) = {} <=> P = {}
           /\ \A m \in BddSolutions("CUDD_Context", s) :
                 /\ DOMAIN m \subseteq DOMAIN vs
                 /\ m \in [DOMAIN m -> BOOLEAN]
                 /\ \A a \in Assignment : (\A v \in DOMAIN m : a[v] = m[v]) => a \in P
  <1> DEFINE order == s.order
             found == BddSolutions("CUDD_Context", s)
  <1>1. Complete(s) = P
    BY DEF BddOK, Complete
  <1>2. /\ order \in Seq(Var) /\ {order[k] : k \in 1..Len(order)} = DOMAIN vs
        /\ \A i, j \in 1..Len(order) : order[i] = order[j] => i = j
    BY DEF BddOK
  <1>3. P = {} => found = {}
    BY <1>1 DEF BddSolutions, Zero
  <1>4. P # {} => found = Cubes(order, P)
    BY <1>1 DEF BddSolutions, Zero
  <1>5. First(order, Len(order)) = DOMAIN vs
    BY <1>2 DEF First
  <1> HIDE DEF order, found
  <1>6. ASSUME P # {} PROVE found # {}
    <2>1. PICK a \in Assignment : a \in P
      BY <1>6
    <2>2. Supported(P, First(order, Len(order)))
      BY <1>5
    <2>3. Cubes(order, P) # {}
      BY <1>2, <2>1, <2>2, CubesExist
    <2> QED BY <1>4, <1>6, <2>3
  <1>7. ASSUME NEW m \in found
        PROVE  /\ DOMAIN m \subseteq DOMAIN vs
               /\ m \in [DOMAIN m -> BOOLEAN]
               /\ \A a \in Assignment : (\A v \in DOMAIN m : a[v] = m[v]) => a \in P
    <2>1. m \in Cubes(order, P)
      BY <1>3, <1>4
    <2> QED BY <1>5, <2>1, CubesHold
  <1> QED BY <1>3, <1>6, <1>7 DEF found


(***************************************************************************)
(* Any of the back ends.                                                   *)
(***************************************************************************)
LEMMA KindCases ==
    ASSUME NEW k \in ExactKinds
    PROVE  \/ k \in SmtKinds /\ k \notin SatKinds /\ k \notin BddKinds
           \/ k = "SAT_Clause" /\ k \notin SmtKinds /\ k \notin BddKinds
           \/ k = "SAT_Aiger" /\ k \notin SmtKinds /\ k \notin BddKinds
           \/ k = "CUDD_Context" /\ k \in BddKinds /\ k \notin SmtKinds /\ k \notin SatKinds
  BY DEF ExactKinds, SmtKinds, SatKinds, BddKinds

LEMMA StandsForCases ==
    ASSUME NEW k, NEW lib, NEW s, NEW vs, NEW A, NEW P, NEW rs, NEW ms
    PROVE  /\ k \in SmtKinds => (StandsFor(k, lib, s, vs, A, P, rs, ms) <=> rs = ms /\ SmtOK(k, s, A, P))
           /\ k = "SAT_Clause" =>
                (StandsFor(k, lib, s, vs, A, P, rs, ms) <=> ClauseOK(lib, s, vs, A, P, rs, ms))
           /\ k = "SAT_Aiger" =>
                (StandsFor(k, lib, s, vs, A, P, rs, ms) <=> AigerOK(lib, s, vs, A, P, rs, ms))
           /\ k = "CUDD_Context" =>
                (StandsFor(k, lib, s, vs, A, P, rs, ms) <=> rs = ms /\ BddOK(s, vs, A, P))
  BY DEF StandsFor, SmtKinds

LEMMA BackendInitOK ==
    ASSUME NEW k \in ExactKinds, NEW lib
    PROVE  StandsFor(k, lib, BackendInit(k, lib), NoVariables, Assignment, Assignment, <<>>, <<>>)
  <1>1. CASE k \in SmtKinds
    <2>1. BackendInit(k, lib) = SmtInit
      BY <1>1 DEF BackendInit, SmtKinds, BddKinds
    <2> QED BY <1>1, <2>1, SmtInitOK, StandsForCases
  <1>2. CASE k = "SAT_Clause"
    <2>1. BackendInit(k, lib) = ClauseInit(lib)
      BY <1>2 DEF BackendInit, SmtKinds, BddKinds
    <2> QED BY <1>2, <2>1, ClauseInitOK, StandsForCases
  <1>3. CASE k = "SAT_Aiger"
    <2>1. BackendInit(k, lib) = AigerInit(lib)
      BY <1>3 DEF BackendInit, SmtKinds, BddKinds
    <2> QED BY <1>3, <2>1, AigerInitOK, StandsForCases
  <1>4. CASE k = "CUDD_Context"
    <2>1. BackendInit(k, lib) = BddInit
      BY <1>4 DEF BackendInit, SmtKinds, BddKinds
    <2> QED BY <1>4, <2>1, BddInitOK, StandsForCases
  <1> QED BY <1>1, <1>2, <1>3, <1>4, KindCases

(* A new variable.                                                         *)
LEMMA NewVariableOK ==
    ASSUME NEW k \in ExactKinds, NEW lib, NEW s, NEW vs, NEW A, NEW P, NEW rs, NEW ms,
           Formulas(rs, ms), StandsFor(k, lib, s, vs, A, P, rs, ms),
           NEW v \in Var, v \notin DOMAIN vs, NEW r, r = NewVariable(k, s, v),
           NEW f, f = {a \in Assignment : a[v]}
    PROVE  StandsFor(k, lib, r.s, WithVariable(vs, v, r.result), A, P,
                     Append(rs, r.result), Append(ms, f))
  <1>1. CASE k \in SmtKinds
    <2>1. r = Built(s, f)
      BY <1>1 DEF NewVariable, SmtKinds, BddKinds
    <2>2. r.s = s /\ r.result = f
      BY <2>1 DEF Built
    <2>3. rs = ms /\ SmtOK(k, s, A, P)
      BY <1>1, StandsForCases
    <2> QED BY <1>1, <2>2, <2>3, StandsForCases
  <1>2. CASE k = "SAT_Clause"
    <2>1. r = ClauseVar(s)
      BY <1>2 DEF NewVariable, SmtKinds, BddKinds
    <2>2. ClauseOK(lib, s, vs, A, P, rs, ms)
      BY <1>2, StandsForCases
    <2>3. ClauseOK(lib, r.s, WithVariable(vs, v, r.result), A, P, Append(rs, r.result), Append(ms, f))
      BY <2>1, <2>2, ClauseVarOK
    <2> QED BY <1>2, <2>3, StandsForCases
  <1>3. CASE k = "SAT_Aiger"
    <2>1. r = AigerVar(s)
      BY <1>3 DEF NewVariable, SmtKinds, BddKinds
    <2>2. AigerOK(lib, s, vs, A, P, rs, ms)
      BY <1>3, StandsForCases
    <2>3. AigerOK(lib, r.s, WithVariable(vs, v, r.result), A, P, Append(rs, r.result), Append(ms, f))
      BY <2>1, <2>2, AigerVarOK
    <2> QED BY <1>3, <2>3, StandsForCases
  <1>4. CASE k = "CUDD_Context"
    <2>1. r = BddVar(s, v)
      BY <1>4 DEF NewVariable, SmtKinds, BddKinds
    <2>2. rs = ms /\ BddOK(s, vs, A, P)
      BY <1>4, StandsForCases
    <2>3. r.result = f /\ BddOK(r.s, WithVariable(vs, v, r.result), A, P)
      BY <2>1, <2>2, BddVarOK
    <2>4. Append(rs, r.result) = Append(ms, f)
      BY <2>2, <2>3
    <2>5. \A t, ws, qs, ns : qs = ns /\ BddOK(t, ws, A, P) => StandsFor(k, lib, t, ws, A, P, qs, ns)
      BY <1>4, StandsForCases
    <2> QED BY <2>3, <2>4, <2>5, Zenon
  <1> QED BY <1>1, <1>2, <1>3, <1>4, KindCases

(* The result of an operation means what SMT-LIB says.                     *)
LEMMA OperandsEqual ==
    ASSUME NEW tag \in AllTag, NEW ms \in Seq(SUBSET Assignment),
           NEW args \in [1..Arity(tag) -> DOMAIN ms],
           NEW ls, ls = [i \in DOMAIN args |-> ms[args[i]]]
    PROVE  OperandsAre(tag, ls, Nth(ms, args, 1), Nth(ms, args, 2), Nth(ms, args, 3))
  <1>1. Arity(tag) \in 0..3
    BY ArityCases
  <1>2. \A i \in 1..3 : Nth(ms, args, i) \in SUBSET Assignment
    BY NthOperand
  <1>3. \A i \in 1..3 : i <= Arity(tag) => i \in DOMAIN args /\ Nth(ms, args, i) = ms[args[i]]
    BY NthOperand
  <1>4. \A i \in 1..3 : i <= Arity(tag) => ls[i] = Nth(ms, args, i)
    BY <1>3
  <1> QED BY <1>1, <1>2, <1>4 DEF OperandsAre

LEMMA OperationOK ==
    ASSUME NEW k \in ExactKinds, NEW lib, NEW s, NEW vs, NEW A, NEW P, NEW rs, NEW ms,
           Formulas(rs, ms), StandsFor(k, lib, s, vs, A, P, rs, ms), NEW tag \in AllTag,
           NEW args \in [1..Arity(tag) -> DOMAIN ms],
           NEW ls, ls = [i \in DOMAIN args |-> rs[args[i]]],
           NEW r, r = Operation(k, lib, s, tag, ls),
           NEW f, f = Meant(tag, Nth(ms, args, 1), Nth(ms, args, 2), Nth(ms, args, 3))
    PROVE  StandsFor(k, lib, r.s, vs, A, P, Append(rs, r.result), Append(ms, f))
  <1>1. CASE k \in SmtKinds
    <2>1. r = Built(s, SmtOp(k, tag, ls))
      BY <1>1 DEF Operation, SmtKinds, BddKinds
    <2>2. rs = ms /\ SmtOK(k, s, A, P) /\ ms \in Seq(SUBSET Assignment)
      BY <1>1, StandsForCases DEF Formulas
    <2>3. OperandsAre(tag, ls, Nth(ms, args, 1), Nth(ms, args, 2), Nth(ms, args, 3))
      BY <2>2, OperandsEqual
    <2>4. SmtOp(k, tag, ls) = f
      BY <1>1, <2>3, SmtOpMeans
    <2>5. r.s = s /\ r.result = f
      BY <2>1, <2>4 DEF Built
    <2> QED BY <1>1, <2>2, <2>5, StandsForCases
  <1>2. CASE k = "SAT_Clause"
    <2>1. r = ClauseOp(lib, s, tag, ls)
      BY <1>2 DEF Operation, SmtKinds, BddKinds
    <2>2. ClauseOK(lib, s, vs, A, P, rs, ms)
      BY <1>2, StandsForCases
    <2>3. ClauseOK(lib, r.s, vs, A, P, Append(rs, r.result), Append(ms, f))
      BY <2>1, <2>2, ClauseOpOK
    <2> QED BY <1>2, <2>3, StandsForCases
  <1>3. CASE k = "SAT_Aiger"
    <2>1. r = AigerOp(s, tag, ls)
      BY <1>3 DEF Operation, SmtKinds, BddKinds
    <2>2. AigerOK(lib, s, vs, A, P, rs, ms)
      BY <1>3, StandsForCases
    <2>3. AigerOK(lib, r.s, vs, A, P, Append(rs, r.result), Append(ms, f))
      BY <2>1, <2>2, AigerOpOK
    <2> QED BY <1>3, <2>3, StandsForCases
  <1>4. CASE k = "CUDD_Context"
    <2>1. r = Built(s, BddOp(s, tag, ls))
      BY <1>4 DEF Operation, SmtKinds, BddKinds
    <2>2. rs = ms /\ BddOK(s, vs, A, P) /\ ms \in Seq(SUBSET Assignment)
      BY <1>4, StandsForCases DEF Formulas
    <2>3. OperandsAre(tag, ls, Nth(ms, args, 1), Nth(ms, args, 2), Nth(ms, args, 3))
      BY <2>2, OperandsEqual
    <2>4. BddOp(s, tag, ls) = f
      BY <2>3, BddOpMeans
    <2>5. r.s = s /\ r.result = f
      BY <2>1, <2>4 DEF Built
    <2> QED BY <1>4, <2>2, <2>5, StandsForCases
  <1> QED BY <1>1, <1>2, <1>3, <1>4, KindCases


LEMMA BackendAssertOK ==
    ASSUME NEW k \in ExactKinds, NEW lib, NEW s, NEW vs, NEW A, NEW P, NEW rs,
           NEW ms \in Seq(SUBSET Assignment), StandsFor(k, lib, s, vs, A, P, rs, ms), NEW i \in DOMAIN ms
    PROVE  StandsFor(k, lib, BackendAssert(k, lib, s, rs[i]), vs, A \intersect ms[i], P \intersect ms[i], rs, ms)
  <1> DEFINE t == BackendAssert(k, lib, s, rs[i])
             B == A \intersect ms[i]
             Q == P \intersect ms[i]
  <1>0. ms[i] \in SUBSET Assignment
    OBVIOUS
  <1>1. CASE k \in SmtKinds
    <2>1. t = SmtAssert(k, s, rs[i])
      BY <1>1 DEF BackendAssert, SmtKinds, BddKinds
    <2>2. rs = ms /\ SmtOK(k, s, A, P)
      BY <1>1, StandsForCases
    <2>3. SmtOK(k, t, B, Q)
      BY <1>0, <1>1, <2>1, <2>2, SmtAssertOK
    <2> HIDE DEF t, B, Q
    <2>4. StandsFor(k, lib, t, vs, B, Q, rs, ms)
      BY <1>1, <2>2, <2>3, StandsForCases
    <2> QED BY <2>4 DEF t, B, Q
  <1>2. CASE k = "SAT_Clause"
    <2>1. t = AssertLit(lib, s, rs[i])
      BY <1>2 DEF BackendAssert, SmtKinds, BddKinds
    <2>2. ClauseOK(lib, s, vs, A, P, rs, ms)
      BY <1>2, StandsForCases
    <2>3. ClauseOK(lib, t, vs, B, Q, rs, ms)
      <3>1. ClauseOK(lib, AssertLit(lib, s, rs[i]), vs, A \intersect ms[i], P \intersect ms[i], rs, ms)
        BY <2>2, ClauseAssertOK
      <3> HIDE DEF t
      <3> QED BY <2>1, <3>1
    <2> HIDE DEF t, B, Q
    <2>4. StandsFor(k, lib, t, vs, B, Q, rs, ms)
      BY <1>2, <2>3, StandsForCases
    <2> QED BY <2>4 DEF t, B, Q
  <1>3. CASE k = "SAT_Aiger"
    <2>1. t = [s EXCEPT !.assertions = @ \union {rs[i]}]
      BY <1>3 DEF BackendAssert, SmtKinds, BddKinds
    <2>2. AigerOK(lib, s, vs, A, P, rs, ms)
      BY <1>3, StandsForCases
    <2>3. AigerOK(lib, t, vs, B, Q, rs, ms)
      BY <2>1, <2>2, AigerAssertOK
    <2> HIDE DEF t, B, Q
    <2>4. StandsFor(k, lib, t, vs, B, Q, rs, ms)
      BY <1>3, <2>3, StandsForCases
    <2> QED BY <2>4 DEF t, B, Q
  <1>4. CASE k = "CUDD_Context"
    <2>1. t = BddAssert(s, rs[i])
      BY <1>4 DEF BackendAssert, SmtKinds, BddKinds
    <2>2. rs = ms /\ BddOK(s, vs, A, P)
      BY <1>4, StandsForCases
    <2>3. BddOK(t, vs, B, Q)
      BY <2>1, <2>2, BddGiven
    <2> HIDE DEF t, B, Q
    <2>4. StandsFor(k, lib, t, vs, B, Q, rs, ms)
      BY <1>4, <2>2, <2>3, StandsForCases
    <2> QED BY <2>4 DEF t, B, Q
  <1> QED BY <1>1, <1>2, <1>3, <1>4, KindCases

LEMMA BackendAssumeOK ==
    ASSUME NEW k \in ExactKinds, NEW lib, NEW s, NEW vs, NEW A, NEW P, NEW rs,
           NEW ms \in Seq(SUBSET Assignment), StandsFor(k, lib, s, vs, A, P, rs, ms), NEW i \in DOMAIN ms
    PROVE  StandsFor(k, lib, BackendAssume(k, lib, s, rs[i]), vs, A, P \intersect ms[i], rs, ms)
  <1> DEFINE t == BackendAssume(k, lib, s, rs[i])
             Q == P \intersect ms[i]
  <1>0. ms[i] \in SUBSET Assignment
    OBVIOUS
  <1>1. CASE k \in SmtKinds
    <2>1. t = SmtAssume(k, s, rs[i])
      BY <1>1 DEF BackendAssume, SmtKinds, BddKinds
    <2>2. rs = ms /\ SmtOK(k, s, A, P)
      BY <1>1, StandsForCases
    <2>3. SmtOK(k, t, A, Q)
      BY <1>0, <1>1, <2>1, <2>2, SmtAssumeOK
    <2> HIDE DEF t, Q
    <2>4. StandsFor(k, lib, t, vs, A, Q, rs, ms)
      BY <1>1, <2>2, <2>3, StandsForCases
    <2> QED BY <2>4 DEF t, Q
  <1>2. CASE k = "SAT_Clause"
    <2>1. t = AssumeLit(lib, s, rs[i])
      BY <1>2 DEF BackendAssume, SmtKinds, BddKinds
    <2>2. ClauseOK(lib, s, vs, A, P, rs, ms)
      BY <1>2, StandsForCases
    <2>3. ClauseOK(lib, t, vs, A, Q, rs, ms)
      <3>1. ClauseOK(lib, AssumeLit(lib, s, rs[i]), vs, A, P \intersect ms[i], rs, ms)
        BY <2>2, ClauseAssumeOK
      <3> HIDE DEF t
      <3> QED BY <2>1, <3>1
    <2> HIDE DEF t, Q
    <2>4. StandsFor(k, lib, t, vs, A, Q, rs, ms)
      BY <1>2, <2>3, StandsForCases
    <2> QED BY <2>4 DEF t, Q
  <1>3. CASE k = "SAT_Aiger"
    <2>1. t = [s EXCEPT !.assumptions = @ \union {rs[i]}]
      BY <1>3 DEF BackendAssume, SmtKinds, BddKinds
    <2>2. AigerOK(lib, s, vs, A, P, rs, ms)
      BY <1>3, StandsForCases
    <2>3. AigerOK(lib, t, vs, A, Q, rs, ms)
      <3>1. AigerOK(lib, [s EXCEPT !.assumptions = @ \union {rs[i]}], vs, A, P \intersect ms[i], rs, ms)
        BY <2>2, AigerAssumeOK
      <3> HIDE DEF t
      <3> QED BY <2>1, <3>1
    <2> HIDE DEF t, Q
    <2>4. StandsFor(k, lib, t, vs, A, Q, rs, ms)
      BY <1>3, <2>3, StandsForCases
    <2> QED BY <2>4 DEF t, Q
  <1>4. CASE k = "CUDD_Context"
    <2>1. t = BddAssume(s, rs[i])
      BY <1>4 DEF BackendAssume, SmtKinds, BddKinds
    <2>2. rs = ms /\ BddOK(s, vs, A, P)
      BY <1>4, StandsForCases
    <2>3. BddOK(t, vs, A, Q)
      <3>1. BddOK(BddAssume(s, ms[i]), vs, A, P \intersect ms[i])
        BY <2>2, BddGiven
      <3> HIDE DEF t
      <3> QED BY <2>1, <2>2, <3>1
    <2> HIDE DEF t, Q
    <2>4. StandsFor(k, lib, t, vs, A, Q, rs, ms)
      BY <1>4, <2>2, <2>3, StandsForCases
    <2> QED BY <2>4 DEF t, Q
  <1> QED BY <1>1, <1>2, <1>3, <1>4, KindCases

(* After solve() only the assertions are left.                             *)
LEMMA BackendSolvedOK ==
    ASSUME NEW k \in ExactKinds, NEW lib, NEW s, NEW vs, NEW A \in SUBSET Assignment, NEW P,
           NEW rs, NEW ms, StandsFor(k, lib, s, vs, A, P, rs, ms)
    PROVE  StandsFor(k, lib, BackendSolved(k, lib, s), vs, A, A, rs, ms)
  <1> DEFINE t == BackendSolved(k, lib, s)
  <1>1. CASE k \in SmtKinds
    <2>1. t = SmtSolved(k, s)
      BY <1>1 DEF BackendSolved, SmtKinds, BddKinds
    <2>2. rs = ms /\ SmtOK(k, s, A, P)
      BY <1>1, StandsForCases
    <2>3. SmtOK(k, t, A, A)
      BY <1>1, <2>1, <2>2, SmtSolvedOK
    <2> HIDE DEF t
    <2>4. StandsFor(k, lib, t, vs, A, A, rs, ms)
      BY <1>1, <2>2, <2>3, StandsForCases
    <2> QED BY <2>4 DEF t
  <1>2. CASE k = "SAT_Clause"
    <2>1. t = SatSolved(lib, s)
      BY <1>2 DEF BackendSolved, SmtKinds, BddKinds
    <2>2. ClauseOK(lib, s, vs, A, P, rs, ms)
      BY <1>2, StandsForCases
    <2>3. ClauseOK(lib, t, vs, A, A, rs, ms)
      BY <2>1, <2>2, ClauseSolvedOK
    <2> HIDE DEF t
    <2>4. StandsFor(k, lib, t, vs, A, A, rs, ms)
      BY <1>2, <2>3, StandsForCases
    <2> QED BY <2>4 DEF t
  <1>3. CASE k = "SAT_Aiger"
    <2>1. t = AigerSolved(lib, s)
      BY <1>3 DEF BackendSolved, SmtKinds, BddKinds
    <2>2. AigerOK(lib, s, vs, A, P, rs, ms)
      BY <1>3, StandsForCases
    <2>3. AigerOK(lib, t, vs, A, A, rs, ms)
      BY <2>1, <2>2, AigerSolvedOK
    <2> HIDE DEF t
    <2>4. StandsFor(k, lib, t, vs, A, A, rs, ms)
      BY <1>3, <2>3, StandsForCases
    <2> QED BY <2>4 DEF t
  <1>4. CASE k = "CUDD_Context"
    <2>1. t = BddSolved("CUDD_Context", s)
      BY <1>4 DEF BackendSolved, SmtKinds, BddKinds
    <2>2. rs = ms /\ BddOK(s, vs, A, P)
      BY <1>4, StandsForCases
    <2>3. BddOK(t, vs, A, A)
      BY <2>1, <2>2, BddSolvedOK
    <2> HIDE DEF t
    <2>4. StandsFor(k, lib, t, vs, A, A, rs, ms)
      BY <1>4, <2>2, <2>3, StandsForCases
    <2> QED BY <2>4 DEF t
  <1> QED BY <1>1, <1>2, <1>3, <1>4, KindCases


(* The values read: those of b, and X for the others.                      *)
ReadAs(b) == [v \in Var |-> IF v \in DOMAIN b THEN Tribool(b[v]) ELSE "X"]

LEMMA ReadAsMeans ==
    ASSUME NEW b, DOMAIN b \subseteq Var, \A v \in DOMAIN b : b[v] \in BOOLEAN
    PROVE  /\ ReadAs(b) \in [Var -> Promise!Value]
           /\ \A a \in Assignment : Promise!Reads(a, ReadAs(b)) => \A v \in DOMAIN b : a[v] = b[v]
  <1>1. \A x \in BOOLEAN : Tribool(x) \in {"0", "1"}
    BY DEF Tribool
  <1>2. \A x, y \in BOOLEAN : Tribool(x) = Tribool(y) => x = y
    BY DEF Tribool
  <1>3. \A v \in Var : ReadAs(b)[v] = (IF v \in DOMAIN b THEN Tribool(b[v]) ELSE "X")
    BY DEF ReadAs
  <1>4. ReadAs(b) \in [Var -> Promise!Value]
    <2>1. \A v \in Var : (IF v \in DOMAIN b THEN Tribool(b[v]) ELSE "X") \in {"0", "1", "X"}
      BY <1>1
    <2>2. [v \in Var |-> IF v \in DOMAIN b THEN Tribool(b[v]) ELSE "X"] \in [Var -> {"0", "1", "X"}]
      BY <2>1
    <2> QED BY <2>2 DEF ReadAs, Promise!Value
  <1>5. ASSUME NEW a \in Assignment, Promise!Reads(a, ReadAs(b)), NEW v \in DOMAIN b
        PROVE  a[v] = b[v]
    <2>1. v \in Var /\ a[v] \in BOOLEAN /\ b[v] \in BOOLEAN
      BY DEF Assignment
    <2>2. ReadAs(b)[v] = Tribool(b[v])
      BY <1>3, <2>1
    <2>3. ReadAs(b)[v] = "X" \/ ReadAs(b)[v] = (IF a[v] THEN "1" ELSE "0")
      BY <1>5, <2>1 DEF Promise!Reads
    <2>4. ReadAs(b)[v] = "X" \/ ReadAs(b)[v] = Tribool(a[v])
      BY <2>3 DEF Tribool
    <2>5. Tribool(b[v]) \in {"0", "1"}
      BY <1>1, <2>1
    <2>6. Tribool(b[v]) = Tribool(a[v])
      BY <2>2, <2>4, <2>5
    <2> QED BY <1>2, <2>1, <2>6
  <1> QED BY <1>4, <1>5

(* solve() finds something exactly if there is a solution, and what is     *)
(* read of it is one, whatever is put for X.                               *)
Readable(rd, P) ==
    /\ rd \in [Var -> Promise!Value]
    /\ \A a \in Assignment : Promise!Reads(a, rd) => a \in P

LEMMA ReadAsReadable ==
    ASSUME NEW b, DOMAIN b \subseteq Var, \A v \in DOMAIN b : b[v] \in BOOLEAN, NEW P,
           \A a \in Assignment : (\A v \in DOMAIN b : a[v] = b[v]) => a \in P
    PROVE  Readable(ReadAs(b), P)
  BY ReadAsMeans DEF Readable

LEMMA BackendFound ==
    ASSUME NEW k \in ExactKinds, NEW lib, NEW s, NEW vs, DOMAIN vs \subseteq Var, NEW A,
           NEW P \in SUBSET Assignment, Supported(P, DOMAIN vs), NEW rs, NEW ms,
           StandsFor(k, lib, s, vs, A, P, rs, ms)
    PROVE  /\ Found(k, lib, s) = {} <=> P = {}
           /\ \A m \in Found(k, lib, s) : Readable(Reading(k, m, vs), P)
  <1>1. CASE k \in SmtKinds
    <2>1. Found(k, lib, s) = P
      <3>1. Found(k, lib, s) = SmtAsked(k, s)
        BY <1>1 DEF Found, SmtKinds, BddKinds
      <3>2. SmtOK(k, s, A, P)
        BY <1>1, StandsForCases
      <3> QED BY <1>1, <3>1, <3>2, SmtSolvedOK
    <2>2. ASSUME NEW m \in P PROVE Readable(Reading(k, m, vs), P)
      <3> DEFINE b == [v \in DOMAIN vs |-> m[v]]
      <3>1. \A v : BackendRead(k, m, v, vs[v]) = Tribool(m[v])
        BY <1>1 DEF BackendRead, SmtKinds, BddKinds
      <3>2. Reading(k, m, vs) = ReadAs(b)
        BY <3>1 DEF Reading, ReadAs
      <3>3. m \in Assignment
        OBVIOUS
      <3>4. DOMAIN b = DOMAIN vs /\ \A v \in DOMAIN b : b[v] \in BOOLEAN
        BY <3>3 DEF Assignment
      <3>5. \A v \in DOMAIN vs : b[v] = m[v]
        OBVIOUS
      <3> HIDE DEF b
      <3>6. \A a \in Assignment : (\A v \in DOMAIN b : a[v] = b[v]) => a \in P
        BY <3>3, <3>4, <3>5 DEF Supported
      <3> QED BY <3>2, <3>4, <3>6, ReadAsReadable
    <2> QED BY <2>1, <2>2
  <1>2. CASE k = "SAT_Clause"
    <2>1. Found(k, lib, s) = SatModels(lib, s)
      BY <1>2 DEF Found, SmtKinds, BddKinds
    <2>2. ClauseOK(lib, s, vs, A, P, rs, ms)
      BY <1>2, StandsForCases
    <2>3. /\ SatModels(lib, s) = {} <=> P = {}
          /\ \A m \in SatModels(lib, s) :
                /\ m \in [1..s.last -> BOOLEAN]
                /\ \A a \in Assignment : Agrees(m, vs, a) => a \in P
          /\ s.last \in Nat /\ \A v \in DOMAIN vs : vs[v] \in Lit(s.last)
      BY <2>2, ClauseFound
    <2>4. ASSUME NEW m \in SatModels(lib, s) PROVE Readable(Reading(k, m, vs), P)
      <3> DEFINE b == [v \in DOMAIN vs |-> LitValue(m, vs[v])]
      <3>1. \A v : BackendRead(k, m, v, vs[v]) = Tribool(LitValue(m, vs[v]))
        BY <1>2 DEF BackendRead, SmtKinds, BddKinds
      <3>2. Reading(k, m, vs) = ReadAs(b)
        BY <3>1 DEF Reading, ReadAs
      <3>3. DOMAIN b = DOMAIN vs /\ \A v \in DOMAIN vs : b[v] = LitValue(m, vs[v])
        OBVIOUS
      <3> HIDE DEF b
      <3>4. \A v \in DOMAIN b : b[v] \in BOOLEAN
        BY <2>3, <3>3, LitValueBool
      <3>5. \A a \in Assignment : (\A v \in DOMAIN b : a[v] = b[v]) => Agrees(m, vs, a)
        BY <3>3 DEF Agrees
      <3>6. \A a \in Assignment : (\A v \in DOMAIN b : a[v] = b[v]) => a \in P
        BY <2>3, <3>5
      <3> QED BY <3>2, <3>3, <3>4, <3>6, ReadAsReadable
    <2> QED BY <2>1, <2>3, <2>4
  <1>3. CASE k = "SAT_Aiger"
    <2>1. Found(k, lib, s) = AigerModels(lib, s)
      BY <1>3 DEF Found, SmtKinds, BddKinds
    <2>2. AigerOK(lib, s, vs, A, P, rs, ms)
      BY <1>3, StandsForCases
    <2> DEFINE n == s.maxvar
    <2>3. /\ AigerModels(lib, s) = {} <=> P = {}
          /\ \A m \in AigerModels(lib, s) :
                /\ m \in [1..n -> BOOLEAN]
                /\ \A a \in Assignment : Agrees(m, SatLits(vs), a) => a \in P
          /\ n \in Nat
          /\ DOMAIN SatLits(vs) = DOMAIN vs
          /\ \A v \in DOMAIN vs : SatLits(vs)[v] = SatLit(vs[v]) /\ SatLit(vs[v]) \in Lit(n)
      BY <2>2, AigerFound
    <2> HIDE DEF n
    <2>4. ASSUME NEW m \in AigerModels(lib, s) PROVE Readable(Reading(k, m, vs), P)
      <3> DEFINE b == [v \in DOMAIN vs |-> LitValue(m, SatLit(vs[v]))]
      <3>1. \A v : BackendRead(k, m, v, vs[v]) = Tribool(LitValue(m, SatLit(vs[v])))
        BY <1>3 DEF BackendRead, SmtKinds, BddKinds
      <3>2. Reading(k, m, vs) = ReadAs(b)
        BY <3>1 DEF Reading, ReadAs
      <3>3. DOMAIN b = DOMAIN vs /\ \A v \in DOMAIN vs : b[v] = LitValue(m, SatLit(vs[v]))
        OBVIOUS
      <3> HIDE DEF b
      <3>4. \A v \in DOMAIN b : b[v] \in BOOLEAN
        BY <2>3, <3>3, LitValueBool
      <3>5. \A a \in Assignment : (\A v \in DOMAIN b : a[v] = b[v]) => Agrees(m, SatLits(vs), a)
        BY <2>3, <3>3 DEF Agrees
      <3>6. \A a \in Assignment : (\A v \in DOMAIN b : a[v] = b[v]) => a \in P
        BY <2>3, <3>5
      <3> QED BY <3>2, <3>3, <3>4, <3>6, ReadAsReadable
    <2> QED BY <2>1, <2>3, <2>4
  <1>4. CASE k = "CUDD_Context"
    <2> DEFINE found == BddSolutions("CUDD_Context", s)
    <2>1. Found(k, lib, s) = found
      BY <1>4 DEF Found, SmtKinds, BddKinds
    <2>2. BddOK(s, vs, A, P)
      BY <1>4, StandsForCases
    <2>3. /\ found = {} <=> P = {}
          /\ \A m \in found :
                /\ DOMAIN m \subseteq DOMAIN vs
                /\ m \in [DOMAIN m -> BOOLEAN]
                /\ \A a \in Assignment : (\A v \in DOMAIN m : a[v] = m[v]) => a \in P
      BY <2>2, BddFound
    <2> HIDE DEF found
    <2>4. ASSUME NEW m \in found PROVE Readable(Reading(k, m, vs), P)
      <3>1. \A v : BackendRead(k, m, v, vs[v]) = (IF v \in DOMAIN m THEN Tribool(m[v]) ELSE "X")
        BY <1>4 DEF BackendRead, SmtKinds, BddKinds
      <3>2. DOMAIN m \subseteq DOMAIN vs
        BY <2>3
      <3>3. Reading(k, m, vs) = ReadAs(m)
        BY <3>1, <3>2 DEF Reading, ReadAs
      <3>4. DOMAIN m \subseteq Var /\ \A v \in DOMAIN m : m[v] \in BOOLEAN
        BY <2>3
      <3> QED BY <2>3, <3>3, <3>4, ReadAsReadable
    <2> QED BY <2>1, <2>3, <2>4
  <1> QED BY <1>1, <1>2, <1>3, <1>4, KindCases


(***************************************************************************)
(* Formulas say nothing about the variables that have not been met.        *)
(***************************************************************************)
LEMMA SupportedAt ==
    ASSUME NEW f, NEW met, Supported(f, met), NEW a \in Assignment, NEW b \in Assignment,
           \A v \in met : a[v] = b[v]
    PROVE  a \in f <=> b \in f
  BY DEF Supported

LEMMA SupportedGrows ==
    ASSUME NEW f, NEW met, Supported(f, met), NEW more, met \subseteq more
    PROVE  Supported(f, more)
  BY DEF Supported

LEMMA SupportedBoth ==
    ASSUME NEW f, NEW g, NEW met, Supported(f, met), Supported(g, met)
    PROVE  Supported(f \intersect g, met)
  BY DEF Supported

LEMMA SupportedMeant ==
    ASSUME NEW tag \in AllTag, NEW f, NEW g, NEW h, NEW met,
           Arity(tag) >= 1 => Supported(f, met), Arity(tag) >= 2 => Supported(g, met),
           Arity(tag) >= 3 => Supported(h, met)
    PROVE  Supported(Meant(tag, f, g, h), met)
  <1> SUFFICES ASSUME NEW a \in Assignment, NEW b \in Assignment, \A v \in met : a[v] = b[v],
                      a \in Meant(tag, f, g, h)
               PROVE  b \in Meant(tag, f, g, h)
    BY DEF Supported
  <1>1. /\ Arity(tag) >= 1 => (a \in f <=> b \in f)
        /\ Arity(tag) >= 2 => (a \in g <=> b \in g)
        /\ Arity(tag) >= 3 => (a \in h <=> b \in h)
    BY SupportedAt
  <1>2. \/ tag \in {"true", "false"}
        \/ tag = "not" /\ Arity(tag) >= 1
        \/ tag = "ite" /\ Arity(tag) >= 1 /\ Arity(tag) >= 2 /\ Arity(tag) >= 3
        \/ tag \in GateTag \union EqualityTag \union {"implies"} /\ Arity(tag) >= 1 /\ Arity(tag) >= 2
    BY ArityCases
  <1>3. CASE tag \in {"true", "false"}
    BY <1>3, MeantAt
  <1>4. CASE tag = "not" /\ Arity(tag) >= 1
    BY <1>1, <1>4, MeantAt
  <1>5. CASE tag = "ite" /\ Arity(tag) >= 1 /\ Arity(tag) >= 2 /\ Arity(tag) >= 3
    BY <1>1, <1>5, MeantAt
  <1>6. CASE tag \in GateTag \union EqualityTag \union {"implies"} /\ Arity(tag) >= 1 /\ Arity(tag) >= 2
    <2>1. tag \in {"and", "nand", "or", "nor", "xor", "xnor", "implies", "equal", "nequal", "distinct"}
      BY <1>6 DEF GateTag, EqualityTag
    <2> QED BY <1>1, <1>6, <2>1, MeantAt
  <1> QED BY <1>2, <1>3, <1>4, <1>5, <1>6

(* The meaning of a new formula.                                           *)
LEMMA MeaningIsMeant ==
    ASSUME NEW tag \in AllTag, NEW args, Len(args) \in Nat
    PROVE  MeaningOf(tag, args) =
             Meant(tag, Nth(meaning, args, 1), Nth(meaning, args, 2), Nth(meaning, args, 3))
  <1> DEFINE at(a, i) == i <= Len(args) /\ a \in meaning[args[i]]
  <1>1. \A a, i : a \in Nth(meaning, args, i) <=> at(a, i)
    BY DEF Nth
  <1>2. \A a, i : at(a, i) \in BOOLEAN /\ (a \in Nth(meaning, args, i)) \in BOOLEAN
    OBVIOUS
  <1>3. \A a, i : at(a, i) = (a \in Nth(meaning, args, i))
    BY <1>1, <1>2, Zenon
  <1>4. MeaningOf(tag, args) = {a \in Assignment : Holds(tag, at(a, 1), at(a, 2), at(a, 3))}
    BY Zenon DEF MeaningOf
  <1> HIDE DEF at
  <1>5. \A a : Holds(tag, at(a, 1), at(a, 2), at(a, 3)) =
               Holds(tag, a \in Nth(meaning, args, 1), a \in Nth(meaning, args, 2), a \in Nth(meaning, args, 3))
    BY <1>3, Zenon
  <1> QED BY <1>4, <1>5, Zenon DEF Meant


(***************************************************************************)
(* The invariant holds initially and is kept by every step.                *)
(***************************************************************************)
LEMMA InitOK ==
    ASSUME Init, kind # "CUDD_Distributed"
    PROVE  IInv
  <1>1. PICK b \in Backends : kind = b[1]
    BY DEF Init
  <1>2. kind \in ExactKinds
    <2>1. b \in (SmtKinds \union BddKinds) \X {"none"} \union SatKinds \X SatLibrary
      BY BackendsAssumption
    <2>2. b[1] \in SmtKinds \union BddKinds \union SatKinds
      BY <2>1
    <2> QED BY <1>1, <2>2 DEF ExactKinds, BddKinds
  <1>3. /\ _variables = NoVariables /\ meaning = <<>> /\ results = <<>>
        /\ backend = BackendInit(kind, library) /\ answer = "none"
        /\ asserted = Assignment /\ possible = Assignment
    BY DEF Init, NoVariables
  <1>4. BackendOK
    BY <1>2, <1>3, BackendInitOK DEF BackendOK
  <1>5. DOMAIN _variables = {} /\ _variables = [v \in DOMAIN _variables |-> _variables[v]]
    BY <1>3 DEF NoVariables
  <1>6. meaning \in Seq(SUBSET Assignment) /\ DOMAIN meaning = {}
    BY <1>3
  <1>7. results = [k \in DOMAIN meaning |-> results[k]]
    BY <1>3, <1>6
  <1>8. Types
    BY <1>3, <1>5, <1>6, <1>7 DEF Types
  <1>9. Supports
    BY <1>3, <1>6 DEF Supports, Supported
  <1>10. Answered
    BY <1>3 DEF Answered
  <1> QED BY <1>4, <1>8, <1>9, <1>10 DEF IInv

(* One more formula, as Variable and Apply append it.                      *)
LEMMA FormulasGrow ==
    ASSUME Types, NEW r, NEW f \in SUBSET Assignment, results' = Append(results, r),
           meaning' = Append(meaning, f), NEW met, Supported(f, met), DOMAIN _variables \subseteq met,
           Supports
    PROVE  /\ Formulas(results, meaning)
           /\ meaning' \in Seq(SUBSET Assignment)
           /\ results' = [k \in DOMAIN meaning' |-> results'[k]]
           /\ \A k \in DOMAIN meaning' : Supported(meaning'[k], met)
  <1>1. Formulas(results, meaning)
    BY DEF Types, Formulas
  <1>2. /\ Formulas(results', meaning')
        /\ DOMAIN meaning' = DOMAIN meaning \union {Len(meaning) + 1}
        /\ meaning'[Len(meaning) + 1] = f
        /\ \A k \in DOMAIN meaning : meaning'[k] = meaning[k]
    BY <1>1, DenotedGrows
  <1>3. \A k \in DOMAIN meaning : Supported(meaning[k], met)
    BY SupportedGrows DEF Supports
  <1>4. meaning' \in Seq(SUBSET Assignment) /\ results' = [k \in DOMAIN meaning' |-> results'[k]]
    BY <1>2 DEF Formulas
  <1>5. \A k \in DOMAIN meaning' : Supported(meaning'[k], met)
    BY <1>2, <1>3
  <1> QED BY <1>1, <1>4, <1>5

LEMMA VariableOK ==
    ASSUME IInv, NEW v \in Var, Variable(v)
    PROVE  IInv'
  <1> DEFINE r == NewVariable(kind, backend, v)
             f == {a \in Assignment : a[v]}
             met == DOMAIN _variables \union {v}
  <1>1. /\ v \notin DOMAIN _variables
        /\ _variables' = WithVariable(_variables, v, r.result)
        /\ backend' = r.s /\ results' = Append(results, r.result) /\ meaning' = Append(meaning, f)
        /\ answer' = "none"
        /\ kind' = kind /\ library' = library /\ asserted' = asserted /\ possible' = possible
    BY DEF Variable, Append2, Forget, WithVariable
  <1>2. Types /\ Supports /\ kind \in ExactKinds
        /\ StandsFor(kind, library, backend, _variables, asserted, possible, results, meaning)
    BY DEF IInv, BackendOK
  <1>3. f \in SUBSET Assignment /\ Supported(f, met)
    BY DEF Supported
  <1>4. /\ DOMAIN _variables' = met /\ met \subseteq Var
        /\ _variables' = [w \in DOMAIN _variables' |-> _variables'[w]]
    BY <1>1, <1>2 DEF WithVariable, Types
  <1> HIDE DEF r
  <1>5. r = NewVariable(kind, backend, v) /\ f = {a \in Assignment : a[v]}
    BY DEF r
  <1> HIDE DEF f
  <1>6. DOMAIN _variables \subseteq met
    OBVIOUS
  <1> HIDE DEF met
  <1>7. /\ Formulas(results, meaning)
        /\ meaning' \in Seq(SUBSET Assignment)
        /\ results' = [k \in DOMAIN meaning' |-> results'[k]]
        /\ \A k \in DOMAIN meaning' : Supported(meaning'[k], met)
    BY <1>1, <1>2, <1>3, <1>6, FormulasGrow
  <1>8. StandsFor(kind, library, r.s, WithVariable(_variables, v, r.result), asserted, possible,
                  Append(results, r.result), Append(meaning, f))
    BY <1>1, <1>2, <1>5, <1>7, NewVariableOK
  <1>9. BackendOK'
    BY <1>1, <1>2, <1>8 DEF BackendOK
  <1>10. Types'
    BY <1>1, <1>2, <1>4, <1>7 DEF Types
  <1>11. Supported(asserted, met) /\ Supported(possible, met)
    BY <1>2, <1>6, SupportedGrows DEF Supports
  <1>12. Supports'
    BY <1>1, <1>4, <1>7, <1>11 DEF Supports
  <1>13. Answered'
    BY <1>1 DEF Answered
  <1> QED BY <1>9, <1>10, <1>12, <1>13 DEF IInv

LEMMA ApplyOK ==
    ASSUME IInv, NEW tag \in Tags, NEW args \in Operands(tag), Apply(tag, args)
    PROVE  IInv'
  <1> DEFINE ls == [i \in DOMAIN args |-> results[args[i]]]
             r == Operation(kind, library, backend, tag, ls)
             f == Meant(tag, Nth(meaning, args, 1), Nth(meaning, args, 2), Nth(meaning, args, 3))
             met == DOMAIN _variables
  <1>1. tag \in AllTag /\ args \in [1..Arity(tag) -> DOMAIN meaning]
    BY BackendsAssumption DEF AllTag, Operands
  <1>2. Types /\ Supports /\ kind \in ExactKinds
        /\ StandsFor(kind, library, backend, _variables, asserted, possible, results, meaning)
        /\ meaning \in Seq(SUBSET Assignment)
    BY DEF IInv, BackendOK, Types
  <1>3. /\ Len(args) = Arity(tag) /\ Arity(tag) \in 0..3
        /\ \A i \in 1..3 : i <= Arity(tag) =>
              args[i] \in DOMAIN meaning /\ Nth(meaning, args, i) = meaning[args[i]]
    <2>1. Arity(tag) \in 0..3
      BY <1>1, ArityCases
    <2> QED BY <1>1, <1>2, <2>1, NthOperand
  <1>4. MeaningOf(tag, args) = f
    BY <1>1, <1>3, MeaningIsMeant
  <1>5. /\ backend' = r.s /\ results' = Append(results, r.result)
        /\ meaning' = Append(meaning, MeaningOf(tag, args))
        /\ answer' = "none" /\ _variables' = _variables
        /\ kind' = kind /\ library' = library /\ asserted' = asserted /\ possible' = possible
    BY DEF Apply, Append2, Forget
  <1>6. f \in SUBSET Assignment
    BY DEF Meant
  <1>7. Supported(f, met)
    <2>1. \A i \in 1..3 : i <= Arity(tag) => Supported(Nth(meaning, args, i), met)
      BY <1>2, <1>3 DEF Supports
    <2>2. /\ Arity(tag) >= 1 => Supported(Nth(meaning, args, 1), met)
          /\ Arity(tag) >= 2 => Supported(Nth(meaning, args, 2), met)
          /\ Arity(tag) >= 3 => Supported(Nth(meaning, args, 3), met)
      BY <1>3, <2>1
    <2> QED BY <1>1, <2>2, SupportedMeant
  <1>8. /\ ls = [i \in DOMAIN args |-> results[args[i]]]
        /\ f = Meant(tag, Nth(meaning, args, 1), Nth(meaning, args, 2), Nth(meaning, args, 3))
        /\ met = DOMAIN _variables
    OBVIOUS
  <1> HIDE DEF ls, f, met
  <1>9. r = Operation(kind, library, backend, tag, ls)
    OBVIOUS
  <1> HIDE DEF r
  <1>10. meaning' = Append(meaning, f)
    BY <1>4, <1>5
  <1>11. /\ Formulas(results, meaning)
         /\ meaning' \in Seq(SUBSET Assignment)
         /\ results' = [k \in DOMAIN meaning' |-> results'[k]]
         /\ \A k \in DOMAIN meaning' : Supported(meaning'[k], met)
    BY <1>2, <1>5, <1>6, <1>7, <1>8, <1>10, FormulasGrow
  <1>12. StandsFor(kind, library, r.s, _variables, asserted, possible,
                   Append(results, r.result), Append(meaning, f))
    BY <1>1, <1>2, <1>8, <1>9, <1>11, OperationOK
  <1>13. BackendOK'
    BY <1>2, <1>5, <1>10, <1>12 DEF BackendOK
  <1>14. Types'
    BY <1>2, <1>5, <1>11 DEF Types
  <1>15. Supports'
    BY <1>2, <1>5, <1>8, <1>11 DEF Supports
  <1>16. Answered'
    BY <1>5 DEF Answered
  <1> QED BY <1>13, <1>14, <1>15, <1>16 DEF IInv


LEMMA AssertionOK ==
    ASSUME IInv, NEW k \in DOMAIN meaning, Assertion(k)
    PROVE  IInv'
  <1>1. /\ backend' = BackendAssert(kind, library, backend, results[k])
        /\ asserted' = asserted \intersect meaning[k] /\ possible' = possible \intersect meaning[k]
        /\ answer' = "none" /\ _variables' = _variables /\ meaning' = meaning /\ results' = results
        /\ kind' = kind /\ library' = library
    BY DEF Assertion, Forget
  <1>2. Types /\ Supports /\ kind \in ExactKinds
        /\ StandsFor(kind, library, backend, _variables, asserted, possible, results, meaning)
        /\ meaning \in Seq(SUBSET Assignment)
    BY DEF IInv, BackendOK, Types
  <1>3. StandsFor(kind, library, BackendAssert(kind, library, backend, results[k]), _variables,
                  asserted \intersect meaning[k], possible \intersect meaning[k], results, meaning)
    BY <1>2, BackendAssertOK
  <1>4. BackendOK'
    BY <1>1, <1>2, <1>3 DEF BackendOK
  <1>5. Types'
    BY <1>1, <1>2 DEF Types
  <1>6. /\ Supported(asserted \intersect meaning[k], DOMAIN _variables)
        /\ Supported(possible \intersect meaning[k], DOMAIN _variables)
    BY <1>2, SupportedBoth DEF Supports
  <1>7. Supports'
    BY <1>1, <1>2, <1>6 DEF Supports
  <1>8. Answered'
    BY <1>1 DEF Answered
  <1> QED BY <1>4, <1>5, <1>7, <1>8 DEF IInv

LEMMA AssumptionOK ==
    ASSUME IInv, NEW k \in DOMAIN meaning, Assumption(k)
    PROVE  IInv'
  <1>1. /\ backend' = BackendAssume(kind, library, backend, results[k])
        /\ asserted' = asserted /\ possible' = possible \intersect meaning[k]
        /\ answer' = "none" /\ _variables' = _variables /\ meaning' = meaning /\ results' = results
        /\ kind' = kind /\ library' = library
    BY DEF Assumption, Forget
  <1>2. Types /\ Supports /\ kind \in ExactKinds
        /\ StandsFor(kind, library, backend, _variables, asserted, possible, results, meaning)
        /\ meaning \in Seq(SUBSET Assignment)
    BY DEF IInv, BackendOK, Types
  <1>3. StandsFor(kind, library, BackendAssume(kind, library, backend, results[k]), _variables,
                  asserted, possible \intersect meaning[k], results, meaning)
    BY <1>2, BackendAssumeOK
  <1>4. BackendOK'
    BY <1>1, <1>2, <1>3 DEF BackendOK
  <1>5. Types'
    BY <1>1, <1>2 DEF Types
  <1>6. Supported(possible \intersect meaning[k], DOMAIN _variables)
    BY <1>2, SupportedBoth DEF Supports
  <1>7. Supports'
    BY <1>1, <1>2, <1>6 DEF Supports
  <1>8. Answered'
    BY <1>1 DEF Answered
  <1> QED BY <1>4, <1>5, <1>7, <1>8 DEF IInv

(* What both answers of solve() leave, and when they are given.            *)
Solving ==
    /\ solutions' = possible
    /\ backend' = BackendSolved(kind, library, backend)
    /\ possible' = asserted
    /\ values' = <<>>
    /\ UNCHANGED <<kind, library, _variables, meaning, results, asserted, commands>>

LEMMA SolvingOK ==
    ASSUME IInv, Solving
    PROVE  (Types /\ Supports /\ BackendOK)'
  <1>1. /\ backend' = BackendSolved(kind, library, backend) /\ possible' = asserted
        /\ asserted' = asserted /\ _variables' = _variables /\ meaning' = meaning /\ results' = results
        /\ kind' = kind /\ library' = library
    BY DEF Solving
  <1>2. Types /\ Supports /\ kind \in ExactKinds /\ asserted \in SUBSET Assignment
        /\ StandsFor(kind, library, backend, _variables, asserted, possible, results, meaning)
    BY DEF IInv, BackendOK, Types
  <1>3. StandsFor(kind, library, BackendSolved(kind, library, backend), _variables, asserted, asserted,
                  results, meaning)
    BY <1>2, BackendSolvedOK
  <1>4. BackendOK'
    BY <1>1, <1>2, <1>3 DEF BackendOK
  <1>5. Types'
    BY <1>1, <1>2 DEF Types
  <1>6. Supports'
    BY <1>1, <1>2 DEF Supports
  <1> QED BY <1>4, <1>5, <1>6

LEMMA FoundOK ==
    ASSUME IInv
    PROVE  /\ Found(kind, library, backend) = {} <=> possible = {}
           /\ \A m \in Found(kind, library, backend) : Readable(Reading(kind, m, _variables), possible)
  <1>1. /\ kind \in ExactKinds /\ DOMAIN _variables \subseteq Var /\ possible \in SUBSET Assignment
        /\ Supported(possible, DOMAIN _variables)
        /\ StandsFor(kind, library, backend, _variables, asserted, possible, results, meaning)
    BY DEF IInv, BackendOK, Types, Supports
  <1> QED BY <1>1, BackendFound

LEMMA SolveOK ==
    ASSUME IInv
    PROVE  /\ \A m \in Found(kind, library, backend) : SolveSat(m) => IInv'
           /\ SolveUnsat => IInv'
           /\ SolveThrows => IInv'
  <1>1. ASSUME NEW m \in Found(kind, library, backend), SolveSat(m) PROVE IInv'
    <2>1. Solving /\ model' = m /\ _variables' = _variables /\ kind' = kind /\ solutions' = possible
      BY <1>1 DEF SolveSat, Solving
    <2>2. Readable(Reading(kind, m, _variables), possible)
      BY FoundOK
    <2>3. Reading(kind, model, _variables)' = Reading(kind, m, _variables)
      BY <2>1 DEF Reading
    <2>4. Answered'
      BY <2>1, <2>2, <2>3 DEF Answered, Readable
    <2> QED BY <2>1, <2>4, SolvingOK DEF IInv
  <1>2. ASSUME SolveUnsat PROVE IInv'
    <2>1. Solving /\ answer' = "unsat"
      BY <1>2 DEF SolveUnsat, Solving
    <2>2. Answered'
      BY <2>1 DEF Answered
    <2> QED BY <2>1, <2>2, SolvingOK DEF IInv
  <1>3. ASSUME SolveThrows PROVE IInv'
    <2>1. /\ MayRefuse(kind, backend) /\ backend' = Refused(kind, backend) /\ answer' = "error"
          /\ UNCHANGED <<kind, library, _variables, meaning, results, asserted, possible>>
      BY <1>3 DEF SolveThrows
    <2>2. kind \in SmtKinds /\ results = meaning /\ SmtOK(kind, backend, asserted, possible)
      BY <2>1 DEF IInv, BackendOK, StandsFor, MayRefuse, SmtKinds
    <2>3. SmtOK(kind, Refused(kind, backend), asserted, possible)
      BY <2>1, <2>2, SmtRefusedOK
    <2>4. StandsFor(kind, library, Refused(kind, backend), _variables, asserted, possible, results, meaning)
      BY <2>1, <2>2, <2>3 DEF StandsFor, MayRefuse
    <2>5. BackendOK'
      BY <2>1, <2>4 DEF IInv, BackendOK
    <2>6. Types' /\ Supports'
      BY <2>1 DEF IInv, Types, Supports
    <2>7. Answered'
      BY <2>1 DEF Answered
    <2> QED BY <2>5, <2>6, <2>7 DEF IInv
  <1> QED BY <1>1, <1>2, <1>3

LEMMA ReadOK ==
    ASSUME IInv, \/ ReadValues
                 \/ UNCHANGED vars
    PROVE  IInv'
  <1>1. UNCHANGED <<kind, library, _variables, meaning, results, backend, model, answer,
                    asserted, possible, solutions, commands>>
    BY DEF ReadValues, vars
  <1>2. Types' /\ Supports'
    BY <1>1 DEF IInv, Types, Supports
  <1>3. BackendOK'
    BY <1>1 DEF IInv, BackendOK
  <1>4. Answered'
    BY <1>1 DEF IInv, Answered, Reading
  <1> QED BY <1>2, <1>3, <1>4 DEF IInv

LEMMA StepOK ==
    ASSUME IInv, [Next]_vars
    PROVE  IInv'
  <1>1. ASSUME NEW v \in Var, Variable(v) PROVE IInv'
    BY <1>1, VariableOK
  <1>2. ASSUME NEW tag \in Tags, NEW args \in Operands(tag), Apply(tag, args) PROVE IInv'
    BY <1>2, ApplyOK
  <1>3. ASSUME NEW k \in DOMAIN meaning, Assertion(k) PROVE IInv'
    BY <1>3, AssertionOK
  <1>4. ASSUME NEW k \in DOMAIN meaning, Assumption(k) PROVE IInv'
    BY <1>4, AssumptionOK
  <1>5. ASSUME NEW m \in Found(kind, library, backend), SolveSat(m) PROVE IInv'
    BY <1>5, SolveOK
  <1>6. CASE SolveUnsat
    BY <1>6, SolveOK
  <1>7. CASE ReadValues
    BY <1>7, ReadOK
  <1>8. CASE SolveThrows
    BY <1>8, SolveOK
  <1>9. CASE UNCHANGED vars
    BY <1>9, ReadOK
  <1> QED BY <1>1, <1>2, <1>3, <1>4, <1>5, <1>6, <1>7, <1>8, <1>9 DEF Next


(***************************************************************************)
(* Every step is a step of AbstractSolver.                                 *)
(***************************************************************************)
(* What stands for refusable: Yices2 holds an assumption.  Only assuming   *)
(* and an answer of solve() change it.                                     *)
Refusable == kind = "Yices2" /\ backend.held

LEMMA RefusableSteps ==
    ASSUME IInv
    PROVE  /\ \A v \in Var : Variable(v) => Refusable' = Refusable
           /\ \A tag \in Tags : \A args \in Operands(tag) : Apply(tag, args) => Refusable' = Refusable
           /\ \A k \in DOMAIN meaning : Assertion(k) => Refusable' = Refusable
           /\ \A m \in Found(kind, library, backend) : SolveSat(m) => Refusable' = FALSE
           /\ SolveUnsat => Refusable' = FALSE
           /\ SolveThrows => Refusable /\ Refusable' = Refusable /\ asserted = {}
  <1>1. CASE kind # "Yices2"
    <2>1. kind' = kind => Refusable' = FALSE /\ Refusable = FALSE
      BY <1>1 DEF Refusable
    <2>2. ~SolveThrows
      BY <1>1 DEF SolveThrows, MayRefuse
    <2> QED BY <2>1, <2>2 DEF Variable, Apply, Assertion, SolveSat, SolveUnsat
  <1>2. CASE kind = "Yices2"
    <2>1. kind \in SmtKinds /\ backend \in SmtState /\ SmtOK(kind, backend, asserted, possible)
      BY <1>2 DEF IInv, BackendOK, StandsFor, SmtOK, SmtKinds
    <2>2. ASSUME backend'.held = backend.held, kind' = kind PROVE Refusable' = Refusable
      BY <1>2, <2>2 DEF Refusable
    <2>3. ASSUME NEW v \in Var, Variable(v) PROVE Refusable' = Refusable
      <3>1. backend' = backend /\ kind' = kind
        BY <2>1, <2>3 DEF Variable, Append2, NewVariable, Built, SmtKinds, BddKinds
      <3> QED BY <2>2, <3>1
    <2>4. ASSUME NEW tag \in Tags, NEW args \in Operands(tag), Apply(tag, args)
          PROVE  Refusable' = Refusable
      <3>1. backend' = backend /\ kind' = kind
        BY <1>2, <2>1, <2>4 DEF Apply, Append2, Operation, Built
      <3> QED BY <2>2, <3>1
    <2>5. ASSUME NEW k \in DOMAIN meaning, Assertion(k) PROVE Refusable' = Refusable
      <3>1. backend' = [backend EXCEPT !.asserts = @ \intersect results[k]] /\ kind' = kind
        BY <1>2, <2>1, <2>5 DEF Assertion, BackendAssert, SmtAssert, Deferred, SmtKinds, BddKinds
      <3>2. backend'.held = backend.held
        BY <2>1, <3>1 DEF SmtState
      <3> QED BY <2>2, <3>1, <3>2
    <2>6. ASSUME backend' = BackendSolved(kind, library, backend), kind' = kind
          PROVE  Refusable' = FALSE
      <3>1. backend' = SmtSolved(kind, backend)
        BY <1>2, <2>1, <2>6 DEF BackendSolved, SmtKinds, BddKinds
      <3>2. backend'.held = FALSE
        BY <1>2, <2>1, <3>1, SmtSolvedOK
      <3> QED BY <3>2 DEF Refusable
    <2>7. ASSUME SolveThrows PROVE Refusable /\ Refusable' = Refusable /\ asserted = {}
      <3>1. MayRefuse(kind, backend) /\ backend' = Refused(kind, backend) /\ kind' = kind
        BY <2>7 DEF SolveThrows
      <3>2. backend'.held = backend.held /\ asserted = {}
        BY <2>1, <3>1, SmtRefusedOK
      <3>3. backend.held
        BY <3>1 DEF MayRefuse
      <3> QED BY <1>2, <2>2, <3>1, <3>2, <3>3 DEF Refusable
    <2> QED BY <2>3, <2>4, <2>5, <2>6, <2>7 DEF SolveSat, SolveUnsat
  <1> QED BY <1>1, <1>2

LEMMA BuildStep ==
    ASSUME Types, NEW f \in SUBSET Assignment, meaning' = Append(meaning, f), Forget,
           UNCHANGED <<asserted, possible>>,
           Refusable' = Refusable
    PROVE  Promise!Build
  <1> DEFINE S == SUBSET Assignment
  <1>1. meaning \in Seq(S) /\ f \in S
    BY DEF Types
  <1> HIDE DEF S
  <1>2. Len(Append(meaning, f)) = Len(meaning) + 1 /\ Append(meaning, f)[Len(meaning) + 1] = f
    BY <1>1
  <1>3. SubSeq(Append(meaning, f), 1, Len(meaning)) = meaning
    BY <1>1, AppendProperties
  <1>4. f \subseteq Promise!Assignment
    BY DEF Assignment, Promise!Assignment
  <1>5. Promise!Forget
    BY DEF Forget, Promise!Forget
  <1> QED BY <1>2, <1>3, <1>4, <1>5 DEF Refusable, Promise!Build

LEMMA StepKeepsPromise ==
    ASSUME IInv, [Next]_vars
    PROVE  [Promise!Next]_(Promise!vars)
  <1>0. Types
    BY DEF IInv
  <1>1. ASSUME NEW v \in Var, Variable(v) PROVE Promise!Next
    <2>1. /\ meaning' = Append(meaning, {a \in Assignment : a[v]}) /\ Forget
          /\ UNCHANGED <<asserted, possible>>
      BY <1>1 DEF Variable, Append2
    <2>2. {a \in Assignment : a[v]} \in SUBSET Assignment
      OBVIOUS
    <2>3. Refusable' = Refusable
      BY <1>1, RefusableSteps
    <2> QED BY <1>0, <2>1, <2>2, <2>3, BuildStep DEF Promise!Next
  <1>2. ASSUME NEW tag \in Tags, NEW args \in Operands(tag), Apply(tag, args) PROVE Promise!Next
    <2>1. /\ meaning' = Append(meaning, MeaningOf(tag, args)) /\ Forget
          /\ UNCHANGED <<asserted, possible>>
      BY <1>2 DEF Apply, Append2
    <2>2. MeaningOf(tag, args) \in SUBSET Assignment
      BY DEF MeaningOf
    <2>3. Refusable' = Refusable
      BY <1>2, RefusableSteps
    <2> QED BY <1>0, <2>1, <2>2, <2>3, BuildStep DEF Promise!Next
  <1>3. ASSUME NEW k \in DOMAIN meaning, Assertion(k) PROVE Promise!Next
    <2>1. Refusable' = Refusable
      BY <1>3, RefusableSteps
    <2>2. Promise!Assert(k)
      BY <1>3, <2>1 DEF Assertion, Forget, Refusable, Promise!Assert, Promise!Forget
    <2> QED BY <2>2 DEF Promise!Next
  <1>4. ASSUME NEW k \in DOMAIN meaning, Assumption(k) PROVE Promise!Next
    <2>1. Refusable' \in BOOLEAN
      BY DEF Refusable
    <2>2. Promise!Assume(k)
      BY <1>4, <2>1 DEF Assumption, Forget, Refusable, Promise!Assume, Promise!Forget
    <2> QED BY <2>2 DEF Promise!Next
  <1>5. ASSUME NEW m \in Found(kind, library, backend), SolveSat(m) PROVE Promise!Next
    <2>1. possible # {} /\ Refusable' = FALSE
      BY <1>5, FoundOK, RefusableSteps
    <2>2. Promise!Solve
      BY <1>5, <2>1 DEF SolveSat, Refusable, Promise!Solve
    <2> QED BY <2>2 DEF Promise!Next
  <1>6. CASE SolveUnsat
    <2>1. possible = {} /\ Refusable' = FALSE
      BY <1>6, FoundOK, RefusableSteps DEF SolveUnsat
    <2>2. Promise!Solve
      BY <1>6, <2>1 DEF SolveUnsat, Refusable, Promise!Solve
    <2> QED BY <2>2 DEF Promise!Next
  <1>7. CASE ReadValues
    <2>1. answer = "sat" /\ values' = Reading(kind, model, _variables)
      BY <1>7 DEF ReadValues, Reading
    <2>2. /\ Reading(kind, model, _variables) \in [Var -> Promise!Value]
          /\ \A a \in Assignment :
               Promise!Reads(a, Reading(kind, model, _variables)) => a \in solutions
      BY <2>1 DEF IInv, Answered
    <2>3. Assignment = Promise!Assignment
      BY DEF Assignment, Promise!Assignment
    <2>4. Promise!Read
      BY <1>7, <2>1, <2>2, <2>3 DEF ReadValues, Promise!Read
    <2> QED BY <2>4 DEF Promise!Next
  <1>8. CASE SolveThrows
    <2>1. Refusable /\ Refusable' = Refusable /\ asserted = {}
      BY <1>8, RefusableSteps
    <2>2. Promise!Refuse
      BY <1>8, <2>1 DEF SolveThrows, Refusable, Promise!Refuse
    <2> QED BY <2>2 DEF Promise!Next
  <1>9. CASE UNCHANGED vars
    BY <1>9 DEF vars, Promise!vars
  <1> QED BY <1>1, <1>2, <1>3, <1>4, <1>5, <1>6, <1>7, <1>8, <1>9 DEF Next

(* Whatever is built, asserted, assumed and solved, in whatever order, the *)
(* results of a back end other than CUDD_Distributed stand for the         *)
(* formulas asked for, and its state for what was asserted and assumed,    *)
(* after a solve() that Yices2 refused by an exception, too.               *)
THEOREM IInvAlways == Spec /\ kind # "CUDD_Distributed" => []IInv
  <1>1. Init /\ kind # "CUDD_Distributed" => IInv
    BY InitOK
  <1>2. IInv /\ [Next]_vars => IInv'
    BY StepOK
  <1> QED BY <1>1, <1>2, PTL DEF Spec

(* Every back end but CUDD_Distributed implements AbstractSolver: an       *)
(* assertion holds in every later solve(), an assumption in the next one   *)
(* only, solve() finds a solution exactly if there is one, and the values  *)
(* read are one.  Yices2 alone may throw in solve(), and it does so only   *)
(* if the assertions contradict one another and an assumption is pending.  *)
THEOREM KeepsPromise == Spec /\ kind # "CUDD_Distributed" => SolverKeepsPromise
  <1>1. Init => Promise!Init
    <2> SUFFICES ASSUME Init PROVE Promise!Init
      OBVIOUS
    <2>1. kind = "Yices2" => backend.held = FALSE
      BY DEF Init, BackendInit, SmtInit, SmtKinds, BddKinds
    <2>2. (kind = "Yices2" /\ backend.held) = FALSE
      BY <2>1, Zenon
    <2> QED BY <2>2 DEF Init, Promise!Init, Assignment, Promise!Assignment
  <1>2. IInv /\ [Next]_vars => [Promise!Next]_(Promise!vars)
    BY StepKeepsPromise
  <1> QED BY <1>1, <1>2, IInvAlways, PTL DEF Spec, SolverKeepsPromise, Promise!Spec
=============================================================================
