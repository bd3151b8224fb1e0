--------------------------- MODULE AbstractSolver ---------------------------
(***************************************************************************)
(* What metaSMT promises of every solver, whatever is below it: asserted   *)
(* formulas hold from then on, assumed ones in the next call of solve()    *)
(* only, solve() tells whether there is a solution, and the values read    *)
(* afterwards are one.  A solver may refuse to answer, by an exception, if *)
(* the assertions contradict one another and an assumption is pending.     *)
(***************************************************************************)
EXTENDS Integers, Sequences

CONSTANT Var

Assignment == [Var -> BOOLEAN]
Value == {"0", "1", "X"}

VARIABLES
    meaning,    \* meaning[k]: the assignments that satisfy formula k
    asserted,   \* the assignments that satisfy all assertions
    possible,   \* those that satisfy the pending assumptions, too
    answer,     \* of the last solve(), "none" if something came after it
    solutions,  \* possible at the last solve()
    values,     \* the values read, <<>> if none were
    refusable   \* an assumption is pending that the solver may refuse

vars == <<meaning, asserted, possible, answer, solutions, values, refusable>>

Init ==
    /\ meaning = <<>>
    /\ asserted = Assignment
    /\ possible = Assignment
    /\ answer = "none"
    /\ solutions = {}
    /\ values = <<>>
    /\ refusable = FALSE

Forget == answer' = "none" /\ solutions' = {} /\ values' = <<>>

Build ==
    /\ Len(meaning') = Len(meaning) + 1
    /\ SubSeq(meaning', 1, Len(meaning)) = meaning
    /\ meaning'[Len(meaning')] \subseteq Assignment
    /\ Forget
    /\ UNCHANGED <<asserted, possible, refusable>>

Assert(k) ==
    /\ asserted' = asserted \intersect meaning[k]
    /\ possible' = possible \intersect meaning[k]
    /\ Forget
    /\ UNCHANGED <<meaning, refusable>>

Assume(k) ==
    /\ possible' = possible \intersect meaning[k]
    /\ refusable' \in BOOLEAN
    /\ Forget
    /\ UNCHANGED <<meaning, asserted>>

Solve ==
    /\ answer' = IF possible = {} THEN "unsat" ELSE "sat"
    /\ solutions' = possible
    /\ possible' = asserted
    /\ values' = <<>>
    /\ refusable' = FALSE
    /\ UNCHANGED <<meaning, asserted>>

Refuse ==
    /\ refusable
    /\ asserted = {}
    /\ answer' = "error"
    /\ solutions' = {}
    /\ values' = <<>>
    /\ UNCHANGED <<meaning, asserted, possible, refusable>>

(* X stands for either value.                                              *)
Reads(a, r) == \A v \in Var : r[v] = "X" \/ r[v] = (IF a[v] THEN "1" ELSE "0")
Read ==
    /\ answer = "sat"
    /\ values' \in [Var -> Value]
    /\ \A a \in Assignment : Reads(a, values') => a \in solutions
    /\ UNCHANGED <<meaning, asserted, possible, answer, solutions, refusable>>

Next ==
    \/ Build
    \/ \E k \in DOMAIN meaning : Assert(k) \/ Assume(k)
    \/ Solve
    \/ Refuse
    \/ Read

Spec == Init /\ [][Next]_vars
=============================================================================
