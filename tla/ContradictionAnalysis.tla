----------------------- MODULE ContradictionAnalysis -----------------------
(***************************************************************************)
(* metaSMT's analyze_conflicts: which constraints contradict one another.  *)
(* Each constraint is switched on by a variable of its own; the solver is  *)
(* asked for as many of them as possible, each of those left out starts a  *)
(* conflict, and the search goes on among those that were not.             *)
(*                                                                         *)
(* The recursion of analyze_multiple_conflict is a stack of its calls.     *)
(***************************************************************************)
EXTENDS Integers, Sequences, FiniteSets

CONSTANT Constraint    \* the keys of the constraints: 0, 1, ...
ASSUME ConstraintAssumption == IsFiniteSet(Constraint) /\ Constraint \subseteq Nat

VARIABLES
    conflicts,    \* the sets of constraints without a common solution
    stack,        \* [enab, todo, conf] of the calls under way, the last one on top
    results,      \* the conflicts reported
    phase         \* "start", "search", "done"

analysisVars == <<conflicts, stack, results, phase>>

Satisfiable(S) == S \notin conflicts
Monotone(C) == \A S \in C : \A T \in SUBSET Constraint : S \subseteq T => T \in C

AnalysisInit ==
    /\ conflicts \in {C \in SUBSET (SUBSET Constraint) : {} \notin C /\ Monotone(C)}
    /\ stack = <<>> /\ results = {} /\ phase = "start"

(* The largest sets of enab that can hold together with conf: the answers  *)
(* of the first solve() that succeeds when the cardinality goes down.      *)
Answers(enab, conf) ==
    {M \in SUBSET enab :
        /\ Satisfiable(M \union conf) /\ M # enab
        /\ \A N \in SUBSET enab : N # enab /\ Satisfiable(N \union conf) => Cardinality(N) <= Cardinality(M)}

(* analyze_multiple_conflict: report conf, or ask and look at those of     *)
(* enab that the answer leaves out.                                        *)
Search(below, enab, conf) ==
    IF ~Satisfiable(conf)
    THEN results' = results \union {conf} /\ stack' = below
    ELSE /\ \E M \in Answers(enab, conf) :
               stack' = Append(below, [enab |-> M, todo |-> enab \ M, conf |-> conf])
         /\ UNCHANGED results

(* analyze_conflicts.                                                      *)
Start ==
    /\ phase = "start"
    /\ IF Satisfiable(Constraint)
       THEN phase' = "done" /\ UNCHANGED <<stack, results>>
       ELSE IF Cardinality(Constraint) = 1
       THEN phase' = "done" /\ results' = {Constraint} /\ UNCHANGED stack
       ELSE phase' = "search" /\ Search(<<>>, Constraint, {})
    /\ UNCHANGED conflicts

(* The next constraint that the answer left out, in the order of the keys. *)
Top == stack[Len(stack)]
Below == SubSeq(stack, 1, Len(stack) - 1)
NextKey == CHOOSE n \in Top.todo : \A m \in Top.todo : n <= m

Visit ==
    /\ phase = "search" /\ stack # <<>> /\ Top.todo # {}
    /\ Search(Append(Below, [Top EXCEPT !.todo = @ \ {NextKey}]), Top.enab,
              Top.conf \union {NextKey})
    /\ UNCHANGED <<conflicts, phase>>

(* Mutant: the loop stops before the last constraint left out.             *)
ReturnEarly ==
    /\ phase = "search" /\ stack # <<>> /\ Cardinality(Top.todo) <= 1
    /\ stack' = Below
    /\ UNCHANGED <<conflicts, results, phase>>
Return ==
    /\ phase = "search" /\ stack # <<>> /\ Top.todo = {}
    /\ stack' = Below
    /\ UNCHANGED <<conflicts, results, phase>>

Finish ==
    /\ phase = "search" /\ stack = <<>>
    /\ phase' = "done"
    /\ UNCHANGED <<conflicts, stack, results>>

AnalysisNext == Start \/ Visit \/ Return \/ Finish
AnalysisSpec == AnalysisInit /\ [][AnalysisNext]_analysisVars
-----------------------------------------------------------------------------
(* What analyze_conflicts reports is a contradiction of which no           *)
(* constraint can be spared: a user who gives up any one has resolved it.  *)
(* When the search is done there is a report exactly if the constraints    *)
(* contradict one another, and every contradiction has a constraint in one.*)
ConflictsExact ==
    /\ \A R \in results : ~Satisfiable(R) /\ \A k \in R : Satisfiable(R \ {k})
    /\ phase = "done" =>
          /\ results = {} <=> Satisfiable(Constraint)
          /\ \A S \in conflicts : S \intersect UNION results # {}
=============================================================================
