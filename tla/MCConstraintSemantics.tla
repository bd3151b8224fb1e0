----------------------- MODULE MCConstraintSemantics -----------------------
(***************************************************************************)
(* A behaviour looks at one constraint, or analyses one set of constraints *)
(* that contradict one another.                                            *)
(***************************************************************************)
EXTENDS ConstraintSemantics, ContradictionAnalysis

Unsigned(n) == [bits |-> n, sign |-> FALSE]
Signed2(n) == [bits |-> n, sign |-> TRUE]
MCTypes == {Unsigned(1), Unsigned(2), Signed2(2)}
MCElementType == Signed2(3)

MCInit == Init /\ AnalysisInit
Idle == phase = "start" /\ conflicts = {}
MCNext ==
    \/ Idle /\ Next /\ UNCHANGED analysisVars
    \/ case = None /\ AnalysisNext /\ UNCHANGED case
MCSpec == MCInit /\ [][MCNext]_<<case, analysisVars>>

=============================================================================
