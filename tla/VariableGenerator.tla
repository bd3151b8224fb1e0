------------------------- MODULE VariableGenerator -------------------------
(***************************************************************************)
(* The variable generator of a Generator: one solver per partition, called *)
(* in the order of the partitions until one of them fails.  Generators     *)
(* says when its actions are taken.                                        *)
(***************************************************************************)
EXTENDS Naturals, Sequences

CONSTANTS
    Partition,      \* constraint partitions
    PartitionList   \* the vectors of partitions that reset() may be called with

VARIABLES
    partitions,  \* argument of the last reset()
    solvers_,    \* solvers_[k]: the partition the k-th solver was made for
    k,           \* the solver that solve() calls next
    outcome,     \* what the solvers have answered in the present or last call
    pc, ret

vars == <<partitions, solvers_, k, outcome, pc, ret>>

Init ==
    /\ partitions = <<>>
    /\ solvers_ = <<>>
    /\ k = 1
    /\ outcome = <<>>
    /\ pc = "idle"
    /\ ret = "none"

Reset(ps) ==
    /\ pc = "idle"
    /\ partitions' = ps
    /\ solvers_' = ps
    /\ outcome' = <<>>
    /\ ret' = "none"
    /\ k' = 1
    /\ UNCHANGED pc

BeginSolve ==
    /\ pc = "idle"
    /\ pc' = "solve"
    /\ k' = 1
    /\ outcome' = <<>>
    /\ ret' = "none"
    /\ UNCHANGED <<partitions, solvers_>>

SolverSucceeds ==
    /\ pc = "solve"
    /\ k <= Len(solvers_)
    /\ outcome' = Append(outcome, "true")
    /\ k' = k + 1
    /\ UNCHANGED <<partitions, solvers_, pc, ret>>

(* The solver is asked and solve() returns at once.                        *)
SolverFails ==
    /\ pc = "solve"
    /\ k <= Len(solvers_)
    /\ outcome' = Append(outcome, "false")
    /\ pc' = "failed"
    /\ UNCHANGED <<partitions, solvers_, k, ret>>

Return ==
    /\ \/ pc = "failed" /\ ret' = "false"
       \/ pc = "solve" /\ k > Len(solvers_) /\ ret' = "true"
    /\ pc' = "idle"
    /\ UNCHANGED <<partitions, solvers_, k, outcome>>
=============================================================================
