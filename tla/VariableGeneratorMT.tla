------------------------ MODULE VariableGeneratorMT ------------------------
(***************************************************************************)
(* The variable generator after enable_multithreading(): a thread per      *)
(* solver, for the construction of the solvers and for solving.  The       *)
(* threads and the main thread share the plain member result_ without a    *)
(* lock.  Every access to it is a step of its own here.                    *)
(***************************************************************************)
EXTENDS Naturals, Sequences

CONSTANTS
    Partition,      \* constraint partitions
    PartitionList,  \* the vectors of partitions that reset() may be called with
    NoSolver        \* an empty VarSolverPtr

(* The partitioner hands over each partition once.                         *)
ASSUME ListAssumption ==
    \A ps \in PartitionList :
        /\ ps \in Seq(Partition)
        /\ \A j, k \in 1..Len(ps) : ps[j] = ps[k] => j = k

VARIABLES
    partitions,  \* argument of the last reset()
    solvers_,    \* solvers_[j]: the partition the j-th solver was made for
    result_,     \* the shared member
    next,        \* index i of the loop that starts the threads
    thread,      \* thread[j]: the thread started for index j
    outcome,     \* outcome[j]: what the j-th solver has answered in this call
    pc, ret      \* the main thread

vars == <<partitions, solvers_, result_, next, thread, outcome, pc, ret>>

Index == 1..Len(solvers_)
NoThreads(n) == [j \in 1..n |-> "none"]
Finished == \A j \in Index : thread[j] \in {"none", "done"}

Init ==
    /\ partitions = <<>>
    /\ solvers_ = <<>>
    /\ result_ \in BOOLEAN   \* not initialized by the constructor
    /\ next = 1
    /\ thread = <<>>
    /\ outcome = <<>>
    /\ pc = "idle"
    /\ ret = "none"
-----------------------------------------------------------------------------
(***************************************************************************)
(* reset().                                                                *)
(***************************************************************************)

(* solvers_.resize(): the solvers of the former partitions stay in place   *)
(* until they are replaced.                                                *)
BeginReset(ps) ==
    /\ pc = "idle"
    /\ partitions' = ps
    /\ solvers_' = [j \in 1..Len(ps) |-> IF j <= Len(solvers_) THEN solvers_[j] ELSE NoSolver]
    /\ thread' = NoThreads(Len(ps))
    /\ outcome' = [j \in 1..Len(ps) |-> "none"]
    /\ next' = 1
    /\ pc' = "create"
    /\ ret' = "none"
    /\ UNCHANGED result_

StartCreation ==
    /\ pc = "create"
    /\ next \in Index
    /\ thread' = [thread EXCEPT ![next] = "create"]
    /\ next' = next + 1
    /\ UNCHANGED <<partitions, solvers_, result_, outcome, pc, ret>>

CreateNewSolver(j) ==
    /\ thread[j] = "create"
    /\ solvers_' = [solvers_ EXCEPT ![j] = partitions[j]]
    /\ thread' = [thread EXCEPT ![j] = "done"]
    /\ UNCHANGED <<partitions, result_, next, outcome, pc, ret>>

(* Mutant: reset() returns without joinAll().                              *)
ReturnFromReset ==
    /\ pc = "create"
    /\ next > Len(solvers_)
    /\ pc' = "idle"
    /\ UNCHANGED <<partitions, solvers_, result_, next, thread, outcome, ret>>

JoinCreation ==
    /\ pc = "create"
    /\ next > Len(solvers_)
    /\ Finished
    /\ pc' = "idle"
    /\ UNCHANGED <<partitions, solvers_, result_, next, thread, outcome, ret>>
-----------------------------------------------------------------------------
(***************************************************************************)
(* solve(), the main thread.                                               *)
(***************************************************************************)
(* Mutant: result_ keeps the answer of the last call.                      *)
BeginSolveKeepResult ==
    /\ pc = "idle"
    /\ thread' = NoThreads(Len(solvers_))
    /\ outcome' = [j \in Index |-> "none"]
    /\ next' = 1
    /\ pc' = "solve"
    /\ ret' = "none"
    /\ UNCHANGED <<partitions, solvers_, result_>>

BeginSolve ==
    /\ pc = "idle"
    /\ result_' = TRUE
    /\ thread' = NoThreads(Len(solvers_))
    /\ outcome' = [j \in Index |-> "none"]
    /\ next' = 1
    /\ pc' = "solve"
    /\ ret' = "none"
    /\ UNCHANGED <<partitions, solvers_>>

StartSolver ==
    /\ pc = "solve"
    /\ next \in Index
    /\ result_
    /\ thread' = [thread EXCEPT ![next] = "start"]
    /\ next' = next + 1
    /\ UNCHANGED <<partitions, solvers_, result_, outcome, pc, ret>>

(* The loop ends, or breaks because some solver has failed already.        *)
EndOfLoop ==
    /\ pc = "solve"
    /\ next \in Index => ~result_
    /\ pc' = "join"
    /\ UNCHANGED <<partitions, solvers_, result_, next, thread, outcome, ret>>

JoinSolvers ==
    /\ pc = "join"
    /\ Finished
    /\ ret' = IF result_ THEN "true" ELSE "false"
    /\ pc' = "idle"
    /\ UNCHANGED <<partitions, solvers_, result_, next, thread, outcome>>
-----------------------------------------------------------------------------
(***************************************************************************)
(* solve(vs), the thread of the j-th solver.                               *)
(***************************************************************************)
(* Mutant: the thread waits until result_ is true.                         *)
AwaitResult(j) ==
    /\ thread[j] = "start"
    /\ thread' = [thread EXCEPT ![j] = IF result_ THEN "solve" ELSE "start"]
    /\ UNCHANGED <<partitions, solvers_, result_, next, outcome, pc, ret>>

ReadResult(j) ==
    /\ thread[j] = "start"
    /\ thread' = [thread EXCEPT ![j] = IF result_ THEN "solve" ELSE "done"]
    /\ UNCHANGED <<partitions, solvers_, result_, next, outcome, pc, ret>>

SolverSucceeds(j) ==
    /\ thread[j] = "solve"
    /\ outcome' = [outcome EXCEPT ![j] = "true"]
    /\ thread' = [thread EXCEPT ![j] = "done"]
    /\ UNCHANGED <<partitions, solvers_, result_, next, pc, ret>>

SolverFails(j) ==
    /\ thread[j] = "solve"
    /\ outcome' = [outcome EXCEPT ![j] = "false"]
    /\ thread' = [thread EXCEPT ![j] = "write"]
    /\ UNCHANGED <<partitions, solvers_, result_, next, pc, ret>>

WriteResult(j) ==
    /\ thread[j] = "write"
    /\ result_' = FALSE
    /\ thread' = [thread EXCEPT ![j] = "done"]
    /\ UNCHANGED <<partitions, solvers_, next, outcome, pc, ret>>

MainStep ==
    \/ StartCreation
    \/ JoinCreation
    \/ StartSolver
    \/ EndOfLoop
    \/ JoinSolvers

ThreadStep(j) ==
    \/ CreateNewSolver(j)
    \/ ReadResult(j)
    \/ SolverSucceeds(j)
    \/ SolverFails(j)
    \/ WriteResult(j)

-----------------------------------------------------------------------------
Answered(b) == {solvers_[j] : j \in {l \in DOMAIN outcome : outcome[l] = b}}
=============================================================================
