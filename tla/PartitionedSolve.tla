-------------------------- MODULE PartitionedSolve --------------------------
(***************************************************************************)
(* What the solve() of a variable generator promises, whatever the order   *)
(* in which the solvers of the partitions are called: every solver is      *)
(* called at most once, on a partition of the last reset(), and the answer *)
(* is true exactly if all partitions have been solved in this call.        *)
(***************************************************************************)
EXTENDS Naturals

CONSTANTS
    Partition,   \* constraint partitions
    Builds       \* the sets of partitions a reset() may be called with

VARIABLES
    partitions,  \* the partitions of the last reset()
    solved,      \* the partitions solved in the present or last call
    failed,      \* those whose solver has returned false
    busy,        \* is a call of solve() running?
    ret          \* the last answer

absvars == <<partitions, solved, failed, busy, ret>>

Init ==
    /\ partitions = {}
    /\ solved = {}
    /\ failed = {}
    /\ busy = FALSE
    /\ ret = "none"

Reset(P) ==
    /\ ~busy
    /\ partitions' = P
    /\ solved' = {}
    /\ failed' = {}
    /\ ret' = "none"
    /\ UNCHANGED busy

Begin ==
    /\ ~busy
    /\ busy' = TRUE
    /\ solved' = {}
    /\ failed' = {}
    /\ ret' = "none"
    /\ UNCHANGED partitions

Solve(p) ==
    /\ busy
    /\ p \notin solved \union failed
    /\ \/ solved' = solved \union {p} /\ UNCHANGED failed
       \/ failed' = failed \union {p} /\ UNCHANGED solved
    /\ UNCHANGED <<partitions, busy, ret>>

Return ==
    /\ busy
    /\ failed # {} \/ solved = partitions
    /\ ret' = IF failed = {} THEN "true" ELSE "false"
    /\ busy' = FALSE
    /\ UNCHANGED <<partitions, solved, failed>>

Next ==
    \/ \E P \in Builds : Reset(P)
    \/ Begin
    \/ \E p \in partitions : Solve(p)
    \/ Return

Spec == Init /\ [][Next]_absvars
=============================================================================
