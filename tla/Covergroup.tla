----------------------------- MODULE Covergroup -----------------------------
(***************************************************************************)
(* Functional coverage: bins, and the covergroups that have them.          *)
(***************************************************************************)
EXTENDS Expression, SequencesExt

(***************************************************************************)
(* The bins of functional coverage.  A simple bin is hit by a sample that  *)
(* makes its expression true.  A transition bin is hit by a sample that    *)
(* completes a transition: a chain of nodes, each with an expression and a *)
(* number of repetitions, that runs follow from sample to sample.          *)
(*                                                                         *)
(* The formulas of the program have names.  A formula is a record of its   *)
(* expression, which the code evaluates, and of the set of samples that it *)
(* describes, which only the properties use.  The condition of a bin is a  *)
(* sequence of names and stands for the conjunction of their formulas.     *)
(***************************************************************************)
CONSTANT Formula    \* Formula[n]: the formula named n

Expr(cond) ==
    FoldLeft(LAMBDA e, n : Binary("land", e, Formula[n].expr),
             Formula[Head(cond)].expr, Tail(cond))
Holds(cond, s) == \A k \in DOMAIN cond : s \in Formula[cond[k]].values

(* addState(): a node with no repetition at all is not added.              *)
AddState(fsm, cond, type, N, M) ==
    IF N = 0 THEN fsm
    ELSE Append(fsm, [type |-> type, cond |-> cond, minHit |-> N, maxHit |-> M])

Bin(cond) == [cond |-> cond, hit_minimum |-> 1, hit_count |-> 0]
TransitionBin(fsm) ==
    [fsm |-> fsm, runs |-> <<>>, hit_minimum |-> 1, hit_count |-> 0]

Run(state, count) == [state |-> state, count |-> count]

-----------------------------------------------------------------------------
(* One run meets one sample.  acc collects the runs that go on and whether *)
(* a transition has been completed.                                        *)
Keep(acc, run) == [acc EXCEPT !.runs = Append(@, run)]

Continue(fsm, acc, run) ==
    IF run.state = Len(fsm)
    THEN [acc EXCEPT !.hit = TRUE]
    ELSE Keep(acc, Run(run.state + 1, 0))

CalcHit(fsm, acc, run) ==
    LET node  == fsm[run.state]
        again == Run(run.state, run.count + 1)
    IN  IF again.count < node.minHit THEN Keep(acc, again)
        ELSE IF again.count < node.maxHit
             THEN Continue(fsm, Keep(acc, again), again)
             ELSE Continue(fsm, acc, again)

(* Evaluating a condition may change the assignments.                      *)
Test(acc, cond) == Evaluate(acc.map, Expr(cond))
After(acc, test) == [acc EXCEPT !.map = test.map]

(* Mutant: another hit of the repetition is not looked for.                *)
HardFailWaits(fsm, acc, run) ==
    IF run.state > 1 /\ fsm[run.state - 1].type = "NON_CONSEC" THEN Keep(acc, run) ELSE acc

(* hardFail(): a node after a nonconsecutive repetition may wait, unless   *)
(* the repetition is hit once more.  The count of the run is kept.         *)
KeepUnless(test, acc, run) ==
    IF test.true THEN After(acc, test) ELSE Keep(After(acc, test), run)

HardFail(fsm, acc, run) ==
    IF run.state > 1 /\ fsm[run.state - 1].type = "NON_CONSEC"
    THEN KeepUnless(Test(acc, fsm[run.state - 1].cond), acc, run)
    ELSE acc

Tested(test, fsm, acc, run) ==
    IF test.true THEN CalcHit(fsm, After(acc, test), run)
    ELSE IF fsm[run.state].type = "CONSEC" THEN HardFail(fsm, After(acc, test), run)
    ELSE Keep(After(acc, test), run)

CheckRun(fsm, acc, run) == Tested(Test(acc, fsm[run.state].cond), fsm, acc, run)

(* crv_transition_bin::calcHit(): first the pending runs, then a new one;  *)
(* at most one hit per sample.                                             *)
StartIf(test, fsm, acc) ==
    IF test.true THEN CheckRun(fsm, After(acc, test), Run(1, 0)) ELSE After(acc, test)
NewRun(fsm, acc) == StartIf(Test(acc, fsm[1].cond), fsm, acc)

CheckRuns(map, bin) ==
    FoldLeft(LAMBDA acc, run : CheckRun(bin.fsm, acc, run),
             [map |-> map, runs |-> <<>>, hit |-> FALSE], bin.runs)

Count(bin, hit) == [bin EXCEPT !.hit_count = @ + (IF hit THEN 1 ELSE 0)]

Checked(bin, acc) ==
    [map |-> acc.map, bin |-> Count([bin EXCEPT !.runs = acc.runs], acc.hit)]
SampleTransition(map, bin) == Checked(bin, NewRun(bin.fsm, CheckRuns(map, bin)))

Counted(bin, test) == [map |-> test.map, bin |-> Count(bin, test.true)]
SampleBin(map, bin) == Counted(bin, Evaluate(map, Expr(bin.cond)))

-----------------------------------------------------------------------------
(* What a transition means.  The samples i..j of the history h match if    *)
(* each can be labelled with the node it is counted for, or with 0 if it   *)
(* is passed over, so that the labels go through the chain in order, each  *)
(* node is counted as often as it allows, and only these samples are       *)
(* passed over: before a hit of a goto or nonconsecutive node, samples     *)
(* that do not hit it; before the first hit of a node that follows a       *)
(* nonconsecutive one, samples that hit neither.                           *)
PassedOver(fsm, h, lab, q) ==
    LET p == CHOOSE p \in DOMAIN lab :
                 /\ p > q /\ lab[p] # 0
                 /\ \A r \in (q + 1)..(p - 1) : lab[r] = 0
        k == lab[p]
    IN  /\ ~Holds(fsm[k].cond, h[q])
        /\ \/ fsm[k].type # "CONSEC"
           \/ /\ \A r \in DOMAIN lab : r < q => lab[r] # k
              /\ k > 1 /\ fsm[k - 1].type = "NON_CONSEC"
              /\ ~Holds(fsm[k - 1].cond, h[q])

Labelled(fsm, h, lab, i, j) ==
    /\ lab[i] = 1 /\ lab[j] = Len(fsm)
    /\ \A p \in i..j : lab[p] # 0 => Holds(fsm[lab[p]].cond, h[p])
    /\ \A p, q \in i..j : p < q /\ lab[p] # 0 /\ lab[q] # 0 => lab[p] <= lab[q]
    /\ \A k \in 1..Len(fsm) :
          LET n == Cardinality({p \in i..j : lab[p] = k})
          IN  n >= fsm[k].minHit /\ (n <= fsm[k].maxHit \/ n = fsm[k].minHit)
    /\ \A q \in i..j : lab[q] = 0 => PassedOver(fsm, h, lab, q)

MatchEnds(fsm, h, from, j) ==
    \E i \in from..j : \E lab \in [i..j -> 0..Len(fsm)] : Labelled(fsm, h, lab, i, j)

-----------------------------------------------------------------------------
(***************************************************************************)
(* crv_covergroup: coverpoints with bins, the variables of the group and   *)
(* one evaluator for all of them.  The variables may be bound to others,   *)
(* whose values are then sampled.                                          *)
(***************************************************************************)
CONSTANTS
    Var,           \* the crv_variables of the program, all of one type
    GroupVar,      \* those that are members of the covergroup
    None,          \* no variable (nullptr)
    Signed,        \* is the type of the variables signed?
    Program        \* the programs

Sample == [GroupVar -> Word]

(* What a program does with the group, and how much of it.                 *)
ProgramType ==
    [values     : [Var -> SUBSET Word],    \* values it gives to each variable
     targets    : SUBSET Var,              \* variables it binds others to
     conds      : SUBSET DOMAIN Formula,   \* formulas it uses in simple bins
     minimums   : SUBSET Nat,              \* values it gives to hit_minimum
     points     : Nat,                     \* number of coverpoints
     maxBins    : Nat,                     \* bound on the number of bins
     maxSamples : Nat,                     \* bound on the number of samples
     addUntil   : Nat]                     \* bound on those before a bin is added

(* A chain starts with a node; a NULL root would be dereferenced.          *)
ASSUME GroupAssumption ==
    /\ GroupVar \subseteq Var /\ None \notin Var /\ Signed \in BOOLEAN
    /\ \A n \in DOMAIN Formula : Formula[n].values \subseteq Sample
    /\ \A g \in Program :
          /\ <<>> \notin g.chains     \* the chains it uses in transition bins
          /\ [f \in DOMAIN g \ {"chains"} |-> g[f]] \in ProgramType

VARIABLES
    program,      \* the program that runs
    value,        \* value[v]: crv_variable_base::value
    bound_var,    \* bound_var[v]: the variable v is bound to
    points,       \* the coverpoints: simple and transition bins
    assignments,  \* assignments_ of the evaluator eval_
    since,        \* since[p]: number of samples before each bin was created
    samples,      \* what has been sampled so far
    todo          \* the bins that the running call of sample() has yet to visit

vars == <<program, value, bound_var, points, assignments, since, samples, todo>>

Points == 1..program.points
NumBins == FoldLeft(LAMBDA n, p : n + Len(points[p].simple) + Len(points[p].trans),
                    0, [p \in Points |-> p])

MayAdd == NumBins < program.maxBins /\ Len(samples) <= program.addUntil

Init ==
    /\ program \in Program
    /\ value \in {f \in [Var -> Word] : \A v \in Var : f[v] \in program.values[v]}
    /\ bound_var = [v \in Var |-> None]
    /\ points = [p \in Points |-> [simple |-> <<>>, trans |-> <<>>]]
    /\ assignments = [v \in {} |-> None]
    /\ since = [p \in Points |-> [simple |-> <<>>, trans |-> <<>>]]
    /\ samples = <<>> /\ todo = <<>>

-----------------------------------------------------------------------------
(* The variables.                                                          *)
SetValue(v, x) ==
    /\ todo = <<>>
    /\ value' = [value EXCEPT ![v] = x]
    /\ UNCHANGED <<program, bound_var, points, assignments, since, samples, todo>>

Bind(v, w) ==
    /\ todo = <<>> /\ v # w
    /\ bound_var' = [bound_var EXCEPT ![v] = w]
    /\ UNCHANGED <<program, value, points, assignments, since, samples, todo>>

Unbind(v) ==
    /\ todo = <<>>
    /\ bound_var' = [bound_var EXCEPT ![v] = None]
    /\ UNCHANGED <<program, value, points, assignments, since, samples, todo>>

(* actual_value(): the variable bound to is not asked for its own binding. *)
ActualValue(v) == IF bound_var[v] = None THEN value[v] ELSE value[bound_var[v]]

-----------------------------------------------------------------------------
(* The bins.                                                               *)
SetSimple(p, bins, born) ==
    /\ todo = <<>>
    /\ points' = [points EXCEPT ![p].simple = bins]
    /\ since' = [since EXCEPT ![p].simple = born]
    /\ UNCHANGED <<program, value, bound_var, assignments, samples, todo>>

AddSimpleBin(p, c) ==
    /\ MayAdd
    /\ SetSimple(p, Append(points[p].simple, Bin(<<c>>)),
                 Append(since[p].simple, Len(samples)))

(* operator=: the bins and their counts are replaced.                      *)
ReplaceBins(p, c) ==
    /\ points[p].simple # <<>>
    /\ SetSimple(p, <<Bin(<<c>>)>>, <<Len(samples)>>)

(* simple_bins() = cross(cp1, cp2)                                         *)
CrossBins(b1, b2) ==
    [k \in 1..(Len(b1) * Len(b2)) |->
        Bin(b1[((k - 1) \div Len(b2)) + 1].cond \o b2[((k - 1) % Len(b2)) + 1].cond)]

NotCrossed(p) == \A b \in DOMAIN points[p].simple : Len(points[p].simple[b].cond) = 1

(* Bounded: a cross is not crossed again.                                  *)
Cross(p, q, r) ==
    LET bins == CrossBins(points[q].simple, points[r].simple)
    IN  /\ bins # <<>>
        /\ NotCrossed(q) /\ NotCrossed(r)
        /\ NumBins - Len(points[p].simple) + Len(bins) <= program.maxBins
        /\ SetSimple(p, bins, [k \in 1..Len(bins) |-> Len(samples)])

AddTransition(p, f) ==
    /\ todo = <<>>
    /\ MayAdd
    /\ points' = [points EXCEPT ![p].trans = Append(@, TransitionBin(f))]
    /\ since' = [since EXCEPT ![p].trans = Append(@, Len(samples))]
    /\ UNCHANGED <<program, value, bound_var, assignments, samples, todo>>

SetHitMinimum(p, kind, b, n) ==
    /\ todo = <<>>
    /\ points' = [points EXCEPT ![p][kind][b].hit_minimum = n]
    /\ UNCHANGED <<program, value, bound_var, assignments, since, samples, todo>>

-----------------------------------------------------------------------------
(* Mutant: a value is inserted in the map, which keeps an earlier one.     *)
AssignVarsOnce ==
    [v \in DOMAIN assignments \union GroupVar |->
        IF v \in DOMAIN assignments THEN assignments[v]
        ELSE [val |-> ActualValue(v), sign |-> Signed]]

(* sample(): the variables are assigned in the evaluator, then the bins of *)
(* each coverpoint are visited, the simple ones first.                     *)
AssignVars ==
    [v \in DOMAIN assignments \union GroupVar |->
        IF v \in GroupVar THEN [val |-> ActualValue(v), sign |-> Signed]
        ELSE assignments[v]]

(* all_bins() of all coverpoints.                                          *)
BinsOf(p, kind) == [b \in DOMAIN points[p][kind] |-> <<p, kind, b>>]
AllBins ==
    FoldLeft(LAMBDA bins, p : bins \o BinsOf(p, "simple") \o BinsOf(p, "trans"),
             <<>>, [p \in Points |-> p])

BeginSample ==
    /\ todo = <<>> /\ Len(samples) < program.maxSamples
    /\ assignments' = AssignVars
    /\ samples' = Append(samples, [v \in GroupVar |-> ActualValue(v)])
    /\ todo' = AllBins
    /\ UNCHANGED <<program, value, bound_var, points, since>>

(* bin->sample(): its count, its runs and the assignments may change.      *)
SetSampled(p, kind, b, s) ==
    /\ points' = [points EXCEPT ![p][kind][b] = s.bin]
    /\ assignments' = s.map

SampleNext(kind) ==
    /\ todo # <<>> /\ Head(todo)[2] = kind
    /\ LET p == Head(todo)[1]
           b == Head(todo)[3]
       IN  SetSampled(p, kind, b,
                      IF kind = "simple" THEN SampleBin(assignments, points[p].simple[b])
                      ELSE SampleTransition(assignments, points[p].trans[b]))
    /\ todo' = Tail(todo)
    /\ UNCHANGED <<program, value, bound_var, since, samples>>

-----------------------------------------------------------------------------
(* The questions that the program asks between samples.                    *)
(* Mutant: one hit more is asked for.                                      *)
BinCoveredStrict(bin) == bin.hit_count > bin.hit_minimum
BinCovered(bin) == bin.hit_count >= bin.hit_minimum

PointCovered(p) ==
    \A kind \in {"simple", "trans"} : \A b \in DOMAIN points[p][kind] : BinCovered(points[p][kind][b])
GroupCovered == \A p \in Points : PointCovered(p)

(* uncovered_as_list(): the goals of crv_sequence_item::goal().  A         *)
(* transition is never one of them.                                        *)
UncoveredAsList ==
    FoldLeft(LAMBDA list, p : list \o SelectSeq(points[p].simple, LAMBDA bin : ~ BinCovered(bin)),
             <<>>, [p \in Points |-> p])

-----------------------------------------------------------------------------
Next ==
    \/ \E v \in Var : \E x \in program.values[v] : SetValue(v, x)
    \/ \E v \in GroupVar, w \in program.targets : Bind(v, w)
    \/ \E v \in GroupVar : Unbind(v)
    \/ \E p \in Points, c \in program.conds : AddSimpleBin(p, c) \/ ReplaceBins(p, c)
    \/ \E p, q, r \in Points : Cross(p, q, r)
    \/ \E p \in Points, f \in program.chains : AddTransition(p, f)
    \/ \E p \in Points, n \in program.minimums :
          \/ \E b \in DOMAIN points[p].simple : SetHitMinimum(p, "simple", b, n)
          \/ \E b \in DOMAIN points[p].trans : SetHitMinimum(p, "trans", b, n)
    \/ BeginSample
    \/ \E kind \in {"simple", "trans"} : SampleNext(kind)

Spec == Init /\ [][Next]_vars
-----------------------------------------------------------------------------

(* "A crv_bin is hit if a value in the bin has been sampled": whatever is  *)
(* bound, rebound, crossed or replaced in between, and whatever the other  *)
(* bins evaluate, the count of a simple bin is the number of samples since *)
(* its creation that lie in the bin.                                       *)
SamplesIn(p, b) ==
    Cardinality({k \in (since[p].simple[b] + 1)..Len(samples) :
                    Holds(points[p].simple[b].cond, samples[k])})
SimpleHits ==
    todo = <<>> => \A p \in Points : \A b \in DOMAIN points[p].simple :
        points[p].simple[b].hit_count = SamplesIn(p, b)

(* "A crv_transition_bin is hit if its designed transition is fully        *)
(* matches by sampled values": a sample adds one hit to a transition bin   *)
(* if and only if some samples that end with it match the chain, although  *)
(* overlapping attempts are followed side by side.                         *)
TransitionHits ==
    [][\A p \in Points : \A b \in DOMAIN points[p].trans :
          todo # <<>> /\ Head(todo) = <<p, "trans", b>> =>
            points'[p].trans[b].hit_count = points[p].trans[b].hit_count +
                (IF MatchEnds(points[p].trans[b].fsm, samples, since[p].trans[b] + 1, Len(samples))
                 THEN 1 ELSE 0)]_vars

(* "A covergroup is covered if all contained coverpoints are covered":     *)
(* covered() answers true if and only if every bin, simple or transition,  *)
(* has been sampled as often as its minimum asks since its creation, and   *)
(* the goals handed to the generator are the simple bins that still lack   *)
(* samples, whatever has been replaced, crossed or required meanwhile.     *)
MatchesOf(p, b) ==
    Cardinality({k \in (since[p].trans[b] + 1)..Len(samples) :
                    MatchEnds(points[p].trans[b].fsm, samples, since[p].trans[b] + 1, k)})
CoveredExact ==
    todo = <<>> =>
        /\ GroupCovered <=> \A p \in Points :
              /\ \A b \in DOMAIN points[p].simple : SamplesIn(p, b) >= points[p].simple[b].hit_minimum
              /\ \A b \in DOMAIN points[p].trans : MatchesOf(p, b) >= points[p].trans[b].hit_minimum
        /\ {UncoveredAsList[n].cond : n \in DOMAIN UncoveredAsList} =
              UNION {{points[p].simple[b].cond :
                        b \in {c \in DOMAIN points[p].simple : SamplesIn(p, c) < points[p].simple[c].hit_minimum}}
                     : p \in Points}
=============================================================================
