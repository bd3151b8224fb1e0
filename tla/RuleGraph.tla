------------------------------ MODULE RuleGraph ------------------------------
(***************************************************************************)
(* The experimental rule graph: a grammar of rules, built rule by rule     *)
(* with >> (sequence) and | (selection), whose sentences are executed one  *)
(* after the other.  RuleContext keeps the syntax graph of the rules       *)
(* assigned so far, UpdateVisitor links the uses of a rule to its          *)
(* definition, Executor unfolds the graph and walks its paths, and a rule  *)
(* bound to a random object draws until the object's cover constraints are *)
(* all hit on this path.                                                   *)
(*                                                                         *)
(* The visitors are recursive: this module is for TLC only.                *)
(***************************************************************************)
EXTENDS Integers, Sequences, SequencesExt, FiniteSets

CONSTANTS
    RuleName,      \* the names of the rules
    Rhs,           \* Rhs[r]: the expressions the user may assign to rule r
    Bound,         \* the rules bound to a random object
    Goal,          \* Goal[r]: the cover constraints of the object bound to r
    NDEBUG,        \* is the library built without assertions, as CMake's Release is?
    MaxRoots       \* bound: how many graphs are executed or drawn

ASSUME RuleAssumption ==
    /\ Bound \subseteq RuleName
    /\ MaxRoots \in Nat /\ NDEBUG \in BOOLEAN
    /\ \A r \in Bound : IsFiniteSet(Goal[r])

VARIABLES
    nodes,              \* the nodes of the syntax graph, by address
    m_named_nodes,      \* the node of every rule used or assigned so far
    m_assigned_nodes,   \* the rules assigned so far
    state,              \* what root() does, or the assertion that failed
    m_root,             \* the rule whose graph is executed
    graph,              \* the unfolded graph of the executor
    dfs,                \* the stack of dfs(): vertices and what is left of each
    pos,                \* the next vertex of the path to run
    uncovered,          \* the cover constraints a rule's object has yet to hit
    covered_,           \* whether a rule's object found nothing left to hit
    roots,              \* the number of graphs executed and drawn so far
    grammar,            \* history: the expression assigned to every rule
    trace,              \* history: the actions called in this run of the path
    traces,             \* history: the last run of every path left so far
    hit,                \* history: the constraints hit since the path was entered
    asked,              \* history: the last rule executed or drawn
    dot                 \* history: the last graph drawn and what of

graphVars == <<nodes, m_named_nodes, m_assigned_nodes, grammar>>
execVars == <<m_root, graph, dfs, pos, uncovered, covered_, trace, traces, hit>>
vars == <<graphVars, execVars, state, roots, asked, dot>>

None == "none"

(***************************************************************************)
(* Nodes.                                                                  *)
(***************************************************************************)
NoName == "unnamed"

Terminal(r) == [kind |-> "Terminal", name |-> r, children |-> <<>>]

NonTerminal(kind, cs) == [kind |-> kind, name |-> NoName, children |-> cs]

(* The context while an expression is evaluated: the heap and the names.   *)
Context == [nodes |-> nodes, named |-> m_named_nodes]

New(n, ctx) == [ctx EXCEPT !.nodes = Append(@, n)]

Newest(ctx) == Len(ctx.nodes)

(* Op(e), with e evaluated once: the visitors below thread a state.        *)
With(e, Op(_)) == CHOOSE y \in {Op(x) : x \in {e}} : TRUE

(***************************************************************************)
(* Evaluating an expression creates its nodes and returns the address of   *)
(* the topmost one.  An expression is <<"rule", r>>, <<"Sequence", e, f>>  *)
(* or <<"Selector", e, f>>.  A rule used for the first time is a terminal. *)
(***************************************************************************)
RECURSIVE Eval(_, _)
Eval(e, ctx) ==
    IF e[1] = "rule"
    THEN IF e[2] \in DOMAIN ctx.named
         THEN [ctx |-> ctx, node |-> ctx.named[e[2]]]
         ELSE LET new == New(Terminal(e[2]), ctx) IN
              [node |-> Newest(new),
               ctx |-> [new EXCEPT !.named =
                            [r \in DOMAIN @ \union {e[2]} |->
                                IF r = e[2] THEN Newest(new) ELSE @[r]]]]
    ELSE LET e1 == Eval(e[2], ctx)
             e2 == Eval(e[3], e1.ctx)
             new == New(NonTerminal(e[1], <<e1.node, e2.node>>), e2.ctx) IN
         [ctx |-> new, node |-> Newest(new)]

(***************************************************************************)
(* UpdateVisitor: a child that names an assigned rule becomes the node of  *)
(* that rule, and an unnamed child of its parent's kind is dissolved in    *)
(* the parent.  A rule met again below itself is a loop.                   *)
(***************************************************************************)

Resolve(n, st) ==
    LET name == st.nodes[n].name IN
    IF name \in DOMAIN m_named_nodes THEN m_named_nodes[name] ELSE n

(* What the parent takes over of an updated child.                         *)
Adopt(kind, acc, child, nds) ==
    IF nds[child].name = NoName /\ nds[child].kind = kind
    THEN [nodes |-> [nds EXCEPT ![child].children = <<>>],
          loop |-> FALSE, children |-> acc.children \o nds[child].children]
    ELSE [nodes |-> nds, loop |-> FALSE, children |-> Append(acc.children, child)]

RECURSIVE Update(_, _)
Update(n, st) ==
    LET node == st.nodes[n]
        on_path == st.on_path \union ({node.name} \ {NoName})
        Visit(acc, child) ==
            With(Update(child, [nodes |-> acc.nodes, loop |-> acc.loop, on_path |-> on_path]),
                 LAMBDA sub : IF sub.loop THEN [acc EXCEPT !.loop = TRUE]
                              ELSE Adopt(node.kind, acc, child, sub.nodes))
        res == FoldLeft(LAMBDA acc0, child :
                            With(acc0, LAMBDA acc : Visit(acc, Resolve(child, acc))),
                        [nodes |-> st.nodes, loop |-> FALSE, children |-> <<>>],
                        node.children) IN
    IF node.kind = "Terminal" \/ st.loop THEN st
    ELSE IF node.name \in st.on_path THEN [st EXCEPT !.loop = TRUE]
    ELSE With(res, LAMBDA r : [st EXCEPT !.loop = r.loop,
                                         !.nodes = [r.nodes EXCEPT ![n].children = r.children]])

Updated(n, ns) == Update(n, [nodes |-> ns, loop |-> FALSE, on_path |-> {}])

(***************************************************************************)
(* Executor: every visit of a node adds three vertices, its entry, main    *)
(* and exit, and the edges to those of its children.                       *)
(***************************************************************************)

NewVertices(node) ==
    [i \in 1..3 |-> [action |-> <<"entry", "main", "exit">>[i], rule |-> node.name]]

MakeEdgeFirst(g, s, d) == [g EXCEPT !.edges = <<(<<s, d>>)>> \o @]

MakeEdge(g, s, d) == [g EXCEPT !.edges = Append(@, <<s, d>>)]

RECURSIVE Unfold(_, _)
Unfold(n, g) ==
    LET node == nodes[n]
        start == Len(g.vertices) + 1
        end == start + 2
        new == MakeEdge([g EXCEPT !.vertices = @ \o NewVertices(node)], start, start + 1)
        Between(acc, from, child, to) ==
            LET first == Len(acc.vertices) + 1
                sub == MakeEdge(Unfold(child, acc), from, first) IN
            IF to = 0 THEN sub ELSE MakeEdge(sub, first + 2, to)
        Alternative(acc0, child) ==
            With(acc0, LAMBDA acc : Between(acc, start + 1, child, end))
        Element(acc0, child) ==
            With(acc0, LAMBDA acc : [g |-> Between(acc.g, acc.last, child, 0),
                                     last |-> Len(acc.g.vertices) + 3]) IN
    CASE node.kind = "Terminal" -> MakeEdge(new, start + 1, end)
      [] node.kind = "Selector" -> FoldLeft(Alternative, new, node.children)
      [] node.kind = "Sequence" ->
            LET res == FoldLeft(Element, [g |-> new, last |-> start + 1], node.children) IN
            MakeEdge(res.g, res.last, end)

EmptyGraph == [vertices |-> <<>>, edges |-> <<>>]

Targets(g, v) ==
    LET from == SelectSeq(g.edges, LAMBDA e : e[1] = v) IN [i \in DOMAIN from |-> from[i][2]]

(***************************************************************************)
(* ToDotVisitor: a terminal is one node of the drawing, a rule or group a  *)
(* start and an end point around its children.                             *)
(***************************************************************************)

CreateEdge(g, s, d) == [g EXCEPT !.edges = Append(@, <<s, d>>)]

RECURSIVE ToDot(_, _, _)
ToDot(n, ns, g) ==
    LET node == ns[n]
        start == Len(g.vertices) + 1
        end == start + 1
        points == [g EXCEPT !.vertices = @ \o <<NoName, NoName>>]
        First(child, acc) == Len(acc.vertices) + 1
        Final(child, acc) == First(child, acc) + IF ns[child].kind = "Terminal" THEN 0 ELSE 1
        Alternative(acc0, child) ==
            With(acc0, LAMBDA acc :
                CreateEdge(CreateEdge(ToDot(child, ns, acc), start, First(child, acc)),
                           Final(child, acc), end))
        Element(acc0, child) ==
            With(acc0, LAMBDA acc :
                [g |-> CreateEdge(ToDot(child, ns, acc.g), acc.last, First(child, acc.g)),
                 last |-> Final(child, acc.g)]) IN
    CASE node.kind = "Terminal" -> [g EXCEPT !.vertices = Append(@, node.name)]
      [] node.kind = "Selector" -> FoldLeft(Alternative, points, node.children)
      [] node.kind = "Sequence" ->
            LET res == FoldLeft(Element, [g |-> points, last |-> start], node.children) IN
            CreateEdge(res.g, res.last, end)

-----------------------------------------------------------------------------
Init ==
    /\ nodes = <<>>
    /\ m_named_nodes = [r \in {} |-> 0]
    /\ m_assigned_nodes = {}
    /\ grammar = [r \in {} |-> <<>>]
    /\ state = "idle" /\ m_root = None
    /\ graph = EmptyGraph /\ dfs = <<>> /\ pos = 0
    /\ uncovered = [r \in Bound |-> Goal[r]]
    /\ covered_ = [r \in Bound |-> FALSE]
    /\ roots = 0
    /\ trace = <<>> /\ traces = <<>>
    /\ hit = [r \in Bound |-> {}]
    /\ asked = None
    /\ dot = [rule |-> None, grammar |-> grammar, drawing |-> EmptyGraph]

(* context(r = e): the right-hand side must be unnamed and r unassigned.   *)
(* The expression is evaluated inside of an assertion.                     *)
Assign(r, e) ==
    /\ state = "idle" /\ ~ NDEBUG
    /\ LET res == Eval(e, Context) IN
       IF res.ctx.nodes[res.node].name # NoName \/ r \in m_assigned_nodes
       THEN state' = "bad assignment" /\ UNCHANGED graphVars
       ELSE /\ nodes' = [res.ctx.nodes EXCEPT ![res.node].name = r]
            /\ m_named_nodes' = [q \in DOMAIN res.ctx.named \union {r} |->
                                    IF q = r THEN res.node ELSE res.ctx.named[q]]
            /\ m_assigned_nodes' = m_assigned_nodes \union {r}
            /\ grammar' = [q \in DOMAIN grammar \union {r} |->
                              IF q = r THEN e ELSE grammar[q]]
            /\ UNCHANGED state
    /\ UNCHANGED <<execVars, roots, asked, dot>>

(* RuleContext::root: the graph of r is linked, or found to have a loop.   *)
Root(r) ==
    /\ state = "idle" /\ roots < MaxRoots
    /\ roots' = roots + 1
    /\ LET res == Eval(<<"rule", r>>, Context)
           upd == Updated(res.node, res.ctx.nodes) IN
       /\ nodes' = upd.nodes
       /\ m_named_nodes' = res.ctx.named
       /\ state' = IF upd.loop THEN "loop" ELSE "unfold"
    /\ m_root' = r /\ asked' = r
    /\ UNCHANGED <<m_assigned_nodes, grammar, graph, dfs, pos, uncovered, covered_,
                   trace, traces, hit, dot>>

(* The executor visits the graph and, at its root, starts the walk.        *)
Execute ==
    /\ state = "unfold"
    /\ LET g == Unfold(m_named_nodes[m_root], EmptyGraph) IN
       /\ graph' = g
       /\ dfs' = <<[v |-> 1, rest |-> Targets(g, 1)]>>
    /\ state' = "walk"
    /\ traces' = <<>>
    /\ UNCHANGED <<graphVars, m_root, pos, uncovered, covered_, roots, trace, hit, asked, dot>>

Path == [i \in DOMAIN dfs |-> dfs[i].v]

RuleAt(v) == graph.vertices[v].rule

(* The bound rules whose main vertex is on the path.                       *)
RulesOn(path) ==
    {RuleAt(path[i]) : i \in {j \in DOMAIN path : graph.vertices[path[j]].action = "main"}}
        \intersect Bound

ResetNothing(rs) == UNCHANGED <<uncovered, covered_>> /\ hit' = [r \in Bound |-> {}]

(* Rule::reset_coverage for every rule on the path.                        *)
ResetCoverage(rs) ==
    /\ uncovered' = [r \in Bound |-> IF r \in rs THEN Goal[r] ELSE uncovered[r]]
    /\ covered_' = [r \in Bound |-> covered_[r] /\ r \notin rs]
    /\ hit' = [r \in Bound |-> {}]

(* dfs: the next successor; one without successors ends a path.            *)
Descend ==
    /\ state = "walk" /\ dfs # <<>> /\ Last(dfs).rest # <<>>
    /\ LET v == Head(Last(dfs).rest) IN
       /\ dfs' = Append([dfs EXCEPT ![Len(dfs)].rest = Tail(@)],
                        [v |-> v, rest |-> Targets(graph, v)])
       /\ IF Targets(graph, v) # <<>>
          THEN UNCHANGED <<state, pos, uncovered, covered_, hit, trace>>
          ELSE /\ state' = IF v = 3 THEN "run" ELSE "bad end"
               /\ pos' = 1 /\ trace' = <<>>
               /\ ResetCoverage(RulesOn(Append(Path, v)))
    /\ UNCHANGED <<graphVars, m_root, graph, roots, traces, asked, dot>>

Backtrack ==
    /\ state = "walk" /\ dfs # <<>> /\ Last(dfs).rest = <<>>
    /\ dfs' = Front(dfs)
    /\ state' = IF Len(dfs) = 1 THEN "idle" ELSE "walk"
    /\ UNCHANGED <<graphVars, m_root, graph, pos, uncovered, covered_, roots, trace,
                   traces, hit, asked, dot>>

GenUnderNDEBUG(r) == UNCHANGED <<uncovered, covered_, hit>>

(* Rule::gen: next_cov hits some constraint not hit yet; once there is none *)
(* left the object is covered and draws any solution.                       *)
Gen(r) ==
    \/ /\ uncovered[r] # {} /\ ~ covered_[r]
       /\ \E S \in SUBSET uncovered[r] \ {{}} :
             /\ uncovered' = [uncovered EXCEPT ![r] = @ \ S]
             /\ hit' = [hit EXCEPT ![r] = @ \union S]
       /\ UNCHANGED covered_
    \/ /\ uncovered[r] = {} \/ covered_[r]
       /\ covered_' = [covered_ EXCEPT ![r] = TRUE]
       /\ UNCHANGED <<uncovered, hit>>

(* The action of the next vertex of the path is called.  Rule::gen calls   *)
(* next_cov inside of an assertion.                                        *)
CallAction ==
    /\ state = "run" /\ pos <= Len(dfs)
    /\ LET v == Path[pos] IN
       /\ trace' = IF RuleAt(v) = NoName THEN trace ELSE Append(trace, graph.vertices[v])
       /\ IF graph.vertices[v].action = "main" /\ RuleAt(v) \in Bound /\ ~ NDEBUG
          THEN Gen(RuleAt(v))
          ELSE UNCHANGED <<uncovered, covered_, hit>>
    /\ pos' = pos + 1
    /\ UNCHANGED <<graphVars, m_root, graph, dfs, roots, traces, asked, dot, state>>

(* At its end the path is run again until every object on it is covered.   *)
EndOfPath ==
    /\ state = "run" /\ pos > Len(dfs)
    /\ IF \A r \in RulesOn(Path) : covered_[r]
       THEN /\ state' = "walk" /\ dfs' = Front(dfs)
            /\ traces' = Append(traces, trace)
            /\ pos' = 0 /\ UNCHANGED trace
       ELSE /\ pos' = 1 /\ trace' = <<>> /\ UNCHANGED <<state, dfs, traces>>
    /\ UNCHANGED <<graphVars, m_root, graph, uncovered, covered_, roots, hit, asked, dot>>

(* RuleContext::print_dot_graph.                                           *)
PrintDotGraph(r) ==
    /\ state = "idle" /\ roots < MaxRoots
    /\ roots' = roots + 1
    /\ LET res == Eval(<<"rule", r>>, Context)
           upd == Updated(res.node, res.ctx.nodes) IN
       /\ nodes' = upd.nodes
       /\ m_named_nodes' = res.ctx.named
       /\ asked' = r
       /\ IF upd.loop THEN state' = "loop" /\ UNCHANGED dot
          ELSE /\ dot' = [rule |-> r, grammar |-> grammar,
                          drawing |-> ToDot(res.node, upd.nodes, EmptyGraph)]
               /\ UNCHANGED state
    /\ UNCHANGED <<m_assigned_nodes, grammar, execVars>>

Next ==
    \/ \E r \in RuleName : \E e \in Rhs[r] : Assign(r, e)
    \/ \E r \in RuleName : Root(r)
    \/ Execute
    \/ Descend
    \/ Backtrack
    \/ CallAction
    \/ EndOfPath
    \/ \E r \in RuleName : PrintDotGraph(r)

(* root() runs to its end in the calling thread.                           *)
Spec ==
    /\ Init /\ [][Next]_vars
    /\ WF_vars(Execute \/ Descend \/ Backtrack \/ CallAction \/ EndOfPath)

-----------------------------------------------------------------------------
(***************************************************************************)
(* The reference: the sentences of an expression of the grammar, in the    *)
(* order of a depth-first derivation.  A rule contributes its entry and    *)
(* main before, and its exit after, a sentence of what it is assigned.     *)
(***************************************************************************)
Calls(r, s) == <<[action |-> "entry", rule |-> r], [action |-> "main", rule |-> r]>> \o s
                   \o <<[action |-> "exit", rule |-> r]>>

RECURSIVE Sentences(_, _)
Sentences(e, g) ==
    IF e[1] = "rule"
    THEN LET inner == IF e[2] \in DOMAIN g THEN Sentences(g[e[2]], g) ELSE << <<>> >> IN
         [i \in DOMAIN inner |-> Calls(e[2], inner[i])]
    ELSE LET left == Sentences(e[2], g)
             right == Sentences(e[3], g) IN
         IF e[1] = "Selector" THEN left \o right
         ELSE FlattenSeq([i \in DOMAIN left |-> [j \in DOMAIN right |-> left[i] \o right[j]]])

RECURSIVE RulesIn(_)
RulesIn(e) == IF e[1] = "rule" THEN {e[2]} ELSE RulesIn(e[2]) \union RulesIn(e[3])

(* The rules that r needs, itself among them only through a loop.          *)
Needs(r) ==
    LET Step(S) == S \union UNION {RulesIn(grammar[q]) : q \in S \intersect DOMAIN grammar}
        Direct == IF r \in DOMAIN grammar THEN RulesIn(grammar[r]) ELSE {} IN
    FoldLeft(LAMBDA S, i : Step(S), Direct, [i \in 1..Cardinality(RuleName) |-> i])

HasLoop(r) == \E q \in Needs(r) \union {r} : q \in Needs(q)

Executing == state \in {"unfold", "walk", "run"}

(* The rules at the nodes of a path of a drawing from v, for all paths.    *)
RECURSIVE DrawnFrom(_, _)
DrawnFrom(g, v) ==
    LET here == IF g.vertices[v] = NoName THEN <<>> ELSE <<g.vertices[v]>>
        next == Targets(g, v) IN
    IF next = <<>> THEN <<here>>
    ELSE FlattenSeq([i \in DOMAIN next |->
            LET rest == DrawnFrom(g, next[i]) IN [j \in DOMAIN rest |-> here \o rest[j]]])

TerminalsOf(s, g) ==
    LET main == SelectSeq(s, LAMBDA c : c.action = "main" /\ c.rule \notin DOMAIN g) IN
    [i \in DOMAIN main |-> main[i].rule]

-----------------------------------------------------------------------------

(* The parts of GraphMeansGrammar: the paths, the loops, the drawing.      *)
PathsAreSentences ==
    Executing /\ state # "unfold" =>
        LET all == Sentences(<<"rule", m_root>>, grammar) IN
        /\ IsPrefix(traces, all)
        /\ (Len(dfs) = 1 /\ Last(dfs).rest = <<>>) => traces = all

LoopsRefused ==
    /\ state = "loop" => HasLoop(asked)
    /\ Executing => ~ HasLoop(m_root)

DrawingAgrees ==
    dot.rule # None =>
        LET all == Sentences(<<"rule", dot.rule>>, dot.grammar) IN
        DrawnFrom(dot.drawing, 1) = [i \in DOMAIN all |-> TerminalsOf(all[i], dot.grammar)]

(* root() calls the actions of the sentences of the grammar and of nothing *)
(* else, each sentence once and in order, whatever order the rules were    *)
(* assigned in, however they were grouped, and however many graphs were    *)
(* linked before: re-linking, dissolving nested groups and unfolding shared*)
(* rules never lose, add or reorder a path (Executor, UpdateVisitor).  A   *)
(* graph is refused with "Loop detected" exactly when a rule needs itself  *)
(* (UpdateVisitor::m_on_path), and the drawing of a rule shows the paths   *)
(* that root() would execute (ToDotVisitor).                               *)
GraphMeansGrammar == PathsAreSentences /\ LoopsRefused /\ DrawingAgrees

(* A path is left only when every cover constraint of every object on it   *)
(* was hit since the path was entered, hits on earlier paths not counted   *)
(* (Executor::dfs resets the coverage and repeats until it is complete).   *)
EveryPathCovers ==
    [][state = "run" /\ state' = "walk" =>
          \A r \in RulesOn(Path) : hit[r] = Goal[r]]_vars

(* A graph that starts to execute is executed to its end: no path repeats  *)
(* for ever (the loop "repeat until path is covered").                     *)
RootEnds == Executing ~> state = "idle"

=============================================================================
