------------------------------- MODULE Parser -------------------------------
(***************************************************************************)
(* From a workflow file to the executor's IR: the schema, the validator,   *)
(* the dependency graph and the compiler of                                *)
(* crates/konflux-substrate/src/parser, and Workflow::validate, the second *)
(* implementation of the same rules (workflow.rs).                         *)
(*                                                                         *)
(* A schema is the YAML once deserialized.  Node names and tool names are  *)
(* data; the templates in `with` are the names they refer to; a duration   *)
(* either parses or not.                                                   *)
(***************************************************************************)
EXTENDS Capabilities, SequencesExt

CONSTANT None            \* an absent target, tool or `do`

Return == None           \* EdgeTarget::Return: the target of an edge to no step

\* The nodes of a schema, whose order is that of the YAML.
Names(s) == Range(s.order)

\* What deserialization guarantees: a node has a name, and branches come in lists.
IsSchema(s) ==
    /\ s.order \in Seq(Names(s)) /\ None \notin Names(s)
    /\ \A n \in Names(s) : \A q \in {s.node[n].then, s.node[n].catch} : q \in Seq(Range(q))

\* The branches of a list that have a target, in order, and these targets.
WithTarget(q) ==
    LET upto[i \in 0..Len(q)] ==
            IF i = 0 THEN <<>>
            ELSE IF q[i].to = None THEN upto[i - 1] ELSE Append(upto[i - 1], q[i])
    IN  upto[Len(q)]

Targets(q) == LET b == WithTarget(q) IN [i \in DOMAIN b |-> b[i].to]

\* `then` is a list of branches; one with no target leads nowhere.
ThenTargets(node) == Targets(node.then)

\* `catch` likewise: every branch is validated, matching or not.
CatchTargets(node) == Targets(node.catch)

\* f called for the elements of q in turn, each with what the one before left.
Each(f, st, q) ==
    LET after[i \in 0..Len(q)] == IF i = 0 THEN st ELSE f[<<after[i - 1], q[i]>>]
    IN  after[Len(q)]

-----------------------------------------------------------------------------
(* validator.rs                                                            *)

\* check_tool: without declared capabilities every tool is allowed.
CheckTool(s, tool) == s.caps = {} \/ CheckAccess(s.caps, tool)

\* validate_node.  node.uses: the tools of `do` and `pipe`.
ValidateNode(s, node) ==
    /\ \A t \in node.uses : CheckTool(s, t)
    /\ Range(ThenTargets(node)) \cup Range(CatchTargets(node)) \subseteq Names(s)
    /\ \A b \in Range(node.catch) : b.do \notin {None, "skip", "fallback"} => CheckTool(s, b.do)

\* Mutant: the node stays on the path.
Leave_Stays(st, n) == st

\* path.pop().
Leave(st, n) == [st EXCEPT !.path = @ \ {n}]

\* What the search keeps: visited, path, and whether it met a cycle.
DfsStates(s) == [visited : SUBSET Names(s), path : SUBSET Names(s), cycle : BOOLEAN]

\* Where the search goes on from n.
Successors(s, n) == ThenTargets(s.node[n]) \o CatchTargets(s.node[n])

\* dfs over then and catch; on an error nothing more is visited.
Dfs(s, start, first) ==
    LET dfs[x \in DfsStates(s) \X Names(s)] ==
            LET st == x[1]  n == x[2]
            IN  IF st.cycle \/ n \in st.visited \ st.path THEN st
                ELSE IF n \in st.path THEN [st EXCEPT !.cycle = TRUE]
                ELSE Leave(Each(dfs, [st EXCEPT !.visited = @ \cup {n}, !.path = @ \cup {n}],
                                Successors(s, n)), n)
    IN  dfs[<<start, first>>]

CheckReachabilityAndCycles(s) ==
    LET end == Dfs(s, [visited |-> {}, path |-> {}, cycle |-> FALSE], Head(s.order))
    IN  ~end.cycle /\ Names(s) \subseteq end.visited

CheckTerminals(s) == \E n \in Names(s) : s.node[n].return

Validate(s) ==
    /\ s.order # <<>>
    /\ \A n \in Names(s) : ValidateNode(s, s.node[n])
    /\ CheckReachabilityAndCycles(s)
    /\ CheckTerminals(s)

-----------------------------------------------------------------------------
(* graph.rs and compiler.rs                                                *)

\* Mutant: a reference that names no node is a dependency too.
DependenciesOf_Any(s, n) == s.node[n].refs \ {n}

\* DependencyGraph: the nodes that `with` refers to, "input" and the like not.
DependenciesOf(s, n) == (s.node[n].refs \cap Names(s)) \ {n}

\* The edges of a node: the return first, then the branches of `then`.  Only
\* conditional branches have a condition and a priority.
Edges(node) ==
    (IF node.return THEN <<[to |-> Return, when |-> FALSE, priority |-> 0]>> ELSE <<>>) \o
    WithTarget([i \in DOMAIN node.then |->
                   [to |-> node.then[i].to, when |-> node.then[i].when,
                    priority |-> IF node.conditional THEN i - 1 ELSE 0]])

\* on_error: the first branch that matches decides; one that names a tool
\* leaves the default.
OnError(node) ==
    LET matching == {i \in DOMAIN node.catch : node.catch[i].match}
        b        == node.catch[CHOOSE i \in matching : \A j \in matching : i <= j]
    IN  IF matching = {} THEN [do |-> "fail", step |-> None]
        ELSE IF b.to # None THEN [do |-> "goto", step |-> b.to]
        ELSE IF b.do \in {"skip", "fallback"} THEN [do |-> b.do, step |-> None]
        ELSE [do |-> "fail", step |-> None]

\* compile: the first node is the entry, whatever `entry` says, and `join` is
\* left at its default.
Compile(s) ==
    [entry |-> Head(s.order), order |-> s.order,
     steps |-> [n \in Names(s) |-> [edges |-> Edges(s.node[n]), dependsOn |-> DependenciesOf(s, n),
                                    onError |-> OnError(s.node[n])]]]

\* parse_duration of retry.delay, retry.max_delay and timeout: compile's only
\* errors.
ParseDurations(s) == \A n \in Names(s) : s.node[n].durations

\* Engine::parse_yaml and parser::parse: the file is small enough and YAML, the
\* schema is valid and its durations parse.
Parses(s) == s.yaml /\ Validate(s) /\ ParseDurations(s)

-----------------------------------------------------------------------------
(* Workflow::validate                                                      *)

StepTargets(w, n) == Targets(w.steps[n].edges)

\* What the search keeps: gray is the current path, black is done.
Colours(w) == [gray : SUBSET DOMAIN w.steps, black : SUBSET DOMAIN w.steps, cycle : BOOLEAN]

\* dfs_detect_cycle.
Colour(w) ==
    LET colour[x \in Colours(w) \X DOMAIN w.steps] ==
            LET st == x[1]  n == x[2]
            IN  IF st.cycle \/ n \in st.black THEN st
                ELSE IF n \in st.gray THEN [st EXCEPT !.cycle = TRUE]
                ELSE LET end == Each(colour, [st EXCEPT !.gray = @ \cup {n}], StepTargets(w, n))
                     IN  [end EXCEPT !.gray = @ \ {n}, !.black = @ \cup {n}]
    IN  colour

\* The search from the entry, and from each step that is still uncoloured.
DetectCycles(w) ==
    Each(Colour(w), [gray |-> {}, black |-> {}, cycle |-> FALSE], <<w.entry>> \o w.order).cycle

ValidateWorkflow(w) ==
    /\ w.entry \in DOMAIN w.steps
    /\ \A n \in DOMAIN w.steps : /\ Range(StepTargets(w, n)) \subseteq DOMAIN w.steps
                                 /\ w.steps[n].dependsOn \subseteq DOMAIN w.steps
    /\ \E n \in DOMAIN w.steps : \E e \in Range(w.steps[n].edges) : e.to = Return
    /\ ~DetectCycles(w)

-----------------------------------------------------------------------------
(* What the rules mean.                                                    *)

\* Where the branches of n lead to.
LeadsTo(s, n) ==
    {b.to : b \in Range(s.node[n].then) \cup Range(s.node[n].catch)} \ {None}

\* The nodes that lie after x: those of every set that x leads into and that its
\* own members do not lead out of.
After(s, x) ==
    {y \in Names(s) : \A C \in SUBSET Names(s) :
                          (\A n \in C \cup {x} : LeadsTo(s, n) \subseteq C) => y \in C}

\* Every node lies after the first or is it, and none after itself.
IsRootedDag(s) ==
    \A n \in Names(s) : n \notin After(s, n) /\ (n # Head(s.order) => n \in After(s, Head(s.order)))

=============================================================================
