----------------------------- MODULE MCExecutor -----------------------------
(* Workflows of four nodes for TLC.                                        *)
EXTENDS Executor, TLC

CONSTANTS a, b, c, d

To(n)     == [to |-> n, cond |-> FALSE]
When(n)   == [to |-> n, cond |-> TRUE]
All       == [policy |-> "all", min |-> 0]
OnFail    == [action |-> "fail", step |-> a]
OnSkip    == [action |-> "skip", step |-> a]
Fallback  == [action |-> "fallback", step |-> a]
Catch(n)  == [action |-> "goto", step |-> n]

NoDeps    == [n \in Nodes |-> {}]
Joins     == [n \in Nodes |-> All]
Strict    == [n \in Nodes |-> OnFail]
Once      == [n \in Nodes |-> 0]
Leaf      == [n \in Nodes |-> <<To(Return)>>]

Graph(edges, deps) ==
    [entry |-> a, edges |-> edges @@ Leaf, deps |-> deps @@ NoDeps, join |-> Joins,
     onError |-> Strict, repeat |-> Once]

\* a fans out to b and c, which d joins; every way for b and c to fail.
DiamondEdges == a :> <<To(b), To(c)>> @@ b :> <<To(d)>> @@ c :> <<To(d)>>
Diamond == Graph(DiamondEdges, d :> {b, c})
Diamonds ==
    {[Diamond EXCEPT !.onError[b] = x, !.onError[c] = y, !.repeat[b] = r] :
        x \in {OnFail, OnSkip}, y \in {OnFail, Fallback}, r \in {0, 2}}

\* The same with the other join policies, which the builder API offers.
JoinVariants ==
    {[Diamond EXCEPT !.join[d] = j] : j \in {[policy |-> "any", min |-> 0],
        [policy |-> "quorum", min |-> 2], [policy |-> "lenient", min |-> 0]}}

\* A fan-out whose targets join nothing: b returns, c just ends.
Fan == Graph(a :> <<To(b), To(c)>> @@ c :> <<>>, NoDeps)

\* A chain with conditional edges, a return beside a target, a catch and a repeat.
Chain == [Graph(a :> <<When(b), When(c), To(d)>> @@ b :> <<To(Return), To(d)>> @@ c :> <<To(d)>>,
                d :> {a})
          EXCEPT !.onError[c] = Catch(d), !.repeat[a] = 2]

\* Three nodes: c joins a and b, reached from both; d is not part of it.
Triangle == Graph(a :> <<To(b), To(c)>> @@ b :> <<To(c)>>, c :> {a, b})
Triangles == {Triangle, [Triangle EXCEPT !.onError[b] = OnSkip]}

Acyclic == Diamonds \cup JoinVariants \cup Triangles \cup {Fan, Chain}
=============================================================================
