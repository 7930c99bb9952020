------------------------------- MODULE MCBoot -------------------------------
EXTENDS Boot

MCSegments == {"echo"}

Echo == <<"echo">>

\* A node with targets for then and for catch.
MCNode(then, catch, refs, return, conditional) ==
    [uses |-> {Echo},
     then |-> [i \in DOMAIN then |-> [to |-> then[i], when |-> conditional]],
     conditional |-> conditional,
     catch |-> [i \in DOMAIN catch |-> [to |-> catch[i], do |-> "skip", match |-> i = 1]],
     refs |-> refs, return |-> return, durations |-> TRUE]

MCSchema(node, order, caps) ==
    [id |-> "w1", tool |-> TRUE, yaml |-> TRUE, caps |-> caps, order |-> order, node |-> node]

One(id, tool, parses) ==
    [MCSchema([n \in {"a"} |-> MCNode(<<>>, <<>>, {}, TRUE, FALSE)], <<"a">>, {})
        EXCEPT !.id = id, !.tool = tool, !.yaml = parses]

\* Two workflows, and one that does not parse.
W1 == One("w1", TRUE, TRUE)
W2 == One("w2", TRUE, TRUE)
MCContents == {W1, W2, One("w2", TRUE, FALSE)}

\* One in each file; an edit may define one twice.
MCFirstDisks == {[f \in Files |-> IF f = CHOOSE g \in Files : TRUE THEN W1 ELSE W2]}

MCToolsYamls == {{}, {"g"}}

\* All graphs of three nodes with up to two targets each, and a missing one.
Lists == {<<>>} \cup {<<x>> : x \in {"a", "b", "c", "z", None}}
                \cup {<<x, y>> : x \in {"a", "b", "c"}, y \in {"a", "b", "c"}}

MCSchemas ==
    {MCSchema([n \in {"a", "b", "c"} |->
                 CASE n = "a" -> MCNode(f["a"], k, {"input"}, FALSE, FALSE)
                   [] n = "b" -> MCNode(f["b"], <<>>, {"a", "input"}, FALSE, TRUE)
                   [] OTHER   -> MCNode(f["c"], <<>>, {"a", "b", "c"}, TRUE, FALSE)],
              <<"a", "b", "c">>, {})
        : f \in [{"a", "b", "c"} -> Lists], k \in {<<>>, <<"b">>, <<None, "c">>}}
=============================================================================
