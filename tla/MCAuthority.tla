---------------------------- MODULE MCAuthority ----------------------------
(* A small tool set for Authority, and small patterns and texts.           *)
EXTENDS Authority, TLC

Words == {"a", "b", "ai", "complete", "memory", "search", "store", "workflow", "w",
          "runner", "spawn", "schedule", "create"}
Complete == <<"ai", "complete">>
Search   == <<"memory", "search">>
Store    == <<"memory", "store">>
W        == <<"workflow", "w">>
SpawnT   == <<"runner", "spawn">>
Create   == <<"schedule", "create">>

Exact(n) == [path |-> n, glob |-> FALSE]
Below(x) == [path |-> <<x>>, glob |-> TRUE]

AllTools == {Complete, Search, Store, W, SpawnT, Create}
MCRegistries == {AllTools, AllTools \ {Search}}

\* memory:store is replaced by the wrapper workflow:w and memory:search guarded.
MCAlias == Store :> W
MCGuards == Search :> [rules |-> <<[action |-> "deny", predicate |->
                                     [type |-> "contains", path |-> "q", value |-> <<"a">>]]>>,
                       default |-> "allow"]
MCInputs == {[q |-> <<"a", "b">>], [q |-> <<"b">>]}

Reader     == {Below("memory"), Exact(W), Exact(Complete)}
Planner    == {Exact(SpawnT), Exact(Create), Below("memory")}
Delegator  == {Below("runner"), Exact(Complete), Below("workflow")}
MCSessions == {Reader, Planner, Delegator}
MCGrants   == {{Exact(Search)}, {Below("memory"), Below("workflow")}}
MCCaps     == W :> {Exact(Search)}
OneWorkflow == {W}
MCWhitelists == {{Complete, Search}}

SlotSymmetry == Permutations(Slots)

Names1 == {"a", "b"}
Short(n, S) == UNION {[1..k -> S] : k \in 0..n}
MCPatterns == {All} \cup [path : Short(3, Names1) \ {<<>>}, glob : BOOLEAN]
MCGlobs == Short(4, {"a", "b", "?", "*"})
MCTexts == Short(3, {"a", "b", "*"})
=============================================================================
