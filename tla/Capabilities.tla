---------------------------- MODULE Capabilities ----------------------------
(***************************************************************************)
(* Capability patterns and how they are checked and attenuated:            *)
(* crates/konflux-substrate/src/envelope.rs (Capability, CapSet),          *)
(* capability.rs, and crates/konf-runtime/src/scope.rs (child_scope).      *)
(*                                                                         *)
(* A tool name such as "memory:search" is the sequence of its segments.    *)
(* A pattern is "*" (glob, no path), "p:*" (glob) or an exact name.  The   *)
(* code also reads a pattern as if it were a name; TextOf is that reading. *)
(***************************************************************************)
EXTENDS Integers, Sequences

CONSTANT Segments        \* the words of tool names; Star is not one of them

Star == "*"

ASSUME SegmentsAssumption == Star \notin Segments

Patterns == {p \in [path : Seq(Segments), glob : BOOLEAN] : p.glob \/ p.path # <<>>}
All      == [path |-> <<>>, glob |-> TRUE]

TextOf(p) == IF p.glob THEN Append(p.path, Star) ELSE p.path

\* starts_with(prefix), and the next character is ':'.
Under(path, text) ==
    Len(path) < Len(text) /\ \A i \in 1..Len(path) : text[i] = path[i]

\* Capability::matches.
Matches(p, text) == IF p.glob THEN Under(p.path, text) ELSE text = p.path

\* CapSet::check_access and ExecutionScope::check_tool: an empty set denies.
CheckAccess(caps, text) == \E p \in caps : Matches(p, text)

\* CapSet::attenuate and validate_grant.
Attenuate(parent, child) ==
    \A c \in child : \E p \in parent : Matches(p, TextOf(c))

\* Mutant: a prefix parent covers a child prefix it shares no boundary with.
Covers_AnyPrefix(p, c) == p = All \/ p = c \/ (p.glob /\ c.glob) \/ Matches(p, TextOf(c))

\* One parent grant covering one child grant, as child_scope decides it.
Covers(p, c) ==
    \/ p = All \/ p = c
    \/ /\ p.glob
       /\ IF c.glob /\ c # All
            THEN \/ c.path = p.path
                 \/ Under(p.path, c.path)
            ELSE Matches(p, TextOf(c))

\* ExecutionScope::child_scope, as far as its capabilities go.
ChildScope(parent, child) == \A c \in child : \E p \in parent : Covers(p, c)

=============================================================================
