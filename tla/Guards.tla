------------------------------- MODULE Guards -------------------------------
(***************************************************************************)
(* Tool guards, crates/konf-runtime/src/guard.rs.  A tool input is a       *)
(* function from the paths it has to values; a value is a string, kept as  *)
(* the sequence of its characters, or Null.                                *)
(***************************************************************************)
EXTENDS Integers, Sequences

Any1 == "?"
AnyN == "*"
Null == <<"null">>

\* Where the loop of glob_matches may be: pi and ti, and star_p and star_t, 0
\* while they are None, which never get ahead of them.
GlobStates(p, t) ==
    {x \in (1..Len(p) + 1) \X (1..Len(t) + 1) \X (0..Len(p) + 1) \X (0..Len(t) + 1) :
        x[3] <= x[1] /\ x[4] <= x[2]}

\* One character of the pattern against one of the text.
SameChar(c, d) == c = Any1 \/ c = d

\* Mutant: no second try after a star.
GlobGreedy_NoBacktrack(p, t) ==
    LET Run[x \in GlobStates(p, t)] ==
            LET pi == x[1]  ti == x[2]  sp == x[3]  st == x[4]
            IN  IF ti > Len(t) THEN \A i \in pi..Len(p) : p[i] = AnyN
                ELSE IF pi <= Len(p) /\ SameChar(p[pi], t[ti]) THEN Run[<<pi + 1, ti + 1, sp, st>>]
                ELSE IF pi <= Len(p) /\ p[pi] = AnyN THEN Run[<<pi + 1, ti, pi + 1, ti>>]
                ELSE FALSE
    IN  Run[<<1, 1, 0, 0>>]

\* glob_matches(): one pass over the text, going back to the last star on a
\* mismatch.
GlobGreedy(p, t) ==
    LET Run[x \in GlobStates(p, t)] ==
            LET pi == x[1]  ti == x[2]  sp == x[3]  st == x[4]
            IN  IF ti > Len(t) THEN \A i \in pi..Len(p) : p[i] = AnyN
                ELSE IF pi <= Len(p) /\ SameChar(p[pi], t[ti]) THEN Run[<<pi + 1, ti + 1, sp, st>>]
                ELSE IF pi <= Len(p) /\ p[pi] = AnyN THEN Run[<<pi + 1, ti, pi + 1, ti>>]
                ELSE IF sp # 0 THEN Run[<<sp, st + 1, sp, st + 1>>]
                ELSE FALSE
    IN  Run[<<1, 1, 0, 0>>]

\* What a glob means: the pattern's characters can be laid over the text, in
\* order and without gaps, a star over any stretch of it.
GlobMeans(p, t) ==
    \E start \in [1..Len(p) + 1 -> 1..Len(t) + 1] :
        /\ start[1] = 1 /\ start[Len(p) + 1] = Len(t) + 1
        /\ \A i \in 1..Len(p) :
            IF p[i] = AnyN THEN start[i] <= start[i + 1]
            ELSE /\ start[i + 1] = start[i] + 1
                 /\ p[i] = Any1 \/ p[i] = t[start[i]]

\* The text has no star of its own.
StarFree(t) == \A i \in 1..Len(t) : t[i] # AnyN

Contains(text, value) ==
    \E i \in 0..Len(text) - Len(value) : SubSeq(text, i + 1, i + Len(value)) = value

\* Predicate::matches for the predicates on one path, with resolve_path as the
\* application of the input.
Test(pred, input) ==
    /\ pred.path \in DOMAIN input
    /\ LET v == input[pred.path]
       IN  CASE pred.type = "contains" -> v # Null /\ Contains(v, pred.value)
             [] pred.type = "matches"  -> v # Null /\ GlobGreedy(pred.value, v)
             [] pred.type = "equals"   -> v = pred.value
             [] pred.type = "exists"   -> v # Null

\* ... and for not, all and any of them.
Satisfies(pred, input) ==
    CASE pred.type = "not" -> ~Test(pred.inner, input)
      [] pred.type = "all" -> \A p \in pred.inner : Test(p, input)
      [] pred.type = "any" -> \E p \in pred.inner : Test(p, input)
      [] OTHER -> Test(pred, input)

\* GuardedTool::evaluate: the first rule that matches decides, then the default.
Evaluate(guard, input) ==
    LET hits == {i \in DOMAIN guard.rules : Satisfies(guard.rules[i].predicate, input)}
    IN  IF hits = {} THEN guard.default = "allow"
        ELSE guard.rules[CHOOSE i \in hits : \A j \in hits : i <= j].action = "allow"

=============================================================================
