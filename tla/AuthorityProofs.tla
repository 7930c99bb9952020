-------------------------- MODULE AuthorityProofs --------------------------
(***************************************************************************)
(* Proofs about Capabilities and Authority: attenuation composes, the two  *)
(* implementations of it agree, no chain of calls leaves the grants of the *)
(* session it began with, and the glob matcher of the guards is right.     *)
(***************************************************************************)
EXTENDS Authority, TLAPS, NaturalsInduction, WellFoundedInduction

-----------------------------------------------------------------------------
(* Patterns.                                                               *)

\* What the reading of a pattern as a name looks like.
LEMMA TextFacts ==
    ASSUME NEW c \in Patterns
    PROVE  /\ c.path \in Seq(Segments) /\ c.glob \in BOOLEAN
           /\ c.glob => /\ Len(TextOf(c)) = Len(c.path) + 1
                        /\ TextOf(c)[Len(c.path) + 1] = Star
                        /\ \A i \in 1..Len(c.path) : TextOf(c)[i] = c.path[i]
           /\ ~c.glob => TextOf(c) = c.path
BY DEF Patterns, TextOf

\* An exact name never ends in a star.
LEMMA NoStar ==
    ASSUME NEW p \in Patterns, NEW c \in Patterns, ~p.glob, c.glob
    PROVE  TextOf(c) # p.path
<1> SUFFICES ASSUME TextOf(c) = p.path PROVE FALSE
  OBVIOUS
<1>1. Len(c.path) + 1 \in 1..Len(p.path) /\ p.path[Len(c.path) + 1] = Star
  BY TextFacts
<1>2. p.path[Len(c.path) + 1] \in Segments
  BY <1>1, TextFacts
<1> QED
  BY <1>1, <1>2, SegmentsAssumption

\* A pattern covers itself.
LEMMA MatchesOwnText ==
    ASSUME NEW c \in Patterns
    PROVE  Matches(c, TextOf(c))
BY TextFacts DEF Matches, Under

\* Attenuation composes: what a covered pattern matches, the covering one does.
LEMMA MatchTransitive ==
    ASSUME NEW p \in Patterns, NEW c \in Patterns, NEW t \in Seq(Segments \cup {Star}),
           Matches(p, TextOf(c)), Matches(c, t)
    PROVE  Matches(p, t)
<1>1. CASE ~c.glob
  BY <1>1, TextFacts DEF Matches
<1>2. CASE c.glob /\ p.glob
  <2>1. Len(p.path) < Len(c.path) + 1 /\ Len(c.path) < Len(t)
    BY <1>2, TextFacts DEF Matches, Under
  <2>2. \A i \in 1..Len(p.path) : t[i] = p.path[i]
    BY <1>2, <2>1, TextFacts DEF Matches, Under
  <2> QED
    BY <1>2, <2>1, <2>2, TextFacts DEF Matches, Under
<1>3. CASE c.glob /\ ~p.glob
  BY <1>3, NoStar DEF Matches
<1> QED
  BY <1>1, <1>2, <1>3, TextFacts

\* The texts of names and patterns.
LEMMA Texts ==
    ASSUME NEW c \in Patterns
    PROVE  TextOf(c) \in Seq(Segments \cup {Star})
BY DEF Patterns, TextOf

LEMMA AttenuateReflexive ==
    ASSUME NEW caps \in SUBSET Patterns
    PROVE  Attenuate(caps, caps)
BY MatchesOwnText DEF Attenuate

LEMMA AttenuateTransitive ==
    ASSUME NEW a \in SUBSET Patterns, NEW b \in SUBSET Patterns, NEW c \in SUBSET Patterns,
           Attenuate(a, b), Attenuate(b, c)
    PROVE  Attenuate(a, c)
<1> SUFFICES ASSUME NEW z \in c PROVE \E x \in a : Matches(x, TextOf(z))
  BY DEF Attenuate
<1>1. PICK y \in b : Matches(y, TextOf(z))
  BY DEF Attenuate
<1>2. PICK x \in a : Matches(x, TextOf(y))
  BY DEF Attenuate
<1> QED
  BY <1>1, <1>2, MatchTransitive, Texts

\* A tool granted under attenuated grants is granted by the original ones.
LEMMA AccessTransitive ==
    ASSUME NEW a \in SUBSET Patterns, NEW b \in SUBSET Patterns, NEW t \in Tools,
           Attenuate(a, b), CheckAccess(b, t)
    PROVE  CheckAccess(a, t)
<1>1. PICK y \in b : Matches(y, t)
  BY DEF CheckAccess
<1>2. PICK x \in a : Matches(x, TextOf(y))
  BY DEF Attenuate
<1>3. t \in Seq(Segments \cup {Star})
  BY AuthorityAssumption
<1> QED
  BY <1>1, <1>2, <1>3, MatchTransitive DEF CheckAccess

\* child_scope's case analysis and attenuate's single test decide the same
\* for every two patterns.
LEMMA CoversIsMatches ==
    ASSUME NEW p \in Patterns, NEW c \in Patterns
    PROVE  Covers(p, c) <=> Matches(p, TextOf(c))
<1>0. /\ p.path \in Seq(Segments) /\ c.path \in Seq(Segments)
      /\ p = [path |-> p.path, glob |-> p.glob] /\ c = [path |-> c.path, glob |-> c.glob]
      /\ p.glob \in BOOLEAN /\ c.glob \in BOOLEAN
  BY DEF Patterns
<1>1. CASE p = c
  BY <1>1, MatchesOwnText DEF Covers
<1>2. CASE p = All
  <2>1. p.glob /\ p.path = <<>>
    BY <1>2 DEF All
  <2>2. Len(TextOf(c)) > 0
    BY TextFacts DEF Patterns
  <2> QED
    BY <1>2, <2>1, <2>2 DEF Covers, Matches, Under
<1>3. CASE p # c /\ p # All /\ ~p.glob
  <2>1. ~Covers(p, c)
    BY <1>3 DEF Covers
  <2>2. TextOf(c) # p.path
    BY <1>0, <1>3, NoStar, TextFacts
  <2> QED
    BY <1>3, <2>1, <2>2 DEF Matches
<1>4. CASE p # c /\ p # All /\ p.glob /\ ~(c.glob /\ c # All)
  BY <1>4 DEF Covers
<1>5. CASE p # c /\ p # All /\ p.glob /\ c.glob /\ c # All
  <2>1. Covers(p, c) <=> c.path = p.path \/ Under(p.path, c.path)
    BY <1>5 DEF Covers
  <2>2. c.path # p.path
    BY <1>0, <1>5
  <2>3. Under(p.path, TextOf(c)) => Len(p.path) # Len(c.path)
    <3> SUFFICES ASSUME Under(p.path, TextOf(c)), Len(p.path) = Len(c.path) PROVE FALSE
      OBVIOUS
    <3>1. \A i \in 1..Len(p.path) : p.path[i] = c.path[i]
      BY <1>5, TextFacts DEF Under
    <3> QED
      BY <1>0, <2>2, <3>1
  <2>4. Under(p.path, c.path) <=> Under(p.path, TextOf(c))
    <3>1. /\ Len(TextOf(c)) = Len(c.path) + 1
          /\ \A i \in 1..Len(c.path) : TextOf(c)[i] = c.path[i]
      BY <1>5, TextFacts
    <3>2. Len(p.path) \in Nat /\ Len(c.path) \in Nat
      BY <1>0
    <3>3. ASSUME Under(p.path, c.path) PROVE Under(p.path, TextOf(c))
      BY <3>1, <3>2, <3>3 DEF Under
    <3>4. ASSUME Under(p.path, TextOf(c)) PROVE Under(p.path, c.path)
      <4>1. Len(p.path) < Len(c.path)
        BY <2>3, <3>1, <3>2, <3>4 DEF Under
      <4> QED
        BY <3>1, <3>2, <3>4, <4>1 DEF Under
    <3> QED
      BY <3>3, <3>4
  <2> QED
    BY <1>5, <2>1, <2>2, <2>4 DEF Matches
<1> QED
  BY <1>1, <1>2, <1>3, <1>4, <1>5

-----------------------------------------------------------------------------
(* The invariant.                                                          *)

\* What is held, in memory or on disk, covers no more than its root.
Bounded(r) ==
    /\ r.caps \in SUBSET Patterns /\ r.root \in SUBSET Patterns
    /\ Attenuate(r.root, r.caps)

\* Live holders are bounded; an agent's tools, which are not checked again when
\* it calls them, are granted to it.
HoldersOk(h) ==
    /\ h = [s \in Slots |-> h[s]]
    /\ \A s \in Slots :
         /\ Bounded(h[s])
         /\ h[s].kind = "agent" =>
              \A t \in h[s].tools : t \in Tools /\ CheckAccess(h[s].caps, t)

\* A record on disk: its grants are bounded too, and its session was granted the
\* tool that stored it.
Stored(r, t) == Bounded(r) /\ r.w \in WorkflowTools /\ CheckAccess(r.root, t)

IntentsOk(i) == i = [s \in Slots |-> i[s]] /\ \A s \in Slots : i[s] # NoIntent => Stored(i[s], Spawn)
TimersOk(ts) == \A r \in ts : Stored(r, Schedule)

\* The inductive invariant: everything that may later start a call is bounded.
AuthInv ==
    /\ registry \subseteq Tools
    /\ HoldersOk(holder)
    /\ IntentsOk(intents)
    /\ TimersOk(timers)
    /\ AuthorityNeverGrows

\* The shape of an envelope.
IsEnv(e) == e = [caps |-> e.caps, root |-> e.root, depth |-> e.depth,
                 trace |-> e.trace, origin |-> e.origin]

LEMMA IdleBounded == Bounded(Idle) /\ Idle.kind = "idle"
BY DEF Bounded, Idle, Attenuate

\* One slot of the holders changes.
LEMMA OneHolder ==
    ASSUME HoldersOk(holder), NEW s \in Slots, NEW h, Bounded(h),
           h.kind = "agent" => \A t \in h.tools : t \in Tools /\ CheckAccess(h.caps, t),
           holder' = [holder EXCEPT ![s] = h]
    PROVE  HoldersOk(holder')
<1>1. holder' = [x \in Slots |-> IF x = s THEN h ELSE holder[x]]
  BY DEF HoldersOk
<1> QED
  BY <1>1 DEF HoldersOk

LEMMA OneIntent ==
    ASSUME IntentsOk(intents), NEW s \in Slots, NEW i, i # NoIntent => Stored(i, Spawn),
           intents' = [intents EXCEPT ![s] = i]
    PROVE  IntentsOk(intents')
<1>1. intents' = [x \in Slots |-> IF x = s THEN i ELSE intents[x]]
  BY DEF IntentsOk
<1> QED
  BY <1>1 DEF IntentsOk

\* A run is started with the grants of its scope.
LEMMA StartKeeps ==
    ASSUME HoldersOk(holder), NEW s \in Slots, NEW w, NEW scope, Bounded(scope), StartRun(s, w, scope)
    PROVE  HoldersOk(holder')
<1> DEFINE h == [Idle EXCEPT !.kind = "run", !.caps = scope.caps, !.root = scope.root,
                             !.tools = ScopedTools(scope.caps), !.depth = scope.depth,
                             !.trace = scope.trace, !.origin = scope.origin]
<1>1. holder' = [holder EXCEPT ![s] = h]
  BY DEF StartRun
<1>2. h.kind = "run" /\ h.caps = scope.caps /\ h.root = scope.root
  BY DEF Idle
<1>3. Bounded(h)
  BY <1>2 DEF Bounded
<1> HIDE DEF h
<1> QED
  BY <1>1, <1>2, <1>3, OneHolder

LEMMA WorkflowKeeps ==
    ASSUME HoldersOk(holder), NEW s \in Slots, NEW w, NEW env, IsEnv(env), Bounded(env),
           InvokeWorkflow(s, w, env)
    PROVE  HoldersOk(holder')
<1> DEFINE scope == [env EXCEPT !.depth = env.depth + 1]
<1>1. scope.caps = env.caps /\ scope.root = env.root
  BY DEF IsEnv
<1>2. Bounded(scope)
  BY <1>1 DEF Bounded
<1>3. StartRun(s, w, scope)
  BY DEF InvokeWorkflow
<1> HIDE DEF scope
<1> QED
  BY <1>2, <1>3, StartKeeps

\* ai:complete keeps the tools that its envelope grants.
LEMMA LlmKeeps ==
    ASSUME registry \subseteq Tools, HoldersOk(holder), NEW s \in Slots, NEW env, Bounded(env),
           InvokeLlm(s, env)
    PROVE  HoldersOk(holder')
<1>1. PICK wl \in Whitelists \cup {Tools \ {AiComplete}} :
        holder' = [holder EXCEPT ![s] =
                    [Idle EXCEPT !.kind = "agent", !.caps = env.caps, !.root = env.root,
                                 !.tools = ResolveTools(env, wl), !.depth = env.depth,
                                 !.trace = env.trace, !.origin = env.origin]]
  BY DEF InvokeLlm
<1> DEFINE h == [Idle EXCEPT !.kind = "agent", !.caps = env.caps, !.root = env.root,
                             !.tools = ResolveTools(env, wl), !.depth = env.depth,
                             !.trace = env.trace, !.origin = env.origin]
<1>2. h.caps = env.caps /\ h.root = env.root /\ h.tools = ResolveTools(env, wl)
  BY DEF Idle
<1>3. Bounded(h)
  BY <1>2 DEF Bounded
<1>4. \A t \in h.tools : t \in Tools /\ CheckAccess(h.caps, t)
  BY <1>2 DEF ResolveTools
<1>5. holder' = [holder EXCEPT ![s] = h]
  BY <1>1
<1> HIDE DEF h
<1> QED
  BY <1>3, <1>4, <1>5, OneHolder

\* Whatever a tool does with a bounded envelope leaves everything bounded.
LEMMA InvokeKeeps ==
    ASSUME AuthInv, UNCHANGED registry, NEW t \in Tools, NEW env, IsEnv(env), Bounded(env),
           CheckAccess(env.root, t), Invoke(t, env)
    PROVE  AuthInv'
<1>0. /\ registry' \subseteq Tools /\ registry \subseteq Tools
      /\ HoldersOk(holder) /\ IntentsOk(intents) /\ TimersOk(timers)
  BY DEF AuthInv
<1>1. AuthorityNeverGrows'
  <2>1. CASE calls' = {Call("caller", t, env.root)}
    <3>1. \A c \in calls' : c.root = env.root /\ c.tool = t
      BY <2>1 DEF Call
    <3> QED
      BY <3>1 DEF AuthorityNeverGrows, CheckAccess
  <2>2. CASE t = Spawn /\ \E s \in Slots, w \in WorkflowTools : InvokeSpawn(s, w, env)
    <3>1. PICK w \in WorkflowTools :
            calls' = {Call("caller", Spawn, env.root), Call("runner", w, env.root)}
      BY <2>2 DEF InvokeSpawn
    <3> DEFINE first  == Call("caller", Spawn, env.root)
               second == Call("runner", w, env.root)
    <3>2. /\ first.root = env.root /\ first.tool = Spawn
          /\ second.root = env.root /\ second.tool = w /\ second.by = "runner"
      BY DEF Call
    <3> HIDE DEF first, second
    <3>3. calls' = {first, second}
      BY <3>1 DEF first, second
    <3> QED
      BY <3>2, <3>3, <2>2 DEF AuthorityNeverGrows, CheckAccess
  <2> QED
    BY <2>1, <2>2 DEF Invoke
<1>2. HoldersOk(holder') /\ IntentsOk(intents') /\ TimersOk(timers')
  <2>1. CASE UNCHANGED <<holder, timers, intents>>
    BY <1>0, <2>1
  <2>2. CASE /\ \E s \in Slots : Free(s) /\ InvokeWorkflow(s, t, env)
             /\ UNCHANGED <<timers, intents>>
    BY <1>0, <2>2, WorkflowKeeps
  <2>3. CASE \E s \in Slots : InvokeLlm(s, env)
    BY <1>0, <2>3, LlmKeeps DEF InvokeLlm
  <2>4. CASE t = Spawn /\ \E s \in Slots, w \in WorkflowTools : InvokeSpawn(s, w, env)
    <3>1. PICK s \in Slots, w \in WorkflowTools : InvokeSpawn(s, w, env)
      BY <2>4
    <3> DEFINE child == [env EXCEPT !.depth = 0]
               i == [w |-> w, caps |-> env.caps, root |-> env.root]
    <3>2. child = [caps |-> env.caps, root |-> env.root, depth |-> 0,
                   trace |-> env.trace, origin |-> env.origin]
      BY DEF IsEnv
    <3>3. IsEnv(child) /\ Bounded(child) /\ Stored(i, Spawn)
      BY <3>2, <2>4 DEF IsEnv, Bounded, Stored
    <3>4. /\ InvokeWorkflow(s, w, child) \/ UNCHANGED holder
          /\ intents' \in {intents, [intents EXCEPT ![s] = i]}
          /\ timers' = timers
      BY <3>1 DEF InvokeSpawn, ParentOf
    <3> HIDE DEF child, i
    <3>5. HoldersOk(holder')
      BY <1>0, <3>3, <3>4, WorkflowKeeps
    <3>6. IntentsOk(intents')
      BY <1>0, <3>3, <3>4, OneIntent
    <3> QED
      BY <1>0, <3>4, <3>5, <3>6
  <2>5. CASE t = Schedule /\ \E w \in WorkflowTools : InvokeSchedule(w, env)
    <3>1. PICK w \in WorkflowTools : InvokeSchedule(w, env)
      BY <2>5
    <3> DEFINE r == [w |-> w, caps |-> env.caps, root |-> env.root]
    <3>2. Stored(r, Schedule)
      BY <2>5 DEF Bounded, Stored
    <3>3. timers' = timers \cup {r} /\ UNCHANGED <<holder, intents>>
      BY <3>1 DEF InvokeSchedule
    <3> HIDE DEF r
    <3> QED
      BY <1>0, <3>2, <3>3 DEF TimersOk
  <2> QED
    BY <2>1, <2>2, <2>3, <2>4, <2>5 DEF Invoke
<1> QED
  BY <1>0, <1>1, <1>2 DEF AuthInv, HoldersOk, IntentsOk, TimersOk, Stored, Bounded, Attenuate,
     CheckAccess, Matches, Under, TextOf, Patterns

-----------------------------------------------------------------------------
(* The theorems.                                                           *)

LEMMA InitAuth == Init => AuthInv
<1> SUFFICES ASSUME Init PROVE AuthInv
  OBVIOUS
<1>1. registry \subseteq Tools
  BY AuthorityAssumption DEF Init
<1>2. HoldersOk(holder) /\ IntentsOk(intents) /\ TimersOk(timers)
  BY IdleBounded DEF Init, HoldersOk, IntentsOk, TimersOk
<1>3. AuthorityNeverGrows
  BY DEF Init, AuthorityNeverGrows
<1> QED
  BY <1>1, <1>2, <1>3 DEF AuthInv

\* A session's envelope is its own root.
LEMMA RootBounded ==
    ASSUME NEW caps \in Sessions
    PROVE  /\ IsEnv(RootEnv(caps)) /\ Bounded(RootEnv(caps))
           /\ RootEnv(caps).root = caps
<1>1. caps \in SUBSET Patterns
  BY AuthorityAssumption
<1> QED
  BY <1>1, AttenuateReflexive DEF IsEnv, Bounded, RootEnv

\* A timer's or an intent's envelope has the stored grants.
LEMMA StoredBounded ==
    ASSUME NEW r, Bounded(r), NEW s \in Slots, NEW w, HoldersOk(holder),
           InvokeWorkflow(s, w, [RootEnv(r.caps) EXCEPT !.root = r.root])
    PROVE  HoldersOk(holder')
<1> DEFINE env == [RootEnv(r.caps) EXCEPT !.root = r.root]
<1>1. env = [caps |-> r.caps, root |-> r.root, depth |-> 0,
             trace |-> traces + 1, origin |-> traces + 1]
  BY DEF RootEnv
<1>2. IsEnv(env) /\ Bounded(env)
  BY <1>1 DEF IsEnv, Bounded
<1> HIDE DEF env
<1>3. InvokeWorkflow(s, w, env)
  BY DEF env
<1> QED
  BY <1>2, <1>3, WorkflowKeeps

\* The invariant after a step that makes no call or only right ones.
LEMMA SameLast ==
    ASSUME AuthInv, calls' = calls \/ AuthorityNeverGrows', registry' \subseteq Tools,
           HoldersOk(holder'), IntentsOk(intents'), TimersOk(timers')
    PROVE  AuthInv'
<1>1. AuthorityNeverGrows'
  BY DEF AuthInv, AuthorityNeverGrows, CheckAccess
<1> QED
  BY <1>1 DEF AuthInv, HoldersOk, IntentsOk, TimersOk, Stored, Bounded, Attenuate, CheckAccess,
     Matches, Under, TextOf, Patterns

\* A step of a run hands on the grant of the step, attenuated.
LEMMA StepKeeps ==
    ASSUME AuthInv, NEW r \in Slots, NEW t \in Tools, NEW g \in SUBSET Patterns, Step(r, t, g)
    PROVE  AuthInv'
<1> DEFINE env == [caps |-> g, root |-> holder[r].root, depth |-> 0,
                   trace |-> holder[r].trace, origin |-> holder[r].origin]
<1>1. Bounded(holder[r])
  BY DEF AuthInv, HoldersOk
<1>2. /\ CheckAccess(holder[r].caps, t) /\ Attenuate(holder[r].caps, g)
      /\ Invoke(t, env) /\ UNCHANGED registry
  BY DEF Step
<1>3. IsEnv(env)
  BY DEF IsEnv
<1>4. env.caps = g /\ env.root = holder[r].root
  OBVIOUS
<1> HIDE DEF env
<1>5. Attenuate(holder[r].root, g)
  BY <1>1, <1>2, AttenuateTransitive DEF Bounded
<1>6. Bounded(env)
  BY <1>1, <1>4, <1>5 DEF Bounded
<1>7. CheckAccess(env.root, t)
  BY <1>1, <1>2, <1>4, AccessTransitive DEF Bounded
<1> QED
  BY <1>2, <1>3, <1>6, <1>7, InvokeKeeps

\* An agent hands on the envelope it was called with.
LEMMA AgentKeeps ==
    ASSUME AuthInv, NEW a \in Slots, NEW t \in Tools, AgentCall(a, t)
    PROVE  AuthInv'
<1> DEFINE env == [caps |-> holder[a].caps, root |-> holder[a].root, depth |-> holder[a].depth,
                   trace |-> holder[a].trace, origin |-> holder[a].origin]
<1>1. /\ Bounded(holder[a])
      /\ holder[a].kind = "agent" => \A x \in holder[a].tools : CheckAccess(holder[a].caps, x)
  BY DEF AuthInv, HoldersOk
<1>2. CheckAccess(holder[a].caps, t) /\ Invoke(t, env) /\ UNCHANGED registry
  BY <1>1 DEF AgentCall
<1>3. IsEnv(env)
  BY DEF IsEnv
<1>4. env.caps = holder[a].caps /\ env.root = holder[a].root
  OBVIOUS
<1> HIDE DEF env
<1>5. Bounded(env)
  BY <1>1, <1>4 DEF Bounded
<1>6. CheckAccess(env.root, t)
  BY <1>1, <1>2, <1>4, AccessTransitive DEF Bounded
<1> QED
  BY <1>2, <1>3, <1>5, <1>6, InvokeKeeps

LEMMA NextAuth == AuthInv /\ [Next]_vars => AuthInv'
<1> SUFFICES ASSUME AuthInv, [Next]_vars PROVE AuthInv'
  OBVIOUS
<1>0. /\ registry \subseteq Tools /\ HoldersOk(holder) /\ IntentsOk(intents) /\ TimersOk(timers)
  BY DEF AuthInv
<1>1. ASSUME NEW s \in Slots, NEW w \in WorkflowTools, NEW c \in Sessions, Chat(s, w, c)
      PROVE  AuthInv'
  <2>1. HoldersOk(holder')
    <3>1. StartRun(s, w, RootEnv(c))
      BY <1>1 DEF Chat
    <3> QED
      BY <1>0, <3>1, RootBounded, StartKeeps
  <2>2. UNCHANGED <<registry, timers, intents, calls>>
    BY <1>1 DEF Chat
  <2> QED
    BY <1>0, <2>1, <2>2, SameLast
<1>2. ASSUME NEW t \in Tools, NEW c \in Sessions, CallTool(t, c)
      PROVE  AuthInv'
  <2>1. CheckAccess(c, t) /\ Invoke(t, RootEnv(c)) /\ UNCHANGED registry
    BY <1>2 DEF CallTool
  <2> QED
    BY <2>1, RootBounded, InvokeKeeps
<1>3. ASSUME NEW r \in Slots, NEW t \in Tools, StepWithGrant(r, t) \/ StepInherits(r, t)
      PROVE  AuthInv'
  <2>1. \A g \in Grants : g \in SUBSET Patterns
    BY AuthorityAssumption
  <2>2. holder[r].caps \in SUBSET Patterns
    BY <1>0 DEF HoldersOk, Bounded
  <2> QED
    BY <1>3, <2>1, <2>2, StepKeeps DEF StepWithGrant, StepInherits
<1>4. ASSUME NEW a \in Slots, AskModel(a) \/ GiveUp(a)
      PROVE  AuthInv'
  <2>1. UNCHANGED <<registry, timers, intents, calls>>
    BY <1>4 DEF AskModel, GiveUp
  <2>2. HoldersOk(holder')
    <3>1. CASE holder' = [holder EXCEPT ![a] = Idle]
      BY <1>0, <3>1, IdleBounded, OneHolder
    <3>2. CASE holder' = [holder EXCEPT ![a].turns = @ + 1]
      <4> DEFINE h == [holder[a] EXCEPT !.turns = @ + 1]
      <4>1. holder' = [holder EXCEPT ![a] = h]
        BY <3>2
      <4>2. h.caps = holder[a].caps /\ h.root = holder[a].root /\ h.kind = holder[a].kind
            /\ h.tools = holder[a].tools
        OBVIOUS
      <4> HIDE DEF h
      <4>3. Bounded(h) /\ (h.kind = "agent" =>
                             \A t \in h.tools : t \in Tools /\ CheckAccess(h.caps, t))
        BY <1>0, <4>2 DEF HoldersOk, Bounded
      <4> QED
        BY <1>0, <4>1, <4>3, OneHolder
    <3> QED
      BY <1>4, <3>1, <3>2 DEF AskModel, GiveUp
  <2> QED
    BY <1>0, <2>1, <2>2, SameLast
<1>5. ASSUME NEW a \in Slots, NEW t \in Tools, AgentCall(a, t)
      PROVE  AuthInv'
  BY <1>5, AgentKeeps
<1>6. ASSUME NEW s \in Slots, NEW r \in timers, FireTimer(s, r)
      PROVE  AuthInv'
  <2>1. /\ Stored(r, Schedule)
        /\ \/ InvokeWorkflow(s, r.w, [RootEnv(r.caps) EXCEPT !.root = r.root])
           \/ UNCHANGED holder
    BY <1>0, <1>6 DEF FireTimer, TimersOk
  <2>2. timers' \subseteq timers /\ UNCHANGED <<registry, intents>>
    BY <1>6 DEF FireTimer
  <2>3. HoldersOk(holder')
    BY <1>0, <2>1, StoredBounded DEF Stored
  <2>4. TimersOk(timers')
    BY <1>0, <2>2 DEF TimersOk
  <2>5. \A c \in calls' : c.root = r.root /\ c.tool = r.w /\ c.by = "timer"
    BY <1>6 DEF FireTimer, Call
  <2>6. AuthorityNeverGrows'
    BY <2>1, <2>5 DEF AuthorityNeverGrows, Stored, CheckAccess
  <2> QED
    BY <1>0, <2>2, <2>3, <2>4, <2>6, SameLast
<1>7. ASSUME NEW s \in Slots, Replay(s)
      PROVE  AuthInv'
  <2>1. /\ Stored(intents[s], Spawn)
        /\ \/ InvokeWorkflow(s, intents[s].w, [RootEnv(intents[s].caps) EXCEPT !.root = intents[s].root])
           \/ UNCHANGED holder
    BY <1>0, <1>7 DEF Replay, IntentsOk
  <2>2. UNCHANGED <<registry, timers, intents>>
    BY <1>7 DEF Replay
  <2>3. HoldersOk(holder')
    BY <1>0, <2>1, StoredBounded DEF Stored
  <2>4. \A c \in calls' : c.root = intents[s].root /\ c.tool = intents[s].w /\ c.by = "runner"
    BY <1>7 DEF Replay, Call
  <2>5. AuthorityNeverGrows'
    BY <2>1, <2>4 DEF AuthorityNeverGrows, Stored, CheckAccess
  <2> QED
    BY <1>0, <2>2, <2>3, <2>5, SameLast
<1>8. ASSUME NEW s \in Slots, EndRun(s)
      PROVE  AuthInv'
  <2>1. /\ holder' = [holder EXCEPT ![s] = Idle]
        /\ UNCHANGED <<registry, timers, calls>>
    BY <1>8 DEF EndRun
  <2>2. intents' = intents \/ intents' = [intents EXCEPT ![s] = NoIntent]
    BY <1>8 DEF EndRun
  <2>3. IntentsOk(intents')
    BY <1>0, <2>2, IdleBounded, OneIntent
  <2> QED
    BY <1>0, <2>1, <2>3, IdleBounded, OneHolder, SameLast
<1>9. ASSUME NEW tools \in Registries, Reload(tools)
      PROVE  AuthInv'
  <2>1. registry' \subseteq Tools /\ UNCHANGED <<holder, timers, intents, calls>>
    BY <1>9, AuthorityAssumption DEF Reload
  <2> QED
    BY <1>0, <2>1, SameLast
<1>10. CASE Crash
  <2>1. holder' = [s \in Slots |-> Idle] /\ UNCHANGED <<registry, timers, intents, calls>>
    BY <1>10 DEF Crash
  <2>2. HoldersOk(holder')
    BY <2>1, IdleBounded DEF HoldersOk
  <2> QED
    BY <1>0, <2>1, <2>2, SameLast
<1>11. CASE UNCHANGED vars
  BY <1>0, <1>11, SameLast DEF vars
<1> QED
  BY <1>1, <1>2, <1>3, <1>4, <1>5, <1>6, <1>7, <1>8, <1>9, <1>10, <1>11 DEF Next

\* However runs, agents, intents, timers, replays and reloads interleave, a tool
\* call is one that the session at the head of the chain was granted, but for the
\* workflow tool that the runner or a timer invokes unchecked: there the session
\* was granted runner:spawn, or schedule:create.
THEOREM AuthorityStaysBounded == Spec => []AuthorityNeverGrows
<1>1. Init => AuthInv
  BY InitAuth
<1>2. AuthInv /\ [Next]_vars => AuthInv'
  BY NextAuth
<1>3. AuthInv => AuthorityNeverGrows
  BY DEF AuthInv
<1> QED
  BY <1>1, <1>2, <1>3, PTL DEF Spec

\* child_scope (scope.rs) and CapSet::attenuate (envelope.rs) decide the same.
THEOREM RulesAlwaysAgree == Spec => []RulesAgree
<1>1. RulesAgree
  BY CoversIsMatches, AuthorityAssumption DEF RulesAgree
<1> QED
  BY <1>1, PTL

-----------------------------------------------------------------------------
(* Traces.  A holder is made from an envelope, and an envelope either has a *)
(* fresh trace that is its own origin or copies both from a holder.         *)

\* One slot of the holders changes, to one that is in its own trace.
LEMMA OneHolderTrace ==
    ASSUME HoldersOk(holder), OneTrace, NEW s \in Slots, NEW h, h.trace = h.origin,
           holder' = [holder EXCEPT ![s] = h]
    PROVE  OneTrace'
<1>1. holder' = [x \in Slots |-> IF x = s THEN h ELSE holder[x]]
  BY DEF HoldersOk
<1> QED
  BY <1>1 DEF OneTrace

LEMMA StartTrace ==
    ASSUME HoldersOk(holder), OneTrace, NEW s \in Slots, NEW w, NEW scope,
           scope.trace = scope.origin, StartRun(s, w, scope)
    PROVE  OneTrace'
<1> DEFINE h == [Idle EXCEPT !.kind = "run", !.caps = scope.caps, !.root = scope.root,
                             !.tools = ScopedTools(scope.caps), !.depth = scope.depth,
                             !.trace = scope.trace, !.origin = scope.origin]
<1>1. holder' = [holder EXCEPT ![s] = h]
  BY DEF StartRun
<1>2. h.trace = h.origin
  BY DEF Idle
<1> HIDE DEF h
<1> QED
  BY <1>1, <1>2, OneHolderTrace

LEMMA WorkflowTrace ==
    ASSUME HoldersOk(holder), OneTrace, NEW s \in Slots, NEW w, NEW env, IsEnv(env),
           env.trace = env.origin, InvokeWorkflow(s, w, env)
    PROVE  OneTrace'
<1> DEFINE scope == [env EXCEPT !.depth = env.depth + 1]
<1>1. scope.trace = scope.origin
  BY DEF IsEnv
<1>2. StartRun(s, w, scope)
  BY DEF InvokeWorkflow
<1> HIDE DEF scope
<1> QED
  BY <1>1, <1>2, StartTrace

\* Whatever a tool does with an envelope in its own trace, the holders stay in
\* theirs: runner:spawn and ai:complete included.
LEMMA InvokeTrace ==
    ASSUME HoldersOk(holder), OneTrace, NEW t, NEW env, IsEnv(env), env.trace = env.origin,
           Invoke(t, env)
    PROVE  OneTrace'
<1>1. CASE UNCHANGED <<holder, timers, intents>>
  BY <1>1 DEF OneTrace
<1>2. CASE \E s \in Slots : Free(s) /\ InvokeWorkflow(s, t, env)
  BY <1>2, WorkflowTrace
<1>3. CASE \E s \in Slots : InvokeLlm(s, env)
  <2>1. PICK s \in Slots : InvokeLlm(s, env)
    BY <1>3
  <2>2. PICK tools :
          holder' = [holder EXCEPT ![s] =
                      [Idle EXCEPT !.kind = "agent", !.caps = env.caps, !.root = env.root,
                                   !.tools = tools, !.depth = env.depth,
                                   !.trace = env.trace, !.origin = env.origin]]
    BY <2>1 DEF InvokeLlm
  <2> DEFINE h == [Idle EXCEPT !.kind = "agent", !.caps = env.caps, !.root = env.root,
                               !.tools = tools, !.depth = env.depth,
                               !.trace = env.trace, !.origin = env.origin]
  <2>3. h.trace = h.origin /\ holder' = [holder EXCEPT ![s] = h]
    BY <2>2 DEF Idle
  <2> HIDE DEF h
  <2> QED
    BY <2>3, OneHolderTrace
<1>4. CASE \E s \in Slots, w \in WorkflowTools : InvokeSpawn(s, w, env)
  <2>1. PICK s \in Slots, w \in WorkflowTools : InvokeSpawn(s, w, env)
    BY <1>4
  <2> DEFINE child == [env EXCEPT !.depth = 0]
  <2>2. child = [caps |-> env.caps, root |-> env.root, depth |-> 0,
                 trace |-> env.trace, origin |-> env.origin]
    BY DEF IsEnv
  <2>3. IsEnv(child) /\ child.trace = child.origin
    BY <2>2 DEF IsEnv
  <2>4. InvokeWorkflow(s, w, child) \/ UNCHANGED holder
    BY <2>1 DEF InvokeSpawn, ParentOf
  <2> HIDE DEF child
  <2> QED
    BY <2>3, <2>4, WorkflowTrace DEF OneTrace
<1>5. CASE \E w \in WorkflowTools : InvokeSchedule(w, env)
  BY <1>5 DEF InvokeSchedule, OneTrace
<1> QED
  BY <1>1, <1>2, <1>3, <1>4, <1>5 DEF Invoke

LEMMA NextTrace == HoldersOk(holder) /\ OneTrace /\ [Next]_vars => OneTrace'
<1> SUFFICES ASSUME HoldersOk(holder), OneTrace, [Next]_vars PROVE OneTrace'
  OBVIOUS
<1>0. \A c, r : LET e == [RootEnv(c) EXCEPT !.root = r]
                IN  /\ IsEnv(RootEnv(c)) /\ RootEnv(c).trace = RootEnv(c).origin
                    /\ IsEnv(e) /\ e.trace = e.origin
  BY DEF RootEnv, IsEnv
<1>1. ASSUME NEW s \in Slots, NEW w \in WorkflowTools, NEW c \in Sessions, Chat(s, w, c)
      PROVE  OneTrace'
  BY <1>0, <1>1, StartTrace DEF Chat
<1>2. ASSUME NEW t \in Tools, NEW c \in Sessions, CallTool(t, c)
      PROVE  OneTrace'
  BY <1>0, <1>2, InvokeTrace DEF CallTool
<1>3. ASSUME NEW r \in Slots, NEW t \in Tools, NEW g, Step(r, t, g)
      PROVE  OneTrace'
  <2> DEFINE e == [caps |-> g, root |-> holder[r].root, depth |-> 0,
                   trace |-> holder[r].trace, origin |-> holder[r].origin]
  <2>1. IsEnv(e) /\ e.trace = e.origin
    BY DEF IsEnv, OneTrace
  <2>2. Invoke(t, e)
    BY <1>3 DEF Step
  <2> HIDE DEF e
  <2> QED
    BY <2>1, <2>2, InvokeTrace
<1>4. ASSUME NEW a \in Slots, AskModel(a) \/ GiveUp(a)
      PROVE  OneTrace'
  <2>1. PICK h : h.trace = h.origin /\ holder' = [holder EXCEPT ![a] = h]
    <3>1. CASE holder' = [holder EXCEPT ![a] = Idle]
      BY <3>1 DEF Idle
    <3>2. CASE holder' = [holder EXCEPT ![a].turns = @ + 1]
      <4>1. LET h == [holder[a] EXCEPT !.turns = @ + 1] IN h.trace = h.origin
        BY DEF OneTrace
      <4> QED
        BY <3>2, <4>1
    <3> QED
      BY <1>4, <3>1, <3>2 DEF AskModel, GiveUp
  <2> QED
    BY <2>1, OneHolderTrace
<1>5. ASSUME NEW a \in Slots, NEW t \in Tools, AgentCall(a, t)
      PROVE  OneTrace'
  <2> DEFINE e == [caps |-> holder[a].caps, root |-> holder[a].root, depth |-> holder[a].depth,
                   trace |-> holder[a].trace, origin |-> holder[a].origin]
  <2>1. IsEnv(e) /\ e.trace = e.origin
    BY DEF IsEnv, OneTrace
  <2>2. Invoke(t, e)
    BY <1>5 DEF AgentCall
  <2> HIDE DEF e
  <2> QED
    BY <2>1, <2>2, InvokeTrace
<1>6. ASSUME NEW s \in Slots, NEW r \in timers, FireTimer(s, r)
      PROVE  OneTrace'
  BY <1>0, <1>6, WorkflowTrace DEF FireTimer, OneTrace
<1>7. ASSUME NEW s \in Slots, Replay(s)
      PROVE  OneTrace'
  BY <1>0, <1>7, WorkflowTrace DEF Replay, OneTrace
<1>8. ASSUME NEW s \in Slots, EndRun(s)
      PROVE  OneTrace'
  <2>1. holder' = [holder EXCEPT ![s] = Idle] /\ Idle.trace = Idle.origin
    BY <1>8 DEF EndRun, Idle
  <2> QED
    BY <2>1, OneHolderTrace
<1>9. CASE Crash
  BY <1>9 DEF Crash, OneTrace, Idle
<1>10. CASE UNCHANGED vars \/ \E tools \in Registries : Reload(tools)
  BY <1>10 DEF vars, Reload, OneTrace
<1> QED
  BY <1>1, <1>2, <1>3, <1>4, <1>5, <1>6, <1>7, <1>8, <1>9, <1>10
  DEF Next, StepWithGrant, StepInherits

\* Every holder works in the trace of the request, timer or replay it descends
\* from, through every chain of workflow tools, agents and spawned runs: no
\* call loses its trace and none strays into another's.
THEOREM TraceIsKept == Spec => []OneTrace
<1>1. Init => OneTrace
  BY DEF Init, Idle, OneTrace
<1>2. AuthInv => HoldersOk(holder)
  BY DEF AuthInv
<1> QED
  BY <1>1, <1>2, InitAuth, NextAuth, NextTrace, PTL DEF Spec

-----------------------------------------------------------------------------
(* Globs.  glob_matches remembers the last star only.  That this is enough *)
(* is shown by saying outright what the loop returns from each of its      *)
(* states (Verdict): the recursive definition has that solution, and no    *)
(* other.                                                                  *)

\* The characters of the pattern from i on can be laid over the text from j
\* on: GlobMeans for what is left of both.
Lays(p, t, i, j, start) ==
    /\ start \in [i..Len(p) + 1 -> 1..Len(t) + 1]
    /\ start[i] = j /\ start[Len(p) + 1] = Len(t) + 1
    /\ \A k \in i..Len(p) :
        IF p[k] = AnyN THEN start[k] <= start[k + 1]
        ELSE /\ start[k + 1] = start[k] + 1
             /\ p[k] = Any1 \/ p[k] = t[start[k]]

Fits(p, t, i, j) == \E start : Lays(p, t, i, j, start)

\* Character i of the pattern covers the text from j up to u.
Link(p, t, i, j, u) ==
    IF p[i] = AnyN THEN j <= u ELSE u = j + 1 /\ SameChar(p[i], t[j])

\* A set of naturals has a least element.
LEMMA LeastOf ==
    ASSUME NEW S, S \subseteq Nat, S # {}
    PROVE  \E x \in S : \A y \in S : x <= y
<1> DEFINE R == {ss \in Nat \X Nat : ss[1] < ss[2]}
<1>1. OpToRel(<, Nat) = R
  BY Zenon DEF OpToRel
<1>2. IsWellFoundedOn(R, Nat)
  BY <1>1, NatLessThanWellFounded, Zenon
<1> HIDE DEF R
<1>3. PICK x \in S : \A y \in S : <<y, x>> \notin R
  BY <1>2, WFMin, Zenon
<1>4. \A y \in S : x <= y
  <2> SUFFICES ASSUME NEW y \in S PROVE x <= y
    OBVIOUS
  <2>1. <<y, x>> \notin {ss \in Nat \X Nat : ss[1] < ss[2]}
    BY <1>3, Zenon DEF R
  <2> QED
    BY <2>1
<1> QED
  BY <1>3, <1>4

\* At the end of the pattern only the end of the text is left.
LEMMA FitsEnd ==
    ASSUME NEW p \in Seq(STRING), NEW t \in Seq(STRING), NEW j \in 1..Len(t) + 1
    PROVE  Fits(p, t, Len(p) + 1, j) <=> j = Len(t) + 1
<1>0. Len(p) \in Nat /\ Len(t) \in Nat
  OBVIOUS
<1>1. ASSUME Fits(p, t, Len(p) + 1, j) PROVE j = Len(t) + 1
  BY <1>1 DEF Fits, Lays
<1>2. ASSUME j = Len(t) + 1 PROVE Fits(p, t, Len(p) + 1, j)
  <2> DEFINE start == [k \in Len(p) + 1 .. Len(p) + 1 |-> Len(t) + 1]
  <2>1. Lays(p, t, Len(p) + 1, j, start)
    BY <1>0, <1>2 DEF Lays
  <2> QED
    BY <2>1 DEF Fits
<1> QED
  BY <1>1, <1>2

\* One character further.
LEMMA FitsStep ==
    ASSUME NEW p \in Seq(STRING), NEW t \in Seq(STRING), NEW i \in 1..Len(p), NEW j \in 1..Len(t) + 1
    PROVE  Fits(p, t, i, j) <=> \E u \in 1..Len(t) + 1 : Link(p, t, i, j, u) /\ Fits(p, t, i + 1, u)
<1>0. Len(p) \in Nat /\ Len(t) \in Nat
  OBVIOUS
<1>1. ASSUME Fits(p, t, i, j)
      PROVE  \E u \in 1..Len(t) + 1 : Link(p, t, i, j, u) /\ Fits(p, t, i + 1, u)
  <2>1. PICK start : Lays(p, t, i, j, start)
    BY <1>1 DEF Fits
  <2> DEFINE u == start[i + 1]
             rest == [k \in i + 1 .. Len(p) + 1 |-> start[k]]
  <2>2. u \in 1..Len(t) + 1 /\ Link(p, t, i, j, u)
    <3>1. start \in [i..Len(p) + 1 -> 1..Len(t) + 1] /\ start[i] = j
      BY <2>1 DEF Lays
    <3>2. i \in i..Len(p) /\ i + 1 \in i..Len(p) + 1
      BY <1>0
    <3>3. IF p[i] = AnyN THEN start[i] <= start[i + 1]
          ELSE start[i + 1] = start[i] + 1 /\ (p[i] = Any1 \/ p[i] = t[start[i]])
      BY <2>1, <3>2 DEF Lays
    <3> QED
      BY <3>1, <3>2, <3>3 DEF Link, SameChar
  <2>3. Lays(p, t, i + 1, u, rest)
    <3>1. start \in [i..Len(p) + 1 -> 1..Len(t) + 1] /\ start[Len(p) + 1] = Len(t) + 1
      BY <2>1 DEF Lays
    <3>2. rest \in [i + 1 .. Len(p) + 1 -> 1..Len(t) + 1] /\ rest[i + 1] = u
      BY <3>1, <1>0
    <3>3. \A k \in i + 1 .. Len(p) : rest[k] = start[k] /\ rest[k + 1] = start[k + 1]
      BY <1>0
    <3>4. rest[Len(p) + 1] = Len(t) + 1
      BY <3>1, <1>0
    <3>5. \A k \in i + 1 .. Len(p) :
            IF p[k] = AnyN THEN start[k] <= start[k + 1]
            ELSE start[k + 1] = start[k] + 1 /\ (p[k] = Any1 \/ p[k] = t[start[k]])
      BY <2>1, <1>0 DEF Lays
    <3> HIDE DEF rest, u
    <3> QED
      BY <3>2, <3>3, <3>4, <3>5 DEF Lays
  <2> QED
    BY <2>2, <2>3 DEF Fits
<1>2. ASSUME NEW u \in 1..Len(t) + 1, Link(p, t, i, j, u), Fits(p, t, i + 1, u)
      PROVE  Fits(p, t, i, j)
  <2>1. PICK rest : Lays(p, t, i + 1, u, rest)
    BY <1>2 DEF Fits
  <2> DEFINE start == [k \in i..Len(p) + 1 |-> IF k = i THEN j ELSE rest[k]]
  <2>2. /\ rest \in [i + 1 .. Len(p) + 1 -> 1..Len(t) + 1] /\ rest[i + 1] = u
        /\ rest[Len(p) + 1] = Len(t) + 1
    BY <2>1 DEF Lays
  <2>3. /\ start \in [i..Len(p) + 1 -> 1..Len(t) + 1] /\ start[i] = j
        /\ start[Len(p) + 1] = Len(t) + 1 /\ start[i + 1] = u
    BY <2>2, <1>0
  <2>4. \A k \in i + 1 .. Len(p) : start[k] = rest[k] /\ start[k + 1] = rest[k + 1]
    BY <1>0
  <2>5. \A k \in i + 1 .. Len(p) :
          IF p[k] = AnyN THEN rest[k] <= rest[k + 1]
          ELSE rest[k + 1] = rest[k] + 1 /\ (p[k] = Any1 \/ p[k] = t[rest[k]])
    BY <2>1 DEF Lays
  <2> HIDE DEF start
  <2>6. ASSUME NEW k \in i..Len(p)
        PROVE  IF p[k] = AnyN THEN start[k] <= start[k + 1]
               ELSE start[k + 1] = start[k] + 1 /\ (p[k] = Any1 \/ p[k] = t[start[k]])
    <3>1. CASE k = i
      BY <3>1, <2>3, <1>2 DEF Link, SameChar
    <3>2. CASE k # i
      <4>1. k \in i + 1 .. Len(p)
        BY <3>2, <1>0
      <4> QED
        BY <4>1, <2>4, <2>5
    <3> QED
      BY <3>1, <3>2
  <2>7. Lays(p, t, i, j, start)
    BY <2>3, <2>6 DEF Lays
  <2> QED
    BY <2>7 DEF Fits
<1> QED
  BY <1>1, <1>2

\* ... which is a star
LEMMA FitsStar ==
    ASSUME NEW p \in Seq(STRING), NEW t \in Seq(STRING), NEW i \in 1..Len(p), p[i] = AnyN,
           NEW j \in 1..Len(t) + 1
    PROVE  Fits(p, t, i, j) <=> \E u \in j..Len(t) + 1 : Fits(p, t, i + 1, u)
<1>0. Len(p) \in Nat /\ Len(t) \in Nat
  OBVIOUS
<1>1. \A u : u \in j..Len(t) + 1 <=> u \in 1..Len(t) + 1 /\ Link(p, t, i, j, u)
  BY <1>0 DEF Link
<1> QED
  BY <1>1, FitsStep

\* ... or is not.
LEMMA FitsChar ==
    ASSUME NEW p \in Seq(STRING), NEW t \in Seq(STRING), NEW i \in 1..Len(p), p[i] # AnyN,
           NEW j \in 1..Len(t) + 1
    PROVE  Fits(p, t, i, j) <=> j <= Len(t) /\ SameChar(p[i], t[j]) /\ Fits(p, t, i + 1, j + 1)
<1>0. Len(p) \in Nat /\ Len(t) \in Nat
  OBVIOUS
<1>1. \A u : u \in 1..Len(t) + 1 /\ Link(p, t, i, j, u)
               <=> u = j + 1 /\ j <= Len(t) /\ SameChar(p[i], t[j])
  BY <1>0 DEF Link
<1>2. ASSUME Fits(p, t, i, j)
      PROVE  j <= Len(t) /\ SameChar(p[i], t[j]) /\ Fits(p, t, i + 1, j + 1)
  <2>1. PICK u \in 1..Len(t) + 1 : Link(p, t, i, j, u) /\ Fits(p, t, i + 1, u)
    BY <1>2, FitsStep
  <2> QED
    BY <2>1, <1>1
<1>3. ASSUME j <= Len(t), SameChar(p[i], t[j]), Fits(p, t, i + 1, j + 1)
      PROVE  Fits(p, t, i, j)
  <2>1. j + 1 \in 1..Len(t) + 1 /\ Link(p, t, i, j, j + 1)
    BY <1>1, <1>3
  <2> QED
    BY <2>1, <1>3, FitsStep
<1> QED
  BY <1>2, <1>3

\* The next k characters of the pattern are no stars,
Plain(p, i, k) == \A d \in 0..k - 1 : i + d <= Len(p) /\ p[i + d] # AnyN

\* and they are those of the text.
Chain(p, t, i, j, k) ==
    /\ Plain(p, i, k)
    /\ \A d \in 0..k - 1 : j + d <= Len(t) /\ SameChar(p[i + d], t[j + d])

\* The loop, at i and j, meets a character that does not match before it meets a
\* star or the end of the text.
Stuck(p, t, i, j) ==
    \E k \in Nat : /\ Chain(p, t, i, j, k) /\ j + k <= Len(t)
                   /\ i + k <= Len(p) => p[i + k] # AnyN /\ ~SameChar(p[i + k], t[j + k])

\* What fits, fits from behind its next plain characters.
LEMMA FitsPlain ==
    ASSUME NEW p \in Seq(STRING), NEW t \in Seq(STRING), NEW i \in 1..Len(p) + 1,
           NEW u \in 1..Len(t) + 1, NEW k \in Nat, Plain(p, i, k), Fits(p, t, i, u)
    PROVE  /\ i + k <= Len(p) + 1 /\ u + k <= Len(t) + 1
           /\ Fits(p, t, i + k, u + k)
<1>0. Len(p) \in Nat /\ Len(t) \in Nat
  OBVIOUS
<1> DEFINE good(d) == i + d <= Len(p) + 1 /\ u + d <= Len(t) + 1 /\ Fits(p, t, i + d, u + d)
           bad == {d \in 0..k : ~good(d)}
<1> SUFFICES \A d \in 0..k : good(d)
  <2>1. k \in 0..k
    OBVIOUS
  <2> QED
    BY <2>1
<1> SUFFICES ASSUME bad # {} PROVE FALSE
  OBVIOUS
<1>1. bad \subseteq 0..k /\ \A d \in 0..k : d \in bad <=> ~good(d)
  OBVIOUS
<1>2. good(0)
  BY <1>0
<1> HIDE DEF bad
<1>3. PICK d \in bad : \A e \in bad : d <= e
  <2>1. bad \subseteq Nat
    BY <1>1
  <2> QED
    BY <2>1, LeastOf
<1>4. d \in 0..k /\ ~good(d) /\ d # 0
  BY <1>1, <1>2, <1>3
<1> DEFINE e == d - 1
<1>5. e \in 0..k /\ e \in 0..k - 1 /\ e \notin bad /\ e \in Nat /\ d = e + 1
  BY <1>3, <1>4
<1> HIDE DEF e
<1>6. good(e)
  BY <1>1, <1>5
<1>7. i + e <= Len(p) /\ p[i + e] # AnyN
  BY <1>5 DEF Plain
<1>8. i + e \in 1..Len(p) /\ u + e \in 1..Len(t) + 1
  BY <1>0, <1>5, <1>6, <1>7
<1>9. u + e <= Len(t) /\ Fits(p, t, (i + e) + 1, (u + e) + 1)
  BY <1>6, <1>7, <1>8, FitsChar
<1>10. (i + e) + 1 = i + d /\ (u + e) + 1 = u + d
  BY <1>5
<1>11. good(d)
  BY <1>0, <1>5, <1>8, <1>9, <1>10
<1> QED
  BY <1>4, <1>11

\* Characters that match may be put in front.
LEMMA ChainFits ==
    ASSUME NEW p \in Seq(STRING), NEW t \in Seq(STRING), NEW i \in 1..Len(p) + 1,
           NEW j \in 1..Len(t) + 1, NEW k \in Nat, Chain(p, t, i, j, k),
           Fits(p, t, i + k, j + k)
    PROVE  Fits(p, t, i, j)
<1>0. Len(p) \in Nat /\ Len(t) \in Nat
  OBVIOUS
<1> DEFINE todo == {d \in 0..k : Fits(p, t, i + d, j + d)}
<1>1. /\ k \in todo /\ todo \subseteq 0..k
      /\ \A d \in 0..k : d \in todo <=> Fits(p, t, i + d, j + d)
  OBVIOUS
<1> HIDE DEF todo
<1>2. PICK d \in todo : \A e \in todo : d <= e
  <2>1. todo \subseteq Nat
    BY <1>1
  <2> QED
    BY <2>1, <1>1, LeastOf
<1>3. d \in 0..k /\ Fits(p, t, i + d, j + d)
  BY <1>1, <1>2
<1>4. CASE d = 0
  BY <1>3, <1>4
<1>5. CASE d # 0
  <2> DEFINE e == d - 1
  <2>1. e \in 0..k - 1 /\ e \in 0..k /\ e \in Nat /\ d = e + 1 /\ ~(d <= e)
    BY <1>3, <1>5
  <2> HIDE DEF e
  <2>2. /\ i + e <= Len(p) /\ p[i + e] # AnyN
        /\ j + e <= Len(t) /\ SameChar(p[i + e], t[j + e])
    BY <2>1 DEF Chain, Plain
  <2>3. i + e \in 1..Len(p) /\ j + e \in 1..Len(t) + 1
    BY <1>0, <2>1, <2>2
  <2>4. (i + e) + 1 = i + d /\ (j + e) + 1 = j + d
    BY <2>1
  <2>5. Fits(p, t, i + e, j + e)
    BY <1>3, <2>2, <2>3, <2>4, FitsChar
  <2> QED
    BY <2>1, <2>5, <1>1, <1>2
<1> QED
  BY <1>4, <1>5

\* Where the loop gets stuck nothing fits.
LEMMA StuckFits ==
    ASSUME NEW p \in Seq(STRING), NEW t \in Seq(STRING), NEW i \in 1..Len(p) + 1,
           NEW j \in 1..Len(t) + 1, Stuck(p, t, i, j)
    PROVE  ~Fits(p, t, i, j)
<1>0. Len(p) \in Nat /\ Len(t) \in Nat
  OBVIOUS
<1> SUFFICES ASSUME Fits(p, t, i, j) PROVE FALSE
  OBVIOUS
<1>1. PICK k \in Nat : /\ Chain(p, t, i, j, k) /\ j + k <= Len(t)
                       /\ i + k <= Len(p) => p[i + k] # AnyN /\ ~SameChar(p[i + k], t[j + k])
  BY DEF Stuck
<1>2. i + k <= Len(p) + 1 /\ Fits(p, t, i + k, j + k)
  BY <1>1, FitsPlain DEF Chain
<1>3. j + k \in 1..Len(t) + 1 /\ j + k # Len(t) + 1
  BY <1>0, <1>1
<1>4. CASE i + k = Len(p) + 1
  BY <1>2, <1>3, <1>4, FitsEnd
<1>5. CASE i + k # Len(p) + 1
  <2>1. i + k \in 1..Len(p)
    BY <1>0, <1>2, <1>5
  <2> QED
    BY <2>1, <1>1, <1>2, <1>3, FitsChar
<1> QED
  BY <1>4, <1>5

\* The reason why the last star is enough: where the loop does not get stuck,
\* what fits further on fits here, for the star it meets covers the rest.
LEMMA EarlyFits ==
    ASSUME NEW p \in Seq(STRING), NEW t \in Seq(STRING), NEW i \in 1..Len(p) + 1,
           NEW j \in 1..Len(t) + 1, ~Stuck(p, t, i, j),
           NEW u \in j + 1 .. Len(t) + 1, Fits(p, t, i, u)
    PROVE  Fits(p, t, i, j)
<1>0. Len(p) \in Nat /\ Len(t) \in Nat /\ u \in 1..Len(t) + 1
  OBVIOUS
<1> DEFINE over == {k \in Nat : ~Chain(p, t, i, j, k)}
<1>1. Len(t) + 1 \in over /\ over \subseteq Nat
  <2>1. Len(t) \in 0..(Len(t) + 1) - 1 /\ ~(j + Len(t) <= Len(t))
    BY <1>0
  <2> QED
    BY <2>1, <1>0 DEF Chain
<1>2. PICK q \in over : \A e \in over : q <= e
  <2> HIDE DEF over
  <2> QED
    BY <1>1, LeastOf
<1>3. q \in Nat /\ q # 0
  BY <1>2 DEF Chain, Plain
<1> DEFINE k == q - 1
<1>4. k \in Nat /\ Chain(p, t, i, j, k) /\ ~Chain(p, t, i, j, k + 1)
  BY <1>2, <1>3
<1> HIDE DEF k
<1>5. i + k <= Len(p) + 1 /\ u + k <= Len(t) + 1 /\ Fits(p, t, i + k, u + k)
  BY <1>4, <1>0, FitsPlain DEF Chain
<1>6. j + k <= Len(t)
  BY <1>0, <1>4, <1>5
<1>7. i + k <= Len(p) /\ p[i + k] = AnyN
  <2>1. ~(i + k <= Len(p) => p[i + k] # AnyN /\ ~SameChar(p[i + k], t[j + k]))
    BY <1>4, <1>6 DEF Stuck
  <2>2. SUFFICES ASSUME p[i + k] # AnyN PROVE FALSE
    BY <2>1
  <2>3. i + k <= Len(p) /\ SameChar(p[i + k], t[j + k])
    BY <2>1, <2>2
  <2>4. \A d \in 0..(k + 1) - 1 : d \in 0..k - 1 \/ d = k
    BY <1>4
  <2>5. Chain(p, t, i, j, k + 1)
    BY <2>2, <2>3, <2>4, <1>4, <1>6 DEF Chain, Plain
  <2> QED
    BY <2>5, <1>4
<1>8. i + k \in 1..Len(p) /\ u + k \in 1..Len(t) + 1 /\ j + k \in 1..Len(t) + 1
  BY <1>0, <1>4, <1>5, <1>6, <1>7
<1>9. PICK v \in u + k .. Len(t) + 1 : Fits(p, t, (i + k) + 1, v)
  BY <1>5, <1>7, <1>8, FitsStar
<1>10. v \in j + k .. Len(t) + 1
  BY <1>0, <1>4
<1>11. Fits(p, t, i + k, j + k)
  BY <1>7, <1>8, <1>9, <1>10, FitsStar
<1> QED
  BY <1>4, <1>11, ChainFits

\* At the end of the text only stars fit.
LEMMA FitsNothing ==
    ASSUME NEW p \in Seq(STRING), NEW t \in Seq(STRING), NEW i \in 1..Len(p) + 1
    PROVE  Fits(p, t, i, Len(t) + 1) <=> \A k \in i..Len(p) : p[k] = AnyN
<1>0. Len(p) \in Nat /\ Len(t) \in Nat /\ Len(t) + 1 \in 1..Len(t) + 1
  OBVIOUS
<1> DEFINE right(a) == Fits(p, t, a, Len(t) + 1) <=> \A k \in a..Len(p) : p[k] = AnyN
           bad == {d \in 0..Len(p) : ~right(Len(p) + 1 - d)}
<1>1. right(Len(p) + 1)
  BY <1>0, FitsEnd
<1>2. ASSUME NEW a \in 1..Len(p), right(a + 1) PROVE right(a)
  <2>1. CASE p[a] = AnyN
    <3>1. Fits(p, t, a, Len(t) + 1) <=> Fits(p, t, a + 1, Len(t) + 1)
      <4>1. \A u : u \in Len(t) + 1 .. Len(t) + 1 <=> u = Len(t) + 1
        BY <1>0
      <4> QED
        BY <4>1, <2>1, <1>0, FitsStar
    <3>2. \A k : k \in a..Len(p) <=> k = a \/ k \in a + 1 .. Len(p)
      BY <1>0
    <3> QED
      BY <3>1, <3>2, <2>1, <1>2
  <2>2. CASE p[a] # AnyN
    <3>1. ~Fits(p, t, a, Len(t) + 1)
      BY <2>2, <1>0, FitsChar
    <3>2. a \in a..Len(p)
      BY <1>0
    <3> QED
      BY <3>1, <3>2, <2>2
  <2> QED
    BY <2>1, <2>2
<1> HIDE DEF right
<1>3. bad = {}
  <2> SUFFICES ASSUME bad # {} PROVE FALSE
    OBVIOUS
  <2>1. PICK d \in bad : \A e \in bad : d <= e
    <3>1. bad \subseteq Nat
      OBVIOUS
    <3> HIDE DEF bad
    <3> QED
      BY <3>1, LeastOf
  <2>2. d \in 0..Len(p) /\ d # 0 /\ ~right(Len(p) + 1 - d)
    BY <2>1, <1>1, <1>0
  <2>3. right(Len(p) + 1 - (d - 1)) /\ Len(p) + 1 - (d - 1) = (Len(p) + 1 - d) + 1
    BY <2>1, <2>2, <1>0
  <2>4. Len(p) + 1 - d \in 1..Len(p)
    BY <2>2, <1>0
  <2> QED
    BY <2>2, <2>3, <2>4, <1>2
<1>4. Len(p) + 1 - i \in 0..Len(p) /\ Len(p) + 1 - (Len(p) + 1 - i) = i
  BY <1>0
<1>5. right(i)
  BY <1>3, <1>4
<1> QED
  BY <1>5 DEF right

\* From j on, the first place to try is j.
LEMMA FirstFit ==
    ASSUME NEW p \in Seq(STRING), NEW t \in Seq(STRING), NEW i \in 1..Len(p) + 1,
           NEW j \in 1..Len(t) + 1
    PROVE  (\E u \in j..Len(t) + 1 : Fits(p, t, i, u))
             <=> IF Stuck(p, t, i, j) THEN \E u \in j + 1 .. Len(t) + 1 : Fits(p, t, i, u)
                 ELSE Fits(p, t, i, j)
<1>1. \A u : u \in j..Len(t) + 1 <=> u = j \/ u \in j + 1 .. Len(t) + 1
  <2>1. Len(t) \in Nat
    OBVIOUS
  <2> QED
    BY <2>1
<1> QED
  BY <1>1, StuckFits, EarlyFits

\* What the loop returns from state x.
Verdict(p, t, x) ==
    IF Stuck(p, t, x[1], x[2])
      THEN x[3] # 0 /\ \E u \in x[4] + 1 .. Len(t) + 1 : Fits(p, t, x[3], u)
      ELSE Fits(p, t, x[1], x[2])

\* What it returns if f is what it returns from the states after x.
Body(p, t, f, x) ==
    LET pi == x[1]  ti == x[2]  sp == x[3]  st == x[4]
    IN  IF ti > Len(t) THEN \A i \in pi..Len(p) : p[i] = AnyN
        ELSE IF pi <= Len(p) /\ SameChar(p[pi], t[ti]) THEN f[<<pi + 1, ti + 1, sp, st>>]
        ELSE IF pi <= Len(p) /\ p[pi] = AnyN THEN f[<<pi + 1, ti, pi + 1, ti>>]
        ELSE IF sp # 0 THEN f[<<sp, st + 1, sp, st + 1>>]
        ELSE FALSE

\* A state is the four positions, within their bounds.
LEMMA StateType ==
    ASSUME NEW p \in Seq(STRING), NEW t \in Seq(STRING), NEW x \in GlobStates(p, t)
    PROVE  /\ x = <<x[1], x[2], x[3], x[4]>>
           /\ x[1] \in 1..Len(p) + 1 /\ x[2] \in 1..Len(t) + 1
           /\ x[3] \in 0..Len(p) + 1 /\ x[4] \in 0..Len(t) + 1
           /\ x[3] <= x[1] /\ x[4] <= x[2]
BY DEF GlobStates

\* ... and these make a state.
LEMMA IsState ==
    ASSUME NEW p \in Seq(STRING), NEW t \in Seq(STRING),
           NEW a \in 1..Len(p) + 1, NEW b \in 1..Len(t) + 1,
           NEW c \in 0..Len(p) + 1, NEW d \in 0..Len(t) + 1, c <= a, d <= b
    PROVE  <<a, b, c, d>> \in GlobStates(p, t)
BY DEF GlobStates

\* The states that may follow one.
LEMMA NextStates ==
    ASSUME NEW p \in Seq(STRING), NEW t \in Seq(STRING), NEW x \in GlobStates(p, t),
           x[2] <= Len(t)
    PROVE  /\ x[1] <= Len(p) => /\ <<x[1] + 1, x[2] + 1, x[3], x[4]>> \in GlobStates(p, t)
                                /\ <<x[1] + 1, x[2], x[1] + 1, x[2]>> \in GlobStates(p, t)
           /\ x[3] # 0 => <<x[3], x[4] + 1, x[3], x[4] + 1>> \in GlobStates(p, t)
<1>0. Len(p) \in Nat /\ Len(t) \in Nat
  OBVIOUS
<1>1. /\ x[1] \in 1..Len(p) + 1 /\ x[2] \in 1..Len(t) + 1
      /\ x[3] \in 0..Len(p) + 1 /\ x[4] \in 0..Len(t) + 1
      /\ x[3] <= x[1] /\ x[4] <= x[2]
  BY StateType
<1>2. ASSUME x[1] <= Len(p)
      PROVE  <<x[1] + 1, x[2] + 1, x[3], x[4]>> \in GlobStates(p, t)
  <2>0. ASSUME NEW a \in Nat, NEW b \in 1..a PROVE b + 1 \in 1..a + 1
    OBVIOUS
  <2>1. x[1] \in 1..Len(p) /\ x[2] \in 1..Len(t)
    BY <1>0, <1>1, <1>2
  <2>2. x[1] + 1 \in 1..Len(p) + 1 /\ x[2] + 1 \in 1..Len(t) + 1
    BY <2>0, <2>1, <1>0
  <2>3. x[3] <= x[1] + 1 /\ x[4] <= x[2] + 1
    BY <1>0, <1>1
  <2> QED
    BY <2>2, <2>3, <1>1, IsState
<1>3. ASSUME x[1] <= Len(p)
      PROVE  <<x[1] + 1, x[2], x[1] + 1, x[2]>> \in GlobStates(p, t)
  BY <1>0, <1>1, <1>3, IsState, SMTT(30)
<1>4. ASSUME x[3] # 0
      PROVE  <<x[3], x[4] + 1, x[3], x[4] + 1>> \in GlobStates(p, t)
  <2>1. x[3] \in 1..Len(p) + 1 /\ x[4] + 1 \in 1..Len(t) + 1
    BY <1>0, <1>1, <1>4, SMTT(30)
  <2>2. x[4] + 1 \in 0..Len(t) + 1
    BY <2>1, <1>0
  <2> QED
    BY <2>1, <2>2, <1>1, IsState
<1> QED
  BY <1>2, <1>3, <1>4

\* A character that matches changes nothing about getting stuck.
LEMMA StuckStep ==
    ASSUME NEW p \in Seq(STRING), NEW t \in Seq(STRING), NEW i \in 1..Len(p), NEW j \in 1..Len(t),
           p[i] # AnyN, SameChar(p[i], t[j])
    PROVE  Stuck(p, t, i, j) <=> Stuck(p, t, i + 1, j + 1)
<1>0. Len(p) \in Nat /\ Len(t) \in Nat
  OBVIOUS
<1>1. ASSUME NEW k \in Nat PROVE Chain(p, t, i, j, k + 1) <=> Chain(p, t, i + 1, j + 1, k)
  <2>1. ASSUME Chain(p, t, i, j, k + 1), NEW d \in 0..k - 1
        PROVE  /\ (i + 1) + d <= Len(p) /\ p[(i + 1) + d] # AnyN
               /\ (j + 1) + d <= Len(t) /\ SameChar(p[(i + 1) + d], t[(j + 1) + d])
    <3>1. d + 1 \in 0..(k + 1) - 1 /\ i + (d + 1) = (i + 1) + d /\ j + (d + 1) = (j + 1) + d
      OBVIOUS
    <3>2. /\ i + (d + 1) <= Len(p) /\ p[i + (d + 1)] # AnyN
          /\ j + (d + 1) <= Len(t) /\ SameChar(p[i + (d + 1)], t[j + (d + 1)])
      BY <2>1, <3>1 DEF Chain, Plain
    <3> QED
      BY <3>1, <3>2
  <2>2. ASSUME Chain(p, t, i + 1, j + 1, k), NEW d \in 0..(k + 1) - 1
        PROVE  /\ i + d <= Len(p) /\ p[i + d] # AnyN
               /\ j + d <= Len(t) /\ SameChar(p[i + d], t[j + d])
    <3>1. CASE d = 0
      BY <3>1, <1>0
    <3>2. CASE d # 0
      <4> DEFINE e == d - 1
      <4>1. e \in 0..k - 1 /\ i + d = (i + 1) + e /\ j + d = (j + 1) + e
        BY <3>2
      <4> HIDE DEF e
      <4> QED
        BY <4>1, <2>2 DEF Chain, Plain
    <3> QED
      BY <3>1, <3>2
  <2> QED
    BY <2>1, <2>2 DEF Chain, Plain
<1>2. ASSUME Stuck(p, t, i, j) PROVE Stuck(p, t, i + 1, j + 1)
  <2>1. PICK k \in Nat : /\ Chain(p, t, i, j, k) /\ j + k <= Len(t)
                         /\ i + k <= Len(p) => p[i + k] # AnyN /\ ~SameChar(p[i + k], t[j + k])
    BY <1>2 DEF Stuck
  <2>2. k # 0
    BY <2>1, <1>0
  <2> DEFINE e == k - 1
  <2>3. e \in Nat /\ k = e + 1 /\ i + k = (i + 1) + e /\ j + k = (j + 1) + e
    BY <2>2
  <2> HIDE DEF e
  <2>4. Chain(p, t, i + 1, j + 1, e)
    BY <2>1, <2>3, <1>1
  <2> QED
    BY <2>1, <2>3, <2>4 DEF Stuck
<1>3. ASSUME Stuck(p, t, i + 1, j + 1) PROVE Stuck(p, t, i, j)
  <2>1. PICK k \in Nat : /\ Chain(p, t, i + 1, j + 1, k) /\ (j + 1) + k <= Len(t)
                         /\ (i + 1) + k <= Len(p) =>
                               p[(i + 1) + k] # AnyN /\ ~SameChar(p[(i + 1) + k], t[(j + 1) + k])
    BY <1>3 DEF Stuck
  <2>2. k + 1 \in Nat /\ i + (k + 1) = (i + 1) + k /\ j + (k + 1) = (j + 1) + k
    OBVIOUS
  <2>3. Chain(p, t, i, j, k + 1)
    BY <2>1, <1>1
  <2> QED
    BY <2>1, <2>2, <2>3 DEF Stuck
<1> QED
  BY <1>2, <1>3

\* What Verdict says of each way the loop may go.
LEMMA VerdictSteps ==
    ASSUME NEW p \in Seq(STRING), NEW t \in Seq(STRING), StarFree(t),
           NEW x \in GlobStates(p, t)
    PROVE  LET pi == x[1]  ti == x[2]  sp == x[3]  st == x[4]
           IN  IF ti > Len(t) THEN Verdict(p, t, x) <=> \A i \in pi..Len(p) : p[i] = AnyN
               ELSE IF pi <= Len(p) /\ SameChar(p[pi], t[ti])
                 THEN Verdict(p, t, x) <=> Verdict(p, t, <<pi + 1, ti + 1, sp, st>>)
               ELSE IF pi <= Len(p) /\ p[pi] = AnyN
                 THEN Verdict(p, t, x) <=> Verdict(p, t, <<pi + 1, ti, pi + 1, ti>>)
               ELSE IF sp # 0
                 THEN Verdict(p, t, x) <=> Verdict(p, t, <<sp, st + 1, sp, st + 1>>)
               ELSE ~Verdict(p, t, x)
<1> DEFINE pi == x[1]
           ti == x[2]
           sp == x[3]
           st == x[4]
<1>0. Len(p) \in Nat /\ Len(t) \in Nat
  OBVIOUS
<1>1. /\ pi \in 1..Len(p) + 1 /\ ti \in 1..Len(t) + 1
      /\ sp \in 0..Len(p) + 1 /\ st \in 0..Len(t) + 1
      /\ sp <= pi /\ st <= ti
  BY StateType
<1>v. Verdict(p, t, x) <=> IF Stuck(p, t, pi, ti)
                             THEN sp # 0 /\ \E u \in st + 1 .. Len(t) + 1 : Fits(p, t, sp, u)
                             ELSE Fits(p, t, pi, ti)
  BY DEF Verdict
<1>c. Chain(p, t, pi, ti, 0)
  BY DEF Chain, Plain
<1> HIDE DEF pi, ti, sp, st
<1>2. ASSUME ti > Len(t) PROVE Verdict(p, t, x) <=> \A i \in pi..Len(p) : p[i] = AnyN
  <2>1. ti = Len(t) + 1
    BY <1>0, <1>1, <1>2
  <2>2. ~Stuck(p, t, pi, ti)
    BY <1>0, <2>1 DEF Stuck
  <2> QED
    BY <1>1, <1>v, <2>1, <2>2, FitsNothing
<1>3. ASSUME ti <= Len(t), pi <= Len(p), SameChar(p[pi], t[ti])
      PROVE  Verdict(p, t, x) <=> Verdict(p, t, <<pi + 1, ti + 1, sp, st>>)
  <2>1. pi \in 1..Len(p) /\ ti \in 1..Len(t)
    BY <1>0, <1>1, <1>3
  <2>2. p[pi] # AnyN
    BY <1>3, <2>1 DEF StarFree, SameChar, Any1, AnyN
  <2>3. Stuck(p, t, pi, ti) <=> Stuck(p, t, pi + 1, ti + 1)
    BY <2>1, <2>2, <1>3, StuckStep
  <2>4. Fits(p, t, pi, ti) <=> Fits(p, t, pi + 1, ti + 1)
    BY <2>1, <2>2, <1>1, <1>3, FitsChar
  <2> QED
    BY <1>v, <2>3, <2>4 DEF Verdict
<1>4. ASSUME ti <= Len(t), pi <= Len(p), ~SameChar(p[pi], t[ti]), p[pi] = AnyN
      PROVE  Verdict(p, t, x) <=> Verdict(p, t, <<pi + 1, ti, pi + 1, ti>>)
  <2>1. pi \in 1..Len(p) /\ pi + 1 \in 1..Len(p) + 1 /\ pi + 1 # 0
    BY <1>0, <1>1, <1>4
  <2>2. ~Stuck(p, t, pi, ti)
    <3> SUFFICES ASSUME NEW k \in Nat, Chain(p, t, pi, ti, k),
                        pi + k <= Len(p) => p[pi + k] # AnyN
                 PROVE  FALSE
      BY DEF Stuck
    <3>1. CASE k = 0
      BY <3>1, <1>4, <2>1
    <3>2. CASE k # 0
      <4>1. 0 \in 0..k - 1 /\ pi + 0 = pi
        BY <3>2, <2>1
      <4> QED
        BY <4>1, <1>4 DEF Chain, Plain
    <3> QED
      BY <3>1, <3>2
  <2>3. Fits(p, t, pi, ti) <=> \E u \in ti..Len(t) + 1 : Fits(p, t, pi + 1, u)
    BY <1>1, <1>4, <2>1, FitsStar
  <2>4. (\E u \in ti..Len(t) + 1 : Fits(p, t, pi + 1, u))
          <=> IF Stuck(p, t, pi + 1, ti) THEN \E u \in ti + 1 .. Len(t) + 1 : Fits(p, t, pi + 1, u)
              ELSE Fits(p, t, pi + 1, ti)
    BY <1>1, <2>1, FirstFit
  <2> QED
    BY <1>v, <2>1, <2>2, <2>3, <2>4 DEF Verdict
<1>5. ASSUME ti <= Len(t), pi <= Len(p) => ~SameChar(p[pi], t[ti]) /\ p[pi] # AnyN
      PROVE  Stuck(p, t, pi, ti)
  <2>1. pi + 0 = pi /\ ti + 0 = ti
    BY <1>1
  <2> QED
    BY <2>1, <1>5, <1>c DEF Stuck
<1>6. ASSUME ti <= Len(t), Stuck(p, t, pi, ti), sp # 0
      PROVE  Verdict(p, t, x) <=> Verdict(p, t, <<sp, st + 1, sp, st + 1>>)
  <2>1. sp \in 1..Len(p) + 1 /\ st + 1 \in 1..Len(t) + 1
    BY <1>0, <1>1, <1>6
  <2>2. (\E u \in st + 1 .. Len(t) + 1 : Fits(p, t, sp, u))
          <=> IF Stuck(p, t, sp, st + 1)
                THEN \E u \in (st + 1) + 1 .. Len(t) + 1 : Fits(p, t, sp, u)
              ELSE Fits(p, t, sp, st + 1)
    BY <2>1, FirstFit
  <2> QED
    BY <1>v, <1>6, <2>2 DEF Verdict
<1>7. ASSUME Stuck(p, t, pi, ti), sp = 0 PROVE ~Verdict(p, t, x)
  BY <1>v, <1>7
<1>8. ti > Len(t) \/ ti <= Len(t)
  BY <1>0, <1>1
<1> QED
  BY <1>2, <1>3, <1>4, <1>5, <1>6, <1>7, <1>8 DEF pi, ti, sp, st

\* Verdict solves the recursive equation of the loop.
LEMMA VerdictSolves ==
    ASSUME NEW p \in Seq(STRING), NEW t \in Seq(STRING), StarFree(t),
           NEW g, g = [x \in GlobStates(p, t) |-> Verdict(p, t, x)]
    PROVE  g = [x \in GlobStates(p, t) |-> Body(p, t, g, x)]
<1> SUFFICES ASSUME NEW x \in GlobStates(p, t) PROVE Verdict(p, t, x) = Body(p, t, g, x)
  OBVIOUS
<1>0. Len(p) \in Nat /\ Len(t) \in Nat /\ x[1] \in Nat /\ x[2] \in Nat
  BY StateType
<1>1. ASSUME NEW y \in GlobStates(p, t) PROVE g[y] = Verdict(p, t, y)
  OBVIOUS
<1>2. ASSUME NEW y PROVE Verdict(p, t, y) \in BOOLEAN
  BY DEF Verdict, Fits
<1>3. CASE x[2] > Len(t)
  BY <1>2, <1>3, VerdictSteps DEF Body
<1>4. CASE x[2] <= Len(t)
  <2>1. ~(x[2] > Len(t))
    BY <1>0, <1>4
  <2>2. CASE x[1] <= Len(p) /\ SameChar(p[x[1]], t[x[2]])
    BY <2>1, <2>2, <1>1, <1>2, <1>4, NextStates, VerdictSteps DEF Body
  <2>3. CASE ~(x[1] <= Len(p) /\ SameChar(p[x[1]], t[x[2]])) /\ x[1] <= Len(p) /\ p[x[1]] = AnyN
    BY <2>1, <2>3, <1>1, <1>2, <1>4, NextStates, VerdictSteps DEF Body
  <2>4. CASE /\ ~(x[1] <= Len(p) /\ SameChar(p[x[1]], t[x[2]]))
             /\ ~(x[1] <= Len(p) /\ p[x[1]] = AnyN) /\ x[3] # 0
    BY <2>1, <2>4, <1>1, <1>2, <1>4, NextStates, VerdictSteps DEF Body
  <2>5. CASE /\ ~(x[1] <= Len(p) /\ SameChar(p[x[1]], t[x[2]]))
             /\ ~(x[1] <= Len(p) /\ p[x[1]] = AnyN) /\ x[3] = 0
    BY <2>1, <2>5, <1>2, VerdictSteps DEF Body
  <2> QED
    BY <2>2, <2>3, <2>4, <2>5
<1> QED
  BY <1>0, <1>3, <1>4

\* The greatest value of a function with values up to n.
LEMMA GreatestOf ==
    ASSUME NEW S, S # {}, NEW n \in Nat, NEW h, \A x \in S : h[x] \in 0..n
    PROVE  \E x \in S : \A y \in S : h[y] <= h[x]
<1> DEFINE T == {n - h[x] : x \in S}
<1>1. T \subseteq Nat /\ T # {}
  OBVIOUS
<1>2. PICK a \in T : \A b \in T : a <= b
  <2> HIDE DEF T
  <2> QED
    BY <1>1, LeastOf
<1>3. PICK x \in S : a = n - h[x]
  BY <1>2
<1>4. ASSUME NEW y \in S PROVE h[y] <= h[x]
  <2>1. n - h[y] \in T
    OBVIOUS
  <2>2. n - h[x] <= n - h[y]
    BY <2>1, <1>2, <1>3
  <2> QED
    BY <2>2
<1> QED
  BY <1>4

\* It is the only solution: from every state the loop goes to one with a later
\* star, or the same star tried later, or the same try with the pattern further on.
LEMMA OnlySolution ==
    ASSUME NEW p \in Seq(STRING), NEW t \in Seq(STRING), StarFree(t),
           NEW f, f = [x \in GlobStates(p, t) |-> Body(p, t, f, x)],
           NEW s \in GlobStates(p, t)
    PROVE  f[s] <=> Verdict(p, t, s)
<1> DEFINE D   == GlobStates(p, t)
           bad == {x \in D : ~(f[x] <=> Verdict(p, t, x))}
<1>0. Len(p) \in Nat /\ Len(t) \in Nat
  OBVIOUS
<1> SUFFICES ASSUME bad # {} PROVE FALSE
  OBVIOUS
<1>1. bad \subseteq D /\ \A y \in D : y \notin bad => (f[y] <=> Verdict(p, t, y))
  OBVIOUS
<1>t. \A y \in D : y[1] \in 0..Len(p) + 1 /\ y[3] \in 0..Len(p) + 1 /\ y[4] \in 0..Len(t) + 1
  BY <1>0, StateType
<1>f. \A y \in D : f[y] <=> Body(p, t, f, y)
  OBVIOUS
<1>b. \A y \in bad : ~(f[y] <=> Verdict(p, t, y))
  OBVIOUS
<1> HIDE DEF bad
<1>2. PICK x1 \in bad : \A y \in bad : y[3] <= x1[3]
  <2> DEFINE h == [y \in bad |-> y[3]]
  <2>1. \A y \in bad : h[y] = y[3] /\ h[y] \in 0..Len(p) + 1
    BY <1>1, <1>t
  <2>3. Len(p) + 1 \in Nat
    BY <1>0
  <2> HIDE DEF h
  <2>4. \E x \in bad : \A y \in bad : h[y] <= h[x]
    BY <2>1, <2>3, GreatestOf
  <2> QED
    BY <2>1, <2>4
<1> DEFINE bad2 == {y \in bad : y[3] = x1[3]}
<1>3. PICK x2 \in bad2 : \A y \in bad2 : y[4] <= x2[4]
  <2> DEFINE h == [y \in bad2 |-> y[4]]
  <2>1. \A y \in bad2 : h[y] = y[4] /\ h[y] \in 0..Len(t) + 1
    BY <1>1, <1>t
  <2>2. bad2 # {}
    BY <1>2
  <2>3. Len(t) + 1 \in Nat
    BY <1>0
  <2> HIDE DEF h, bad2
  <2>4. \E x \in bad2 : \A y \in bad2 : h[y] <= h[x]
    BY <2>1, <2>2, <2>3, GreatestOf
  <2> QED
    BY <2>1, <2>4
<1> DEFINE bad3 == {y \in bad2 : y[4] = x2[4]}
<1>4. PICK x \in bad3 : \A y \in bad3 : y[1] <= x[1]
  <2> DEFINE h == [y \in bad3 |-> y[1]]
  <2>1. \A y \in bad3 : h[y] = y[1] /\ h[y] \in 0..Len(p) + 1
    BY <1>1, <1>t
  <2>2. bad3 # {}
    BY <1>3
  <2>3. Len(p) + 1 \in Nat
    BY <1>0
  <2> HIDE DEF h, bad3
  <2>4. \E x \in bad3 : \A y \in bad3 : h[y] <= h[x]
    BY <2>1, <2>2, <2>3, GreatestOf
  <2> QED
    BY <2>1, <2>4
<1>5. /\ x \in D /\ x \in bad
      /\ \A y \in bad : y[3] <= x[3]
      /\ \A y \in bad : y[3] = x[3] => y[4] <= x[4]
      /\ \A y \in bad : y[3] = x[3] /\ y[4] = x[4] => y[1] <= x[1]
  BY <1>1, <1>2, <1>3, <1>4
<1> HIDE DEF bad2, bad3
<1>6. x[1] \in Nat /\ x[2] \in Nat /\ x[3] \in Nat /\ x[4] \in Nat /\ x[3] <= x[1]
  BY <1>5, <1>0, StateType
<1>7. /\ <<x[1] + 1, x[2] + 1, x[3], x[4]>> \notin bad
      /\ <<x[1] + 1, x[2], x[1] + 1, x[2]>> \notin bad
      /\ <<x[3], x[4] + 1, x[3], x[4] + 1>> \notin bad
  <2>1. ASSUME <<x[1] + 1, x[2] + 1, x[3], x[4]>> \in bad PROVE FALSE
    BY <2>1, <1>5, <1>6
  <2>2. ASSUME <<x[1] + 1, x[2], x[1] + 1, x[2]>> \in bad PROVE FALSE
    BY <2>2, <1>5, <1>6
  <2>3. ASSUME <<x[3], x[4] + 1, x[3], x[4] + 1>> \in bad PROVE FALSE
    BY <2>3, <1>5, <1>6
  <2> QED
    BY <2>1, <2>2, <2>3
<1>8. f[x] <=> Verdict(p, t, x)
  <2>1. f[x] <=> Body(p, t, f, x)
    BY <1>5, <1>f
  <2>2. CASE x[2] > Len(t)
    BY <2>1, <2>2, <1>5, VerdictSteps DEF Body
  <2>3. CASE ~(x[2] > Len(t)) /\ x[1] <= Len(p) /\ SameChar(p[x[1]], t[x[2]])
    <3>1. x[2] <= Len(t)
      BY <2>3, <1>0, <1>6
    <3>2. <<x[1] + 1, x[2] + 1, x[3], x[4]>> \in D
      BY <3>1, <2>3, <1>5, NextStates
    <3> QED
      BY <2>1, <2>3, <3>2, <1>1, <1>5, <1>7, VerdictSteps DEF Body
  <2>4. CASE /\ ~(x[2] > Len(t)) /\ ~(x[1] <= Len(p) /\ SameChar(p[x[1]], t[x[2]]))
             /\ x[1] <= Len(p) /\ p[x[1]] = AnyN
    <3>1. x[2] <= Len(t)
      BY <2>4, <1>0, <1>6
    <3>2. <<x[1] + 1, x[2], x[1] + 1, x[2]>> \in D
      BY <3>1, <2>4, <1>5, NextStates
    <3> QED
      BY <2>1, <2>4, <3>2, <1>1, <1>5, <1>7, VerdictSteps DEF Body
  <2>5. CASE /\ ~(x[2] > Len(t)) /\ ~(x[1] <= Len(p) /\ SameChar(p[x[1]], t[x[2]]))
             /\ ~(x[1] <= Len(p) /\ p[x[1]] = AnyN) /\ x[3] # 0
    <3>1. x[2] <= Len(t)
      BY <2>5, <1>0, <1>6
    <3>2. <<x[3], x[4] + 1, x[3], x[4] + 1>> \in D
      BY <3>1, <2>5, <1>5, NextStates
    <3> QED
      BY <2>1, <2>5, <3>2, <1>1, <1>5, <1>7, VerdictSteps DEF Body
  <2>6. CASE /\ ~(x[2] > Len(t)) /\ ~(x[1] <= Len(p) /\ SameChar(p[x[1]], t[x[2]]))
             /\ ~(x[1] <= Len(p) /\ p[x[1]] = AnyN) /\ x[3] = 0
    BY <2>1, <2>6, <1>5, VerdictSteps DEF Body
  <2> QED
    BY <2>2, <2>3, <2>4, <2>5, <2>6
<1> QED
  BY <1>5, <1>8, <1>b

\* glob_matches decides what a pattern means, for patterns and texts of any
\* length, if the text has no star of its own.
LEMMA GreedyIsRight ==
    ASSUME NEW p \in Seq(STRING), NEW t \in Seq(STRING), StarFree(t)
    PROVE  GlobGreedy(p, t) <=> GlobMeans(p, t)
<1> DEFINE g == [x \in GlobStates(p, t) |-> Verdict(p, t, x)]
           run == CHOOSE f : f = [x \in GlobStates(p, t) |-> Body(p, t, f, x)]
<1>0. Len(p) \in Nat /\ Len(t) \in Nat
  OBVIOUS
<1>1. \E f : f = [x \in GlobStates(p, t) |-> Body(p, t, f, x)]
  <2>1. g = [x \in GlobStates(p, t) |-> Body(p, t, g, x)]
    BY VerdictSolves
  <2> HIDE DEF g
  <2> QED
    BY <2>1
<1>2. run = [x \in GlobStates(p, t) |-> Body(p, t, run, x)]
  BY <1>1
<1>3. GlobGreedy(p, t) <=> run[<<1, 1, 0, 0>>]
  BY DEF GlobGreedy, Body
<1> HIDE DEF run
<1>4. <<1, 1, 0, 0>> \in GlobStates(p, t)
  BY <1>0, IsState
<1>5. run[<<1, 1, 0, 0>>] <=> Verdict(p, t, <<1, 1, 0, 0>>)
  BY <1>2, <1>4, OnlySolution
<1>6. Verdict(p, t, <<1, 1, 0, 0>>) <=> Fits(p, t, 1, 1)
  <2>1. Stuck(p, t, 1, 1) => ~Fits(p, t, 1, 1)
    BY <1>0, StuckFits
  <2> QED
    BY <2>1 DEF Verdict
<1>7. Fits(p, t, 1, 1) <=> GlobMeans(p, t)
  BY DEF Fits, Lays, GlobMeans
<1> QED
  BY <1>3, <1>5, <1>6, <1>7

\* glob_matches, with one star to go back to, decides what its patterns mean,
\* for patterns and texts of any length, in texts without a star of their own.
THEOREM GlobsAlwaysMatch == Spec => []GlobsMatch
<1>1. GlobsMatch
  BY AuthorityAssumption, GreedyIsRight DEF GlobsMatch
<1> QED
  BY <1>1, PTL

=============================================================================
