----------------------------- MODULE Authority -----------------------------
(***************************************************************************)
(* How the right to call tools travels: from a transport session to a run, *)
(* to the tools its steps call, and through the tools that start something *)
(* themselves: workflow tools (workflow_tool.rs), ai:complete and its      *)
(* ReAct loop (konf-tool-llm), runner:spawn and its durable intent, and    *)
(* schedule:create and its durable timer.                                  *)
(*                                                                         *)
(* A holder is a live run or an ai:complete call.  root and origin are     *)
(* history: the session's grants and the trace the holder descends from.   *)
(***************************************************************************)
EXTENDS Capabilities, Guards, FiniteSets

CONSTANTS
    Slots,          \* bound: live holders
    Tools,          \* names of the tools that may be registered
    WorkflowTools,  \* those that are WorkflowTool
    AiComplete, Spawn, Schedule,   \* "ai:complete", "runner:spawn", "schedule:create"
    Registries,     \* the tool sets that a config reload may leave
    Alias,          \* tool_guards: wrapper of a tool
    GuardOf,        \* tool_guards: rules and default action of a tool
    Inputs,         \* tool inputs
    Sessions,       \* capability sets of MCP sessions and of chat
    Grants,         \* `grant` lists of steps
    Whitelists,     \* `tools` lists of ai:complete steps
    WorkflowCaps,   \* the capabilities a workflow declares
    MaxChildDepth,  \* ResourceLimits.max_child_depth
    MaxIterations,  \* LlmConfig.max_iterations
    MaxTraces,      \* bound: root contexts
    MaxTimers,      \* bound: stored timers
    SomePatterns, SomeGlobs, SomeTexts   \* bounds: what the pure rules are checked on

ASSUME AuthorityAssumption ==
    /\ Tools \subseteq Seq(Segments)
    /\ WorkflowTools \subseteq Tools
    /\ {AiComplete, Spawn, Schedule} \subseteq Tools \ {<<>>}
    /\ \A tools \in Registries : tools \subseteq Tools
    /\ \A caps \in Sessions \cup Grants : \A p \in caps : p \in Patterns
    /\ \A p \in SomePatterns : p \in Patterns
    /\ \A p \in SomeGlobs \cup SomeTexts : p \in Seq(STRING)

VARIABLES
    registry,       \* the engine's tool registry
    holder,         \* live holders
    timers,         \* stored timers: their capabilities
    intents,        \* stored runner intents, per slot of their run
    traces,         \* trace ids minted
    calls           \* history: the tool calls of the last step that made any

vars == <<registry, holder, timers, intents, traces, calls>>

Idle == [kind |-> "idle", caps |-> {}, root |-> {}, tools |-> {}, depth |-> 0,
         turns |-> 0, trace |-> 0, origin |-> 0]

NoIntent == [w |-> <<>>, caps |-> {}, root |-> {}]

Init ==
    /\ registry \in Registries
    /\ holder = [s \in Slots |-> Idle]
    /\ timers = {}
    /\ intents = [s \in Slots |-> NoIntent]
    /\ traces = 0
    /\ calls = {}

-----------------------------------------------------------------------------
(* Starting runs.                                                          *)

\* A new holder takes a slot that no live holder and no stored intent has.
Free(s) == holder[s] = Idle /\ intents[s] = NoIntent

\* Runtime::build_scoped_engine: the granted tools, an aliased one replaced by
\* its wrapper under the wrapper's own name.
ScopedTools(caps) ==
    LET granted == {t \in registry : CheckAccess(caps, t)}
        aliased == {t \in granted : t \in DOMAIN Alias /\ Alias[t] \in registry}
    IN  (granted \ aliased) \cup {Alias[t] : t \in aliased}

\* Runtime::start and start_streaming under a scope, for a workflow tool's
\* workflow: the depth limit of validate_start, the engine's validate_grant.
StartRun(s, w, scope) ==
    /\ holder[s] = Idle
    /\ scope.depth < MaxChildDepth
    /\ Attenuate(scope.caps, WorkflowCaps[w])
    /\ holder' = [holder EXCEPT ![s] =
                    [Idle EXCEPT !.kind = "run", !.caps = scope.caps, !.root = scope.root,
                                 !.tools = ScopedTools(scope.caps), !.depth = scope.depth,
                                 !.trace = scope.trace, !.origin = scope.origin]]

\* WorkflowTool::invoke: from_envelope, then child_scope of the same grants.
InvokeWorkflow(s, w, env) ==
    /\ ChildScope(env.caps, env.caps)
    /\ StartRun(s, w, [env EXCEPT !.depth = env.depth + 1])

-----------------------------------------------------------------------------
(* What a tool does with the envelope it is invoked with.                  *)

\* A tool is invoked by a caller that was checked, or by the runner or a timer.
Call(by, t, root) == [by |-> by, tool |-> t, root |-> root]

\* AiCompleteTool::resolve_tools: the live registry, filtered by the
\* envelope's capabilities and the whitelist; itself only if whitelisted.
ResolveTools(env, whitelist) ==
    {t \in registry : /\ t \in whitelist
                      /\ CheckAccess(env.caps, t)}

\* AiCompleteTool::invoke_streaming up to its loop.
InvokeLlm(s, env) ==
    /\ Free(s)
    /\ \E whitelist \in Whitelists \cup {Tools \ {AiComplete}} :
        holder' = [holder EXCEPT ![s] =
                    [Idle EXCEPT !.kind = "agent", !.caps = env.caps, !.root = env.root,
                                 !.tools = ResolveTools(env, whitelist), !.depth = env.depth,
                                 !.trace = env.trace, !.origin = env.origin]]
    /\ UNCHANGED <<timers, intents>>

\* reconstruct_parent_scope and reconstruct_parent_context: the envelope's grants
\* and trace, at depth 0.
ParentOf(env) == [env EXCEPT !.depth = 0]

\* Mutant: the intent keeps the grants of the inline runner, not the parent's.
InvokeSpawn_FullIntent(s, w, env) ==
    /\ Free(s) /\ w \in registry
    /\ calls' = {Call("caller", Spawn, env.root), Call("runner", w, env.root)}
    /\ InvokeWorkflow(s, w, ParentOf(env))
    /\ intents' \in {intents, [intents EXCEPT ![s] = [w |-> w, caps |-> {All}, root |-> env.root]]}
    /\ UNCHANGED timers

\* Mutant: the runner starts a trace of its own.
InvokeSpawn_NewTrace(s, w, env) ==
    /\ Free(s) /\ w \in registry
    /\ calls' = {Call("caller", Spawn, env.root), Call("runner", w, env.root)}
    /\ InvokeWorkflow(s, w, [ParentOf(env) EXCEPT !.trace = MaxTraces + 1])
    /\ intents' \in {intents, [intents EXCEPT ![s] = [w |-> w, caps |-> env.caps, root |-> env.root]]}
    /\ UNCHANGED timers

\* SpawnTool::invoke, InlineRunner::spawn_with_id: the parent's grants are
\* stored in the intent, unless that fails, and handed to the workflow tool
\* without its depth.  Nobody asks whether they cover that tool, which may fail.
InvokeSpawn(s, w, env) ==
    /\ Free(s) /\ w \in registry
    /\ calls' = {Call("caller", Spawn, env.root), Call("runner", w, env.root)}
    /\ InvokeWorkflow(s, w, ParentOf(env)) \/ UNCHANGED holder
    /\ intents' \in {intents, [intents EXCEPT ![s] = [w |-> w, caps |-> env.caps, root |-> env.root]]}
    /\ UNCHANGED timers

\* ScheduleTool::invoke: the timer keeps the envelope's grants.
InvokeSchedule(w, env) ==
    /\ w \in registry /\ Cardinality(timers) < MaxTimers
    /\ timers' = timers \cup {[w |-> w, caps |-> env.caps, root |-> env.root]}
    /\ UNCHANGED <<holder, intents>>

\* Any tool may also fail, or do nothing that matters here.
Invoke(t, env) ==
    \/ /\ calls' = {Call("caller", t, env.root)}
       /\ \/ UNCHANGED <<holder, timers, intents>>
          \/ /\ t \in WorkflowTools
             /\ \E s \in Slots : Free(s) /\ InvokeWorkflow(s, t, env)
             /\ UNCHANGED <<timers, intents>>
          \/ t = AiComplete /\ \E s \in Slots : InvokeLlm(s, env)
          \/ t = Schedule /\ \E w \in WorkflowTools : InvokeSchedule(w, env)
    \/ t = Spawn /\ \E s \in Slots, w \in WorkflowTools : InvokeSpawn(s, w, env)

\* The wrapper of a guarded tool lets some input pass; a guard without rules is
\* no wrapper, whatever its default.
GuardPasses(t) ==
    t \in DOMAIN GuardOf /\ GuardOf[t].rules # <<>> => \E i \in Inputs : Evaluate(GuardOf[t], i)

-----------------------------------------------------------------------------
(* Who calls tools.                                                        *)

\* ExecutionContext::new_root.
Mint == traces < MaxTraces /\ traces' = traces + 1

RootEnv(caps) == [caps |-> caps, root |-> caps, depth |-> 0,
                  trace |-> traces + 1, origin |-> traces + 1]

\* POST /v1/chat: a run of the chat workflow, under the configured capabilities.
Chat(s, w, caps) ==
    /\ Free(s) /\ Mint
    /\ StartRun(s, w, RootEnv(caps))
    /\ UNCHANGED <<registry, timers, intents, calls>>

\* KonfMcpServer::call_tool, Runtime::invoke_tool, dispatch_tool.  The MCP name
\* stands for any kernel name that it may translate to.
CallTool(t, caps) ==
    /\ Mint
    /\ CheckAccess(caps, t)
    /\ t \in registry
    /\ GuardPasses(t)
    /\ Invoke(t, RootEnv(caps))
    /\ UNCHANGED registry

\* execute_step: the tool must be granted to the run and registered in its
\* scoped engine; the step's grant attenuates what the tool receives.  The
\* envelope's metadata, where the depth would be, is empty.
Step(r, t, grant) ==
    /\ holder[r].kind = "run"
    /\ CheckAccess(holder[r].caps, t)
    /\ t \in holder[r].tools
    /\ Attenuate(holder[r].caps, grant)
    /\ GuardPasses(t)
    /\ Invoke(t, [caps |-> grant, root |-> holder[r].root, depth |-> 0,
                  trace |-> holder[r].trace, origin |-> holder[r].origin])
    /\ UNCHANGED <<registry, traces>>

StepWithGrant(r, t) == \E g \in Grants : Step(r, t, g)
StepInherits(r, t)  == Step(r, t, holder[r].caps)

\* react_loop: one completion, which asks for tool calls, answers, or fails.
AskModel(a) ==
    /\ holder[a].kind = "agent" /\ holder[a].turns < MaxIterations
    /\ \/ holder' = [holder EXCEPT ![a] = Idle]
       \/ holder' = [holder EXCEPT ![a].turns = @ + 1]
    /\ UNCHANGED <<registry, timers, intents, traces, calls>>

\* react_loop: the iterations are used up.
GiveUp(a) ==
    /\ holder[a].kind = "agent" /\ holder[a].turns = MaxIterations
    /\ holder' = [holder EXCEPT ![a] = Idle]
    /\ UNCHANGED <<registry, timers, intents, traces, calls>>

\* KonfluxToolBridge::call: the registered tool itself, with the envelope that
\* ai:complete was invoked with.
AgentCall(a, t) ==
    /\ holder[a].kind = "agent" /\ holder[a].turns > 0
    /\ t \in holder[a].tools
    /\ Invoke(t, [caps |-> holder[a].caps, root |-> holder[a].root, depth |-> holder[a].depth,
                  trace |-> holder[a].trace, origin |-> holder[a].origin])
    /\ UNCHANGED <<registry, traces>>

\* fire_and_reschedule: a stored timer invokes its workflow tool, which may fail,
\* with a trace of its own and without a check that its grants cover the tool; it
\* stays or goes as Scheduler says.
FireTimer(s, r) ==
    /\ Free(s) /\ Mint
    /\ r.w \in registry
    /\ calls' = {Call("timer", r.w, r.root)}
    /\ \/ InvokeWorkflow(s, r.w, [RootEnv(r.caps) EXCEPT !.root = r.root])
       \/ UNCHANGED holder
    /\ timers' \in {timers, timers \ {r}}
    /\ UNCHANGED <<registry, intents>>

\* InlineRunner::replay of an intent whose run is gone, at boot: as for a timer.
Replay(s) ==
    /\ intents[s] # NoIntent /\ holder[s] = Idle
    /\ Mint
    /\ intents[s].w \in registry
    /\ calls' = {Call("runner", intents[s].w, intents[s].root)}
    /\ \/ InvokeWorkflow(s, intents[s].w, [RootEnv(intents[s].caps) EXCEPT !.root = intents[s].root])
       \/ UNCHANGED holder
    /\ UNCHANGED <<registry, timers, intents>>

\* A run ends and closes its intent, which stays, for the next boot, if the run
\* was cancelled or the write fails.
EndRun(s) ==
    /\ holder[s].kind = "run"
    /\ holder' = [holder EXCEPT ![s] = Idle]
    /\ intents' \in {intents, [intents EXCEPT ![s] = NoIntent]}
    /\ UNCHANGED <<registry, timers, traces, calls>>

\* ConfigReloadTool: another tool set in the live registry.
Reload(tools) ==
    /\ tools # registry
    /\ registry' = tools
    /\ UNCHANGED <<holder, timers, intents, traces, calls>>

\* The process dies; timers and intents are on disk.
Crash ==
    /\ \E s \in Slots : holder[s] # Idle
    /\ holder' = [s \in Slots |-> Idle]
    /\ UNCHANGED <<registry, timers, intents, traces, calls>>

Next ==
    \/ \E s \in Slots, w \in WorkflowTools, c \in Sessions : Chat(s, w, c)
    \/ \E t \in Tools, c \in Sessions : CallTool(t, c)
    \/ \E r \in Slots, t \in Tools : StepWithGrant(r, t) \/ StepInherits(r, t)
    \/ \E a \in Slots : AskModel(a) \/ GiveUp(a)
    \/ \E a \in Slots, t \in Tools : AgentCall(a, t)
    \/ \E s \in Slots, r \in timers : FireTimer(s, r)
    \/ \E s \in Slots : Replay(s) \/ EndRun(s)
    \/ \E tools \in Registries : Reload(tools)
    \/ Crash

Spec == Init /\ [][Next]_vars

-----------------------------------------------------------------------------
(* Properties.                                                             *)

\* Every tool call, however far down the chain of runs, agents, timers, intents
\* and replays, is of a tool that the session it descends from was granted:
\* "capabilities only attenuate, never amplify" (capability.rs).  The exception is
\* the workflow tool that runner:spawn, a replay or a timer names, which nothing
\* checks: there it is the right to spawn, or to schedule, that the session must
\* have had, and what the workflow's own steps call is bounded as before.
AuthorityNeverGrows ==
    \A c \in calls :
        \/ CheckAccess(c.root, c.tool)
        \/ c.by = "runner" /\ c.tool \in WorkflowTools /\ CheckAccess(c.root, Spawn)
        \/ c.by = "timer"  /\ c.tool \in WorkflowTools /\ CheckAccess(c.root, Schedule)

\* Every holder works in the trace of the request, timer or replay it descends
\* from: a trace id is minted once and then propagated (execution_context.rs).
OneTrace == \A s \in Slots : holder[s].trace = holder[s].origin

\* attenuate and child_scope are two implementations of one rule.  (Rules and
\* globs are pure functions: it is enough to ask before anything has happened.)
RulesAgree ==
    traces = 0 => \A p, c \in SomePatterns : Covers(p, c) <=> Matches(p, TextOf(c))

\* glob_matches, which goes back to the last star only, decides what its
\* patterns mean, in texts without a star of their own.  (A pattern's star takes
\* one in the text for its own character and then covers nothing else: "*" does
\* not match "*a".)
GlobsMatch ==
    traces = 0 => \A p \in SomeGlobs, t \in SomeTexts :
                    StarFree(t) => (GlobGreedy(p, t) <=> GlobMeans(p, t))

=============================================================================
