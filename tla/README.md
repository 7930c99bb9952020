# A TLA+ model of the konf kernel

konf runs *workflows*: YAML graphs of tool calls.  A server process loads them,
executes them concurrently, starts some of them from timers, lets workflows
spawn others in the background, and keeps a journal, timers and spawn records
on disk so that a restart does not lose them.  This directory models the parts
of the kernel whose correctness depends on the order in which concurrent tasks,
transactions, cancellations and crashes happen.

* `*.tla` without a prefix: the specifications.  `MC*.tla` and `*.cfg`: the
  instances TLC checks.  `*Proofs.tla`: theorems checked by TLAPS.
* `PROJECT.json`: components, runs, the map from definitions to source lines,
  mutants, findings, hazards, theorems.

## 1. Inventory

| component | state | operations | hard behaviour | module |
|---|---|---|---|---|
| scheduler (`konf-runtime/src/scheduler.rs`, `konf-init/src/schedule.rs`) | two redb tables, a poll loop | schedule once / fixed / cron, cancel, tick, reload, shutdown | a tick reads, fires and writes in separate transactions; crashes; schedules.yaml registered while it polls | Scheduler |
| runner (`konf-tool-runner`, `konf-runtime/src/runner_intents.rs`, replay in `konf-init/src/lib.rs`) | in-memory registry of runs, durable intents | spawn, wait, cancel, replay at boot | the caller, the task, cancel, waiters and replay race; crashes between two writes; failed transactions | Runner |
| executor (`konflux-substrate/src/executor.rs`, `workflow.rs`) | JoinSet, bounded channel, reachable/executed sets, counters | spawn, chain, join, catch, repeat, cancel | two unordered event sources decide the end; capacity; joins; cancellation | Executor |
| runtime (`konf-runtime/src/runtime.rs`, `process.rs`, `konflux-substrate/src/engine.rs`) | process table, tokens, event bus, journal rows | start, start_streaming, cancel, gc, timeout, reconciliation | four tasks per run; a timeout racing a result; a client that disconnects; crash in the reconciliation | Runtime, RunRecord |
| journal (`konf-runtime/src/journal/`, `konf-tool-memory-surreal/src/journal_store.rs`) | events and four indexes in redb, a mirror, subscribers | append, five read paths, expire and sweep, fan out, subscribe | sequence numbers after a sweep, live subscription racing appends, one of two stores failing | Journal, Audit |
| dispatcher, hooks, event bus (`dispatcher.rs`, `hooks.rs`, `event_bus.rs`) | active nodes of a run, broadcast channel | dispatch with an idempotency key, node events | a retry of a call that already ran, a lagging receiver | Audit |
| scope, capabilities, envelope (`scope.rs`, `capability.rs`, `envelope.rs`), guards (`guard.rs`) | none | match, attenuate, child scope, validate_start, evaluate | the same rule written twice, globs | Capabilities, Guards |
| what carries rights: workflow tool, LLM tool, runner, timers, MCP and chat requests | runs, agents, intents, timers | start, call, spawn, schedule, replay | scopes rebuilt from envelopes and from disk, several hops from the session | Authority |
| parser (`konflux-substrate/src/parser/`, `workflow.rs`) | none | validate, build the dependency graph, compile | cycles and reachability, two validators | Parser |
| boot, reload, MCP sessions (`konf-init`, `konf-mcp`) | registries, guards, a watch channel | boot steps, config:reload, list_tools | overlapping reloads, files edited meanwhile, a missed notification | Boot |
| HTTP backend, MCP client, memory, shell, HTTP, embedding and secret tools, expressions and templates | connections | translate requests | mostly I/O | not modelled, but for a chat request (Authority) and its stream (Runtime) |

**How they interact.**  A timer or a client calls `Runtime::start` (or
`start_streaming`), which inserts an entry in the process table, journals the
start and spawns a supervisor; the supervisor runs `Engine::run`, which spawns
an executor; the executor spawns one tokio task per branch.  A step's tool may
be `runner:spawn`, which persists an intent and runs a workflow in the
background, or `schedule:create`, which inserts a timer.  Boot reconciles the
journal, starts the poll loop, loads the workflows, replays the intents and
registers `schedules.yaml`, the last three with the poll loop running.

**Dropped futures.**  Whoever awaits one of these calls may be dropped at the
await: by a step's timeout (executor.rs:639), by the shutdown of an executor's
tasks, by a client that disconnects.  A redb transaction is a blocking task and
commits all the same; what the caller had left to do is not done.  The three
places where that matters are actions: `CallerDropped` in Runner (runner:spawn
storing its intent) and in Audit (an append between its commit and its mirror or its
announcement), `StarterDropped` in Runtime (start journalling).

**What makes each part correct.**  Scheduler: the two tables agree, no timer is
lost, none fires early, a cancelled one stays gone, a due one is served.  Runner: an
accepted run is executed at least once whatever crashes, its record never
claims work that nobody does, its first terminal state stands, the replay limit
bites and not too early, a waiter is woken.  Executor: no more tasks than the
limit, Done only when nothing is outstanding, joins respected, nothing
forgotten, the step budget, termination, cancellation.  Runtime: one verdict and
one terminal row per run, across crashes; no zombies; every run ends.  Journal:
indexes and read paths agree, a recorded call is not run again, a subscription
and the mirror keep up.  Authority: nobody calls a tool that the session they
descend from was not granted.  Parser: it accepts the rooted DAGs and nothing
else.  Boot: the registry is what the files say, and clients learn of it.

## 2. The modules

### Scheduler

`timers` and `byId` are the tables TIMERS and TIMERS_BY_ID; each write transaction is one
action (`InsertNew`, `Cancel`, `Reschedule`).  The tick is cut at its awaits: `Wake`
captures the time, `CollectDue` reads the due timers, `Fire` or `FireMissing` takes them in
key order, `Reschedule` commits the next fire time, so that `Cancel`, `StorageError` and
`CrashRestart` come between any two.  `boot`, `seen` and `entry` are `register_schedules`:
one listing of the cron timers' keys (workflow and expression), which is not updated
afterwards, then a loop over the entries of the file, in which an entry whose key was listed
is skipped (`SkipEntry`), any other inserted (`RegisterSchedule`), and an insert that fails
passed over (`RegisterFails`).  Entries with one key therefore get a timer each, at the
first boot, and none at the next.  The clock is a bounded counter; the instants a cron
expression matches are a constant.  A job's record is kept in `rec` beside the tables
because it never changes while the job is stored.

### Runner

An *attempt* is one pass of `spawn_with_id`, by `runner:spawn` or by the replay
loop.  Its caller (`Persist`, `Launch`, `RegisterHook`) and the task it starts
(`TaskStart`, `TaskFinish`, `IntentGet`, `IntentPut`) are processes of their own.
A caller may be dropped while it stores the intent (`CallerDropped`): the write
goes on, nobody launches the task, and the slot stays pending (`Abandoned`).
`slots` is the RunRegistry (`hook` names the attempt whose abort handle it
holds), `intents` the durable table.  A waiter keeps the slot it found, so a
replay that replaces the slot leaves it with an orphan.  `notify_waiters` wakes
who is parked and nobody else.  Every intent transaction can fail; a crash keeps
only `intents`, and a workflow's file may be gone afterwards (`loaded`).

### Executor

One `select!` loop and one task per spawned node (the loop spawns a node once, so
a task is named by it).  A task runs a chain of steps: `Begin`, then one of
`Repeat`, `Succeed`, `EvalFails`, `Fail`, then `Send` of its messages through the
bounded channel, where it may block.  `CanRun` is the join policy, `HasRoom` the
capacity test, `Taken` the edges taken for a given truth of the conditions.
The scan after a `Node` message is one action per node, because `can_run`
awaits.  A tool call (input resolution, capability check, retries, timeout) is one
step with any outcome.  Workflows are a constant, and the assumption on them is
what the compiler guarantees, no more.

### Runtime and RunRecord

`RunRecord` says what the runtime promises of one run: it begins once, gets one
verdict, is called cancelled only on request, and the journal receives one
terminal row for it, which is the verdict or, if the process died first,
`failed`.  `Runtime` has the code: `Validate`, `Insert`, `JournalStarted`,
`Spawn` are start's steps, and `StarterDropped` is the loss of its caller while it
awaits the journal; `RunReturns`, `RunTimesOut`, `StreamEnds`,
`StreamBreaks`, `Announce`, `JournalEnded` the supervisor's; `ReconcileScan`,
`ReconcileAppend`, `BootDone` the boot's.  `Rec(r)` maps a run to RunRecord and
`RunsKeepRecord` is the refinement.  The executor appears through its promise
only: it ends at any time, as cancelled only if its token fired, and fairness is
assumed of the cancelled end alone, which is what `CancelEnds` establishes for
Executor.  `wait` and the monitoring calls only read the table and are not
actions.

### Journal and Audit

`Journal` has the five redb tables, the two transactions that write them (`AppendRow`,
`DeleteExpired`) and the read paths as operators: `QueryByRun`, `QueryBySession` and
`GetByIdempotencyKey` go through an index, `Recent`, `Query` and `Count` scan the events.
The order of their answers is the one list of the ids that ascends, or descends.  `NextId`
is the last key plus one, so numbers come back after a sweep.  `Audit` has the processes:
tool calls (`BeginDispatch`, `Lookup`, `Invoke`), the executor's hooks, the runtime's own
rows, the writers that commit a row and announce it in a later step, the fan-out, the
sweeper, one subscription with its replay and live phases, crashes and failing transactions.
Under the fan-out `Store` commits to the primary, `PassOn` is its append resumed, which
spawns the secondary's write, and `MirrorWrite` is that write, which succeeds, fails and is
counted, or panics and is not; between the first two the caller may be dropped.  `Reconcile`
is the boot's: the fan-out forwards reconcile_zombies to the primary, whose rows then bypass
the mirror.  Which runs are found open is Runtime's matter; Audit lets any started run be.
A call's slot is free again before its row commits, as the appends race one another in the
code too.  Only `JournalAppended` events are kept on the bus; the others use up its
capacity, so it may lag at any time (`Lag`). Rows with a `valid_to` are written by other
users of the trait only, rows with an idempotency key by the dispatcher only.

### Capabilities, Guards and Authority

`Capabilities` has patterns and the two implementations of attenuation (`Attenuate` of the
envelope, `ChildScope` of the scope, which reads a child's pattern as if it were a tool
name); `Guards` has the glob matcher (`GlobGreedy`, the loop as a function of its state,
beside `GlobMeans`, what a pattern means), the predicates (`not`, `all` and `any` over
simple ones) and the order of rules.  `Authority` follows rights through the kernel.  A
*holder* is a live run or an `ai:complete` call, with its capabilities, the tools in its
scoped engine (or the tools the model was offered), its depth and its trace.  `Chat` and
`CallTool` are the ways in; `Step` and `AgentCall` are the two kinds of caller; `Invoke` is
what the invoked tool does with its envelope: start a nested run, an agent, a spawned run
with a durable intent, or a durable timer.  `FireTimer` and `Replay` rebuild a scope from
disk. `root` and `origin` remember the session's grants and the trace a holder descends
from; `calls` has the tool calls of the latest step that made any, those that the runner and
the timers make by themselves among them.  As in the code: the executor's envelopes carry no
metadata, so the depth of a nested run starts over; `runner:spawn` and timers name their
workflow as data, which is checked against the registry and not against the capabilities (so
that a session that may spawn or schedule, and nothing else, runs any workflow, with its own
rights); guards apply to calls through the dispatcher and the scoped engine, not to the
tools a model calls; `spawn_with_id` stores the parent's grants.  An MCP name stands for any
kernel name it may translate to.  Injected bindings (namespaces) are left out.

### Parser and Boot

`Parser` is pure: a schema is the deserialized YAML, `Validate`, `DependenciesOf`, `Compile`
and `ValidateWorkflow` are validator, graph, compiler and `Workflow::validate`.  The
depth-first searches are recursive functions from a call (the state it finds and its node)
to the state it leaves, `Each` the loop over a node's successors.  `IsRootedDag` is the
reference definition, without a search: a node lies after another if it is in every set that
the other leads into and that leads nowhere else (`After`); none lies after itself and all
others after the first.  `Boot` has the boot steps in order, any of which may end the
process, and `register_workflows` cut at every file (`Scan`, `Load`, `Register`), shared by
boot and by the calls of `config:reload`, which are concurrent jobs without a lock.  Files
are edited meanwhile.  An MCP session over stdio subscribes to the watch channel before its
handshake and starts its watching task after it.  `batch` is what is remembered of the calls
of config:reload that overlap: nothing if an edit or boot crossed them, else whether one has
failed or whether they found no `workflows/`; `before` is what they found registered.  The
scheduler, replay and reconciliation steps of boot are in Scheduler, Runner and Runtime.

## 3. The runs

| run | instance | shows |
|---|---|---|
| scheduler_safety | two jobs of any mode, one workflow with three entries in schedules.yaml (one written twice, one with another expression), time 0..2, one crash or failed transaction; 1.8 million states | tables agree; no timer lost, early, or back after cancellation; no entry of the file has two timers; every due timer is served |
| scheduler_cancel | one job | **violated**: `CancelStops` |
| runner_runs | one run with both its attempts, one waiter, three crashes, limit 2, one failed transaction, callers dropped at will | at-least-once, no stuck record, first terminal state, giving up, settlement, wake-up |
| runner_replay | one run, limit 1, two crashes | **violated**: `ReplayBounded` |
| executor_safety | 15 workflows (diamonds with error actions and repeats, all join policies, a triangle, a fan-out, a conditional chain with catch and repeat), capacity 3, channel 1, budget 4 | capacity, quiescence, budget, joins, nothing forgotten where there is room, termination, cancellation |
| executor_capacity | the same workflows, capacity 1 | **violated**: `NothingForgotten` |
| runtime_runs | a plain and a streaming run, limit 1 (so it is reached, and overrun by the race), callers dropped at will, one crash, one failed append | refinement of RunRecord, no zombies, no unwatched run but those start left behind, every other run ends |
| runtime_timeout | the same, no faults | **violated**: `RunawayKilled` |
| audit_journal | two rows by any writer, one call, one node, one key, time 0..1, no journal, redb or fan-out, a subscription, callers dropped at will, one crash or failure, runs reconciled at boot; 1.8 million states | indexes, read paths, idempotency, subscription, mirror |
| audit_subscribe | two rows, no faults | **violated**: `SeesEveryRow` |
| authority_calls | six tools, three sessions, three holders, one timer, two traces, depth 2, a reload and crashes; patterns of up to three words, globs of up to four characters and texts of up to three, stars in either | rights never grow (but for the workflow that a right to spawn or to schedule includes), one trace, the two attenuation rules and the glob matcher (on texts without a star) are right |
| boot_reload | two files, one edit (content, removal, unreadable, directory, tools.yaml), two reloads, one stdio client; all schemas of three nodes with up to two `then` targets each and a `catch` | reload, client, validator, compiler |

**Why the bounds are enough.**  The races are between the steps of one object
(a timer, a run) and one other actor, so one or two objects reach them; the
second object is there for what one does to another (a tick's list of due timers,
the run limit, a reconciliation interrupted half way).  Three crashes with limit
2 let a run be replayed, given up and still crash once more.  A crash plus a
failed append interrupts a reconciliation.  Channel size 1 makes every second
message block; budget 4 is exceeded by some workflows and not by others; four
nodes are a fan-out with a join; capacity 3 is too small for a diamond, whose
targets are put off, and enough for the triangle, the fan-out's three nodes and
hence for `NothingForgottenWithRoom`.  Time 2 lets a fixed timer fire twice.  Two journal
rows are the one that is looked for and the one that overtakes it or takes its
number.  Three holders are a run, what it starts, and what that starts; the
theorems below do without these bounds.  Two reloads overlap; one edit falls before,
between or after any two of their steps.

**Fairness.**  Tokio schedules every ready task, so steps of tasks that are not
waiting for anyone are weakly fair.  `Tick` and the poll loop: time passes and
`sleep` returns.  `TaskFinish`: a workflow's invocation ends because steps and
workflows carry timeouts.  In Executor only the main loop is fair; that tasks and
tools proceed (`TasksProceed`) is the premise of `Terminates`, and `CancelEnds` does
without it, as `RunsEnd` does in Runtime.  In Boot the jobs contain no wait, the
watching task is a tokio task, and a client that is told to list the tools does; the
steps of boot need no fairness.  `CancelArm`
is weakly fair in `LoopFairSpec` because `select!` picks among ready arms at
random.  `SupStep` includes the timeout, whose timer fires.  The steps of a caller
(`StarterStep`, `Persist`, `Launch`) are fair as long as it is there: the action that
drops it is possible at its await and never obliged.  Crashes, faults, clients,
cancellations, dropped callers and dropped streams are never fair.

CHECK_DEADLOCK is off where a server with nothing left to do stops (all ids of
the model used, clock at its bound); Executor checks for deadlock.

## 4. Proofs

Every theorem holds for all values of the constants that satisfy the named assumptions
of its module; these say that bounds are numbers, that identifiers are distinct, of a
workflow what the compiler guarantees, and of a schema what deserialization guarantees.
All invariants and action properties that the passing runs check
are proved; so is the refinement of RunRecord.

**SchedulerProofs.**  `TypeCorrect`; `IndexesAlwaysAgree`: `IndexesAgree` is not
inductive, because `Reschedule` deletes the key it remembers and overwrites the index,
which is right only if nobody moved the job in between.  `IndexInv` adds
`TickOwnsItsTimers` (the tick holds one entry per job, and the stored fire time is that
entry's or none).  `NoTimerIsLost`, `OnceFiresOnce`, `YamlTimersOnce`, `NeverFiresEarly`
and `CancelledStaysGone` follow from `TimerInv`, which adds: a stored or collected fire
time is as far from the last fire as the mode says (`StoredOnTime`); a commit that is
about to happen follows a fire and has no next time only for a one-shot or an exhausted
cron expression (`WriteFacts`); what the tick holds is still stored unless cancelled
(`HeldIsStored`); a one-shot's fires are paid for by faults (`OnceBudget`); every live
timer of the file is in the listing that registration works from, or its entry is one
the loop has passed (`YamlSeen`).  `YamlOnce` is about entries, not keys: entries with
one key have a timer each, which the code permits.  It does not count a timer that was
cancelled; that a cancelled timer may come back is `CancelStops`.  The proof
goes over six kinds of steps (`StepKinds`: quiet, insert, cancel, collect, fire,
commit) instead of every action.

**RunnerProofs.**  `AtLeastOnceHolds`, `NoRunIsStuck`, `GivesUpOnlyLate` and the action
property `TerminalStateStands`.  `RunnerInv` adds to the properties that an attempt past
its first write finds its intent on disk (`OnDisk`), that the counts on disk and in the
replay queue lag behind the crashes (`CountsLag`), that an unused id left no trace
(`FreshIds`), that while runner:spawn stores an intent nothing but the new slot bears
its id (`Storing`), and that a replay about to return has started a task (`Started`).
`NoStuckRun` has one exception, the run whose caller was dropped at the await of its
intent.  No other path leads to a record that nobody works on; such a run was never
accepted, nobody ever launched it, and it is on disk for the next boot unless its write
is still under way or failed (`SomebodyWorks` and `OnDisk` together).

**ExecutorProofs.**  `TypeCorrect` (proved, not part of a run), `ConcurrencyBounded`,
`DoneQuiescent`. `TaskInv` says which edges a task has still to report.  `DoneIsQuiescent`
needs counting: `QInv` says that `total_spawned` is the number of executed nodes, that
`total_finished` plus the `Node` messages in the channel is the number of tasks that have
returned (`Counts`), that a task not in the JoinSet was joined (`JoinedReturned`), that the
last message of a channel nobody will write to again is a `Node` (`LastIsNode`), and how the
loop is left (`DoneExit`).  At Done the counters are equal, hence no `Node` message is in
flight, hence none at all.  `JoinsBeginOnce`: a join's node runs in its own task only,
because a task chains only into a node with one dependency, and a met policy stays met
(`CanRunStays`). `StepsAreBudgeted`: the steps counted so far plus those of the tasks not
yet joined are the steps begun (`BudgetInv`); this needs lemmas about a sum over a function,
whose recursive definition is shown to have a solution by its least counterexample
(`SumsExist`).  `NothingIsForgottenWithRoom`: with room for all, a reachable node that can
run is in the scan, or a `Node` message that starts another scan is still to come
(`LookedAtAgain`).  `NeverGetsStuck`, the safety half of `Terminates`: while `execute` runs,
the guard of an arm, of the scan or of a task holds.  The loop is at its `select!` only with
tasks to join or counters that differ (`WaitInv`); by `Counts` they then differ by `Node`
messages in the channel, and a task that finds the channel full has a reader.

**RuntimeProofs.**  `RunningAlwaysWatched`, `CancelledHasStopped`, `NoZombieSurvivesBoot`,
and the refinement: `RunsAreRecords` for all runs at once and
`RuntimeImplementsRunRecord`, `Spec => Rec(r)!Spec` for each run.  `RuntimeInv` says
where table, executor and supervisor can be together (`Phases`), that an id in use by
this process did not die with an earlier one, and that a refused run's starter has
returned (`Ids`), that a run closed in the journal
is one whose supervisor has finished or that died (`RecordOnce`), and that boot starts
nothing before it is done and knows every run it has still to close (`BootFacts`).
`RunningIsWatched` excepts what start leaves behind (`LeftBehind`), and says that
nothing works on that.  `RecStep` maps each action to a step of RunRecord or to a stutter.

**JournalProofs** has the lemmas that AuditProofs uses: `NextId` is free, appending and
deleting keep the indexes, the lists that `OldestFirst` and `NewestFirst` choose exist
and are unique, and from the indexes' agreement what each read path returns
(`IndexReads`).

**AuditProofs.**  `IndexesAlwaysAgree`, and from it `ReadPathsAlwaysAgree`: `Numbered` (the
sequence numbers are bounded) makes `NextIdIsFree`, and a reused number finds no index row
of its former owner, because `DeleteExpired` removed them all.  `SettledOnceAlways`: a row
with a key never expires (`KeyedRowsStay`), and a call which began with its key on record
still finds it at its lookup (`KnownStaysKnown`).  `MirrorIsFaithful`: entries in the hands
of different writers are different (`EntriesApart`), a row is awaited by its append, on its
way to the mirror, in it, or never to come there, and only one of these (`MirrorApart`), and
the rows committed by this process, less the last kind, are as many as those mirrored, under
way and dropped (`MirrorCounts`).  Never to come are the rows of the boot's reconciliation,
those whose caller was dropped at the await of the commit, and those whose secondary
panicked (`Unseen`); the counter misses just these.  `SubscriptionCatchesUp`: every row the
subscriber wants has been passed on, is on its list or on the bus, or has a writer that will
announce it (`NothingBetween`).  That the newest row is the one found for an announcement
rests on `NewestRow`; a sweep may take the announced row away, and then nothing is wanted of
it.

**AuthorityProofs.**  `AuthorityStaysBounded`, `TraceIsKept`, `RulesAlwaysAgree`,
`GlobsAlwaysMatch`.  `AuthInv` says of every holder, intent and timer that its
capabilities are attenuated from its root session's, of an intent or timer that this
session was granted the tool that stored it (`Stored`), and of an agent's tools, which are
not checked again when it calls them, that they are granted to it.  The calls that no
capability covers, the workflow tools invoked by the runner, by replay and by timers, are
in the theorem: their session had `runner:spawn`, or `schedule:create`.  It rests on lemmas
about patterns: matching is transitive through a pattern read as a name
(`MatchTransitive`), hence attenuation composes (`AttenuateTransitive`) and access follows
it (`AccessTransitive`).  `CoversIsMatches` is the equality of the two rules.  The glob
matcher returns to the last star only.  `Verdict` says in closed form what the loop
answers from each of its states; it solves the loop's equation (`VerdictSolves`) and
nothing else does (`OnlySolution`, by a counterexample that is furthest along).  Forgetting
the earlier stars is right because of `EarlyFits`: up to the next star, what fits further
on in the text fits where the loop is.

**BootProofs.**  `ReloadAlwaysTakesEffect`.  `BootInv` says of calls that no edit has
crossed, however they overlap: a registered tool is one the files define, or some call
has listed it and has still to remove it (`Sound`); what a call is about to register is
what the disk has (`Fresh`); a tool the files define is registered, or some call has
still to load its file, as long as none has failed (`Complete`); a call that is about to
notify has applied the guards (`RightGuards`); and of calls without a directory, that all
is as before (`AllKept`).

The same module proves the parser right about every schema that deserializes (`IsSchema`),
however many nodes it has: `ValidatorSound` and `CompilerSound`, and from them
`ValidatorAlwaysDecides` and `CompiledAlwaysValid`.  Both searches descend by the number of
nodes left to visit; an induction over it is the choice of a least counterexample
(`Descent`), and gives that the equation of the search has one solution (`FixedPoint`,
`DfsIs`, `ColourIs`).  `Outcome` is what a call does, given that everything on the path
leads to its node and that the nodes finished so far are closed under branches and hold no
set that leads on within itself (`Asked`, `Tidy`): it visits only what lies after its node,
reports a cycle only if there is one, and otherwise leaves its node finished and the path as
it was.  At the end all that was visited is finished, so it is all that lies after the first
node (`SearchDecides`).  The compiled edges lead where the branches of `then` do
(`EdgesAre`), which is less than then and catch, so that in the second search a gray step is
never met again (`NoCycleMet`).

**Only model-checked.**  Liveness (`DueFires`, `EveryRunSettles`, `ParkedIsWoken`,
`Terminates`, `CancelEnds`, `RunsEnd`, `PlainRunsRecorded`, `ClientCatchesUp`): fairness
and ENABLED are outside this prover.

## 5. Disagreements between code and documentation

Shown by a violated property:

* `cancel:schedule` between a tick's read and its write is undone (`CancelStops`).
* The replay limit never bites: replay stores the count and then the respawn
  overwrites the intent with count 0 (`ReplayBounded`).
* A node put off at capacity is never run and the workflow is reported Done
  (`NothingForgotten`).
* The workflow timeout reports a run failed and leaves it running, beyond the
  reach of cancel (`RunawayKilled`).
* A journal subscription looks up the newest row for each announcement and so
  skips a row that another one overtakes (`SeesEveryRow`).

Seen while modelling, plain from the code or from a trace, not kept as runs:

* A fixed timer's runs overlap: the next fire time counts from the start of the
  invocation (scheduler.rs:109-110 and schedule.rs:76 say otherwise).
* `runner:cancel` aborts the task that would close the intent: after a restart
  the cancelled run is started again (registry.rs:52-53, "will not transition
  further").  Cancelling before the hook is registered stops nothing
  (registry.rs:47).
* `wait_terminal` reads the record and then registers with the Notify; an end in
  between is missed until the timeout (registry.rs:188-192 against 180-181).
  `ParkedIsWoken` therefore speaks of waiters that are already parked.
* Boot replays intents of the running process, too, if a timer fires first
  (lib.rs:289, "from the previous run").
* A chained step runs without `can_run`, even if its one dependency has not
  completed (executor.rs:391 against workflow-reference.md:582).  `JoinOnce` is
  about nodes with two dependencies or more.
* The workflow's output is that of the task joined last, not of the node with
  `return` (workflow-reference.md:585); `select!` is not biased although the
  comment gives cancellation priority (executor.rs:165).
* The compiler never sets a join policy from YAML; `gc` of intents and of the
  process table has no caller.
* `start_streaming` leaves its entry Running until the process ends when the grant is
  refused (runtime.rs:702), and so do `start` and `start_streaming` when their caller is
  dropped at the await of the journal (runtime.rs:396, :667), after the insert and before
  the supervisor exists; the entry counts against the namespace's limit and cancel cannot
  end it.  `RunningIsWatched` shows that there is no third path.
* `runner:spawn` whose caller is dropped while the intent is stored leaves a Pending
  record that no task will ever change, in this process; the next boot replays it.
* Under the fan-out some rows reach the primary only and are not counted as dropped:
  those of the boot's reconciliation (fanout.rs:130), those of a caller dropped at
  fanout.rs:97, and those of a panicking secondary, which fanout.rs:48-50 admits.
* Two entries of schedules.yaml with the same workflow, expression and namespace get a
  timer each (lib.rs:417-418 speaks of not registering duplicates): `existing_keys` is
  read once and not updated in the loop.
* `runner:spawn`, `schedule:create` and what follows from them invoke `workflow:` tools
  that the caller's capabilities need not include (inline.rs:100, scheduler.rs:534).
* Two starts may overrun `max_active_runs_per_namespace` (check, then insert).
* A streamed error whose text contains "cancelled" is recorded as Cancelled;
  start matches the error's type.  RunRecord's `Streamed` marks the difference.
* The fan-out does not forward `get_by_idempotency_key`: with a mirror configured,
  retried calls run again.  Two calls with one key that overlap both run.
* `max_child_depth` cannot stop recursion: a nested run's depth starts over
  (scope.rs:162, workflow_tool.rs:87).
* A reload that meets an unreadable file ends after every workflow tool was
  removed, and notifies nobody.  An edit in the middle of a reload may leave a tool whose
  file is gone.  With `workflows/` gone `config:reload` answers `"reloaded": true` and
  keeps every tool (lib.rs:735-741).
* `config:reload` cannot remove the last guard: an empty guard map is ignored
  (lib.rs:827; docs/architecture/tools.md:186 lists guards among what it reloads).
  Resources of deleted files stay.  MCP sessions over HTTP announce `list_changed` and have
  no watcher.
* `catch: do: <tool>` is validated and compiles to the default; `entry: true` and
  `join` are ignored by the compiler (workflow-reference.md:311, :267);
  `Workflow::validate` has no caller outside tests.  Data dependencies are not
  part of the cycle check.
* The hooks' `active_nodes` keeps a node whose step was aborted.
* A guard's pattern does not match every text it should when the text itself contains a
  `*`: guard.rs:245 compares characters before it looks for a star, and takes the text's
  star for the pattern's, so that `*` does not match `*a` (guard.rs:230, "`*` (any
  chars)").  The proof of `GlobsMatch` met it; the property speaks of texts without stars.
* A streaming run whose client leaves is shown Failed while its executor works on,
  and gets its terminal row only at the next boot.

## 6. Left out

Log messages, metrics, payloads, expression and template evaluation, YAML syntax and network
I/O are data.  In Scheduler: rows that do not decode and the time between computing and
committing a fire time.  In Runner: the namespace index, and a panic of the spawned task
(what it invokes is a workflow, whose tools run in tasks of their own).  In Executor: a tool
call with its retries, backoff, deadline and timeout is one step with any outcome; a
`repeat` variable that shadows a step's name; stream events.  In Runtime: a receiver that is
held and never read, which blocks the forwarder; nested runs (no entry is given a parent).
In Audit: queries against the mirror, which nobody makes; the sums of `aggregate`.  In
Authority: namespaces and roles, and the timers of schedules.yaml, which carry the
capabilities that the operator wrote there and descend from no session.  In Parser: the text
of durations and conditions; "skip" stands for `skip` and `continue`.  In Boot: HTTP
sessions.

Not modelled at all: the budget (nothing charges it), the bisimulation helpers (used by
tests; the chain check its comment promises is not there), the builtin, HTTP, shell,
embedding, secret and memory tools and the MCP client (I/O on behalf of one call), the
SurrealDB queries, products and deployment files.

## 7. Plan

A *Retry* module: attempts, backoff, deadline and cancellation of one step.
