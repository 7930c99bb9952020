------------------------------ MODULE Executor ------------------------------
(***************************************************************************)
(* The parallel workflow executor, crates/konflux-substrate/src/           *)
(* executor.rs: the select loop of Executor::execute, and the tokio tasks  *)
(* of spawn_node, which run a chain of steps each and report through the   *)
(* bounded channel finished_tx.                                            *)
(*                                                                         *)
(* executed_nodes lets the main loop spawn a node at most once, so a task  *)
(* is named by the node it was spawned for (its root).  A step's tool call *)
(* and the expressions of a workflow have arbitrary results.               *)
(***************************************************************************)
EXTENDS Integers, Sequences, FiniteSets, FiniteSetsExt, Functions

CONSTANTS
    Nodes,         \* step ids
    Workflows,     \* compiled workflows, see WorkflowType
    MaxConcurrent, \* EngineConfig.max_concurrent_nodes
    MaxSteps,      \* EngineConfig.max_steps
    ChannelSize    \* EngineConfig.finished_channel_size

Return  == "return"

\* The part of the workflow IR the executor's control depends on.  edges are in
\* priority order; cond marks those that carry a condition.  repeat 0 is none;
\* min and step count only for the policy quorum and the action goto.
WorkflowType ==
    [entry : Nodes,
     edges : [Nodes -> Seq([to : Nodes \cup {Return}, cond : BOOLEAN])],
     deps : [Nodes -> SUBSET Nodes],
     join : [Nodes -> [policy : {"all", "any", "quorum", "lenient"}, min : Nat]],
     onError : [Nodes -> [action : {"fail", "skip", "fallback", "goto"}, step : Nodes]],
     repeat : [Nodes -> Nat]]

\* EngineConfig::validate, and what the compiler yields.
ASSUME ExecutorAssumption ==
    /\ IsFiniteSet(Nodes)
    /\ MaxConcurrent \in Nat \ {0}
    /\ MaxSteps \in Nat \ {0}
    /\ ChannelSize \in Nat \ {0}

ASSUME WorkflowsAssumption == \A w \in Workflows : w \in WorkflowType

VARIABLES
    wf,        \* the workflow being executed
    status,    \* "running", or how execute returned
    main,      \* the main loop: at its select!, or in the scan of a Node message
    scan,      \* nodes the scan has still to look at
    reachable, \* reachable_nodes
    executed,  \* executed_nodes
    active,    \* active_tasks, the JoinSet: tasks not joined yet
    finished,  \* the channel finished_tx / finished_rx
    spawnedN,  \* total_spawned
    finishedN, \* total_finished
    steps,     \* steps_count
    output,    \* final_output: the node whose value it is
    completed, \* nodes with an output or an error in State
    task,      \* the spawned tasks
    cancel,    \* the CancellationToken
    starts     \* history: how often each step was begun

vars == <<wf, status, main, scan, reachable, executed, active, finished, spawnedN,
          finishedN, steps, output, completed, task, cancel, starts>>

loop   == <<status, main, scan, reachable, executed, active, spawnedN, finishedN, steps, output>>

Idle   == [pc |-> "idle", node |-> "none", iter |-> 0, steps |-> 0, out |-> {}, result |-> "none"]
New(n) == [Idle EXCEPT !.pc = "check", !.node = n]

Init ==
    /\ wf \in Workflows
    /\ status = "running" /\ main = "select" /\ scan = {}
    /\ reachable = {wf.entry} /\ executed = {wf.entry} /\ active = {wf.entry}
    /\ finished = <<>>
    /\ spawnedN = 1 /\ finishedN = 0
    /\ steps = 0 /\ output = "null"
    /\ completed = {}
    /\ task = [n \in Nodes |-> IF n = wf.entry THEN New(n) ELSE Idle]
    /\ cancel = FALSE
    /\ starts = [n \in Nodes |-> 0]

-----------------------------------------------------------------------------
(* The main loop.                                                          *)

\* can_run: the join policy over the data dependencies.
CanRun(n) ==
    LET done == Cardinality(wf.deps[n] \cap completed)
        join == wf.join[n]
    IN \/ wf.deps[n] = {}
       \/ join.policy = "all" /\ done = Cardinality(wf.deps[n])
       \/ join.policy = "any" /\ done > 0
       \/ join.policy = "quorum" /\ done >= join.min
       \/ join.policy = "lenient"

\* Mutant: every finished task makes room for one more, joined or not.
HasRoom_CountsFinished == spawnedN - finishedN < MaxConcurrent

\* active_tasks.len() counts tasks that ended but were not joined yet.
HasRoom == Cardinality(active) < MaxConcurrent

\* spawn_node, and the bookkeeping before it.
SpawnNode(n) ==
    /\ executed' = executed \cup {n}
    /\ active' = active \cup {n}
    /\ spawnedN' = spawnedN + 1
    /\ task' = [task EXCEPT ![n] = New(n)]

NoSpawn == UNCHANGED <<executed, active, spawnedN, task>>

\* The test at the end of each turn of the loop.
LoopCheck ==
    status' = IF spawnedN' = finishedN' /\ active' = {} THEN "done" ELSE "running"

AtSelect == status = "running" /\ main = "select"

\* Mutant: the tasks are waited for, not shut down.
CancelArm_Waits ==
    /\ AtSelect /\ cancel
    /\ \A n \in active : task[n].pc = "returned"
    /\ status' = "cancelled"
    /\ active' = {}
    /\ UNCHANGED <<wf, main, scan, reachable, executed, finished, spawnedN, finishedN, steps,
                   output, completed, task, cancel, starts>>

\* The cancellation arm.  The select! is not biased: any ready arm is taken.
CancelArm ==
    /\ AtSelect /\ cancel
    /\ status' = "cancelled"
    /\ active' = {}
    /\ UNCHANGED <<wf, main, scan, reachable, executed, finished, spawnedN, finishedN, steps,
                   output, completed, task, cancel, starts>>

\* The join arm: count the task's steps, take its output; an error or too many
\* steps shut the other tasks down.
JoinNext(n) ==
    LET t     == task[n]
        total == steps + t.steps
    IN
    /\ AtSelect /\ n \in active /\ t.pc = "returned"
    /\ UNCHANGED <<wf, main, scan, reachable, executed, finished, spawnedN, finishedN,
                   completed, task, cancel, starts>>
    /\ \/ /\ t.result \in {"failed", "cancelled"}
          /\ status' = t.result /\ active' = {}
          /\ UNCHANGED <<steps, output>>
       \/ /\ t.result \in {"some", "null"} /\ total > MaxSteps
          /\ status' = "max_steps" /\ active' = {} /\ steps' = total
          /\ UNCHANGED output
       \/ /\ t.result \in {"some", "null"} /\ total <= MaxSteps
          /\ active' = active \ {n} /\ steps' = total
          /\ output' = IF t.result = "some" THEN t.node ELSE output
          /\ LoopCheck

\* Mutant: only the nodes that waited on no other are looked at again.
RecvNode_FreeOnly ==
    /\ AtSelect /\ finished # <<>> /\ Head(finished).kind = "node"
    /\ finished' = Tail(finished)
    /\ finishedN' = finishedN + 1
    /\ main' = "scan" /\ scan' = {n \in reachable \ executed : wf.deps[n] = {}}
    /\ UNCHANGED <<wf, status, reachable, executed, active, spawnedN, steps, output,
                   completed, task, cancel, starts>>

\* The receive arm, FinishedInfo::Node: look at every reachable node again.
\* (The scan passes over executed ones without effect.)
RecvNode ==
    /\ AtSelect /\ finished # <<>> /\ Head(finished).kind = "node"
    /\ finished' = Tail(finished)
    /\ finishedN' = finishedN + 1
    /\ main' = "scan" /\ scan' = reachable \ executed
    /\ UNCHANGED <<wf, status, reachable, executed, active, spawnedN, steps, output,
                   completed, task, cancel, starts>>

\* One turn of the scan, in hash order; the tasks run on between can_run's awaits.
ScanNode(n) ==
    /\ main = "scan" /\ n \in scan /\ HasRoom
    /\ scan' = scan \ {n}
    /\ IF CanRun(n) THEN SpawnNode(n) ELSE NoSpawn
    /\ UNCHANGED <<wf, status, main, reachable, finished, finishedN, steps, output, completed,
                   cancel, starts>>

ScanEnd ==
    /\ main = "scan" /\ (scan = {} \/ ~HasRoom)
    /\ main' = "select" /\ scan' = {}
    /\ UNCHANGED <<wf, reachable, executed, active, finished, spawnedN, finishedN, steps, output,
                   completed, task, cancel, starts>>
    /\ LoopCheck

\* Mutant: a target is spawned as soon as it is named.
RecvNext_NoJoin ==
    LET n == Head(finished).node IN
    /\ AtSelect /\ finished # <<>> /\ Head(finished).kind = "next"
    /\ finished' = Tail(finished)
    /\ reachable' = reachable \cup {n}
    /\ IF HasRoom /\ n \notin executed THEN SpawnNode(n) ELSE NoSpawn
    /\ UNCHANGED <<wf, main, scan, finishedN, steps, output, completed, cancel, starts>>
    /\ LoopCheck

\* The receive arm, FinishedInfo::SpawnNext.
RecvNext ==
    LET n == Head(finished).node IN
    /\ AtSelect /\ finished # <<>> /\ Head(finished).kind = "next"
    /\ finished' = Tail(finished)
    /\ reachable' = reachable \cup {n}
    /\ IF HasRoom /\ n \notin executed /\ CanRun(n) THEN SpawnNode(n) ELSE NoSpawn
    /\ UNCHANGED <<wf, main, scan, finishedN, steps, output, completed, cancel, starts>>
    /\ LoopCheck

-----------------------------------------------------------------------------
(* A spawned task.                                                         *)

At(n, pc) == status = "running" /\ n \in active /\ task[n].pc = pc

\* The task goes on with step m: directly, without can_run or executed_nodes.
Continue(n, m) == task' = [task EXCEPT ![n].pc = "check", ![n].node = m, ![n].iter = 0]

\* The task has nothing left to run: messages for the edges in out, then Node.
Finish(n, out, result) ==
    task' = [task EXCEPT ![n].pc = "send", ![n].out = out, ![n].result = result]

\* Mutant: a continued step is not counted.
Begin_ChainFree(n) ==
    /\ At(n, "check")
    /\ \/ /\ cancel
          /\ Finish(n, {}, "cancelled")
          /\ UNCHANGED starts
       \/ /\ ~cancel
          /\ task' = [task EXCEPT ![n].pc = "run", ![n].steps = 1]
          /\ starts' = [starts EXCEPT ![task[n].node] = @ + 1]
    /\ UNCHANGED <<wf, loop, finished, completed, cancel>>

\* The head of the task's loop: stop if cancelled, else begin the step.
Begin(n) ==
    /\ At(n, "check")
    /\ \/ /\ cancel
          /\ Finish(n, {}, "cancelled")
          /\ UNCHANGED starts
       \/ /\ ~cancel
          /\ task' = [task EXCEPT ![n].pc = "run", ![n].steps = @ + 1]
          /\ starts' = [starts EXCEPT ![task[n].node] = @ + 1]
    /\ UNCHANGED <<wf, loop, finished, completed, cancel>>

\* set_output or set_error
Complete(m) == completed' = completed \cup {m}

\* The repeat condition is false and iterations are left.
Repeat(n) ==
    LET t == task[n] IN
    /\ At(n, "run")
    /\ t.iter + 1 < wf.repeat[t.node]
    /\ Complete(t.node)
    /\ task' = [task EXCEPT ![n].pc = "check", ![n].iter = @ + 1]
    /\ UNCHANGED <<wf, loop, finished, cancel, starts>>

\* evaluate_edges_targets when the conditions of the edges in truth hold: the
\* unconditional edges up to the first condition that holds, and that one.
Taken(m, truth) ==
    LET es     == wf.edges[m]
        fires(i) == es[i].cond /\ i \in truth
    IN {i \in DOMAIN es : /\ es[i].cond => i \in truth
                          /\ \A j \in 1..(i - 1) : ~fires(j)}

\* The step succeeded.  A single target that waits for at most one node is
\* continued in this task; other targets go to the main loop; Return and no
\* target at all end the path.
Succeed(n, truth) ==
    LET m     == task[n].node
        taken == Taken(m, truth)
        to(i) == wf.edges[m][i].to
        chain == {i \in taken : /\ taken = {i} /\ to(i) # Return
                                /\ Cardinality(wf.deps[to(i)]) <= 1}
    IN
    /\ At(n, "run")
    /\ Complete(m)
    /\ \/ \E i \in chain : Continue(n, to(i))
       \/ chain = {} /\ Finish(n, {i \in taken : to(i) # Return}, "some")
    /\ UNCHANGED <<wf, loop, finished, cancel, starts>>

\* An expression cannot be evaluated: the repeat condition or an edge's.
EvalFails(n) ==
    LET m == task[n].node IN
    /\ At(n, "run")
    /\ wf.repeat[m] > 0 \/ \E i \in DOMAIN wf.edges[m] : wf.edges[m][i].cond
    /\ Complete(m)
    /\ Finish(n, {}, "failed")
    /\ UNCHANGED <<wf, loop, finished, cancel, starts>>

\* The step failed, after its retries, or found the token fired before one:
\* on_error decides.  A Goto leaves neither output nor error, and a skipped
\* step's edges are not followed.
Fail(n) ==
    LET m  == task[n].node
        on == wf.onError[m]
    IN
    /\ At(n, "run")
    /\ \/ /\ on.action = "fail" /\ Complete(m)
          /\ Finish(n, {}, "failed") \/ (cancel /\ Finish(n, {}, "cancelled"))
       \/ on.action = "skip" /\ Complete(m) /\ Finish(n, {}, "null")
       \/ on.action = "fallback" /\ Complete(m) /\ Finish(n, {}, "some")
       \/ on.action = "goto" /\ Continue(n, on.step) /\ UNCHANGED completed
    /\ UNCHANGED <<wf, loop, finished, cancel, starts>>

\* Mutant: the completion is reported ahead of the targets.
Send_NodeFirst(n) ==
    LET t == task[n] IN
    /\ At(n, "send")
    /\ Len(finished) < ChannelSize
    /\ \/ /\ t.result # "sent" /\ t.out # {}
          /\ finished' = Append(finished, [kind |-> "node", node |-> t.node])
          /\ task' = [task EXCEPT ![n].result = "sent"]
       \/ /\ t.result = "sent" /\ t.out # {}
          /\ finished' = Append(finished, [kind |-> "next", node |-> wf.edges[t.node][Min(t.out)].to])
          /\ task' = [task EXCEPT ![n].out = @ \ {Min(@)},
                                  ![n].pc = IF Cardinality(t.out) = 1 THEN "returned" ELSE "send",
                                  ![n].result = IF Cardinality(t.out) = 1 THEN "some" ELSE "sent"]
       \/ /\ t.result # "sent" /\ t.out = {}
          /\ finished' = Append(finished, [kind |-> "node", node |-> t.node])
          /\ task' = [task EXCEPT ![n].pc = "returned"]
    /\ UNCHANGED <<wf, loop, completed, cancel, starts>>

\* Mutant: a path without an output does not report.
Send_SkipSilent(n) ==
    LET t == task[n] IN
    /\ At(n, "send")
    /\ Len(finished) < ChannelSize
    /\ \/ /\ t.out # {}
          /\ finished' = Append(finished, [kind |-> "next", node |-> wf.edges[t.node][Min(t.out)].to])
          /\ task' = [task EXCEPT ![n].out = @ \ {Min(@)}]
       \/ /\ t.out = {}
          /\ finished' = IF t.result = "null" THEN finished
                         ELSE Append(finished, [kind |-> "node", node |-> t.node])
          /\ task' = [task EXCEPT ![n].pc = "returned"]
    /\ UNCHANGED <<wf, loop, completed, cancel, starts>>

\* finished_tx.send waits for room: SpawnNext in edge order, Node last.
Send(n) ==
    LET t == task[n] IN
    /\ At(n, "send")
    /\ Len(finished) < ChannelSize
    /\ \/ /\ t.out # {}
          /\ finished' = Append(finished, [kind |-> "next", node |-> wf.edges[t.node][Min(t.out)].to])
          /\ task' = [task EXCEPT ![n].out = @ \ {Min(@)}]
       \/ /\ t.out = {}
          /\ finished' = Append(finished, [kind |-> "node", node |-> t.node])
          /\ task' = [task EXCEPT ![n].pc = "returned"]
    /\ UNCHANGED <<wf, loop, completed, cancel, starts>>

-----------------------------------------------------------------------------
\* Someone fires the CancellationToken.
RequestCancel ==
    /\ status = "running" /\ ~cancel
    /\ cancel' = TRUE
    /\ UNCHANGED <<wf, loop, finished, completed, task, starts>>

\* execute has returned.
Returned == status # "running" /\ UNCHANGED vars

MainStep ==
    \/ CancelArm \/ RecvNode \/ RecvNext \/ ScanEnd
    \/ \E n \in Nodes : JoinNext(n) \/ ScanNode(n)

ToolStep(n) ==
    \/ Repeat(n) \/ EvalFails(n) \/ Fail(n)
    \/ \E truth \in SUBSET (DOMAIN wf.edges[task[n].node]) : Succeed(n, truth)

TaskStep(n) == Begin(n) \/ ToolStep(n) \/ Send(n)

Next == MainStep \/ (\E n \in active : TaskStep(n)) \/ RequestCancel \/ Returned

Spec == Init /\ [][Next]_vars

\* The main loop is scheduled, and select! is unbiased: a cancellation that stays
\* ready is taken.  Nothing is assumed of the tools.
LoopFairSpec == Spec /\ WF_vars(MainStep) /\ WF_vars(CancelArm)

\* The tasks are tokio tasks, which are all scheduled, and every tool call ends:
\* default_timeout_ms bounds it.
TasksProceed ==
    \A n \in Nodes : /\ WF_vars(Begin(n)) /\ WF_vars(Send(n))
                     /\ WF_vars(At(n, "run") /\ ToolStep(n))

-----------------------------------------------------------------------------
(* Properties.                                                             *)

TaskType ==
    [pc : {"idle", "check", "run", "send", "returned"}, node : Nodes \cup {"none"},
     iter : Nat, steps : Nat, out : SUBSET Nat,
     result : {"none", "some", "null", "failed", "cancelled"}]

\* Every variable has its type.
TypeOK ==
    /\ wf \in Workflows
    /\ status \in {"running", "done", "cancelled", "failed", "max_steps"}
    /\ main \in {"select", "scan"}
    /\ scan \subseteq Nodes
    /\ reachable \subseteq Nodes /\ executed \subseteq Nodes /\ active \subseteq Nodes
    /\ finished \in Seq([kind : {"node", "next"}, node : Nodes])
    /\ spawnedN \in Nat /\ finishedN \in Nat /\ steps \in Nat
    /\ output \in Nodes \cup {"null"}
    /\ completed \subseteq Nodes
    /\ task \in [Nodes -> TaskType]
    /\ cancel \in BOOLEAN
    /\ starts \in [Nodes -> Nat]

\* max_concurrent_nodes "caps JoinSet size", in the scan after a Node message
\* as well as for SpawnNext.
ConcurrencyBound == Cardinality(active) <= MaxConcurrent

\* execute reports Done only when nothing is left: every task was joined, every
\* message handled, and the counters the loop ends on count the tasks.
DoneIsQuiescent ==
    status = "done" =>
        /\ active = {} /\ finished = <<>>
        /\ finishedN = Cardinality(executed)
        /\ \A n \in executed : task[n].pc = "returned"

\* A workflow that is reported Done began no more than max_steps steps, over
\* all tasks, chained steps and repeats.
StepBudget ==
    status = "done" => /\ steps = SumFunction(starts)
                       /\ steps <= MaxSteps

CatchTarget(n) ==
    \E m \in Nodes : wf.onError[m].action = "goto" /\ wf.onError[m].step = n

\* A node that joins several others and is not the target of a catch begins
\* once, and only when its join policy is satisfied, whatever the order of
\* its predecessors.
JoinOnce ==
    \A n \in Nodes :
        /\ Cardinality(wf.deps[n]) >= 2 /\ ~CatchTarget(n) /\ n # wf.entry
        /\ starts[n] > 0
        => CanRun(n) /\ (wf.repeat[n] = 0 => starts[n] = 1)

\* A node that finds the executor at capacity "will be spawned when a slot
\* opens": at Done, each node that was named as a target and may run has run.
NothingForgotten ==
    status = "done" => \A n \in reachable : CanRun(n) => n \in executed

\* ... which the scans do guarantee as long as there is room for every node of
\* the workflow: a dependency that completes after its dependent was looked at is
\* always followed by a message that makes the loop look again.
UsedNodes ==
    {wf.entry} \cup
    {n \in Nodes : \E m \in Nodes :
        \/ \E i \in DOMAIN wf.edges[m] : wf.edges[m][i].to = n
        \/ wf.onError[m].action = "goto" /\ wf.onError[m].step = n}

NothingForgottenWithRoom == MaxConcurrent >= Cardinality(UsedNodes) => NothingForgotten

\* Every execution ends, if its tools do.
Terminates == TasksProceed => <>(status # "running")

\* A cancelled execution ends even if its tools never return.
CancelEnds == cancel ~> status # "running"

=============================================================================
