--------------------------- MODULE ExecutorProofs ---------------------------
(***************************************************************************)
(* Theorems about Executor, for every workflow of every size and every     *)
(* value of the engine's limits.                                           *)
(***************************************************************************)
EXTENDS Executor, TLAPS, FiniteSetTheorems, FunctionTheorems, WellFoundedInduction

\* The edges of m that lead to another step.
StepEdges(m) == {i \in DOMAIN wf.edges[m] : wf.edges[m][i].to # Return}

\* What a task on its way knows: its step, and the edges it has still to report.
TaskInv ==
    /\ active \subseteq executed
    /\ \A n \in active :
          /\ task[n].node \in Nodes
          /\ task[n].pc # "send" => task[n].out = {}
          /\ task[n].pc = "send" => /\ task[n].out \subseteq StepEdges(task[n].node)
                                    /\ task[n].result # "none"
          /\ task[n].pc = "returned" => task[n].result # "none"

TInv == TypeOK /\ TaskInv

-----------------------------------------------------------------------------
(* Facts about the operators.                                              *)

\* A set of naturals has a least element.
LEMMA LeastOf ==
    ASSUME NEW S, S \subseteq Nat, S # {}
    PROVE  \E x \in S : \A y \in S : x <= y
<1> DEFINE R == {ss \in Nat \X Nat : ss[1] < ss[2]}
<1>1. OpToRel(<, Nat) = R
  BY Zenon DEF OpToRel
<1>2. IsWellFoundedOn(R, Nat)
  BY <1>1, NatLessThanWellFounded, Zenon
<1> HIDE DEF R
<1>3. PICK x \in S : \A y \in S : <<y, x>> \notin R
  BY <1>2, WFMin, Zenon
<1>4. \A y \in S : x <= y
  <2> SUFFICES ASSUME NEW y \in S PROVE x <= y
    OBVIOUS
  <2>1. <<y, x>> \notin {ss \in Nat \X Nat : ss[1] < ss[2]}
    BY <1>3, Zenon DEF R
  <2> QED
    BY <2>1
<1> QED
  BY <1>3, <1>4

\* Min is in its set.
LEMMA MinIn ==
    ASSUME NEW S, S \subseteq Nat, S # {}
    PROVE  Min(S) \in S
BY LeastOf DEF Min

\* The workflow being executed is well-formed.
LEMMA WfType ==
    ASSUME TypeOK
    PROVE  /\ wf.entry \in Nodes
           /\ \A m \in Nodes :
                 /\ wf.edges[m] \in Seq([to : Nodes \cup {Return}, cond : BOOLEAN])
                 /\ wf.deps[m] \subseteq Nodes
                 /\ wf.onError[m] \in [action : {"fail", "skip", "fallback", "goto"}, step : Nodes]
                 /\ wf.repeat[m] \in Nat
BY WorkflowsAssumption DEF TypeOK, WorkflowType

\* Every set of nodes is finite.
LEMMA NodesFinite ==
    ASSUME NEW S, S \subseteq Nodes
    PROVE  IsFiniteSet(S) /\ Cardinality(S) \in Nat
BY ExecutorAssumption, FS_Subset, FS_CardinalityType

\* An edge that leads to a step leads to a node.
LEMMA StepEdgeTarget ==
    ASSUME TypeOK, NEW m \in Nodes, NEW i \in StepEdges(m)
    PROVE  wf.edges[m][i].to \in Nodes /\ i \in Nat
<1>1. wf.edges[m] \in Seq([to : Nodes \cup {Return}, cond : BOOLEAN])
  BY WfType
<1>2. i \in DOMAIN wf.edges[m] /\ wf.edges[m][i].to # Return
  BY DEF StepEdges
<1>3. wf.edges[m][i] \in [to : Nodes \cup {Return}, cond : BOOLEAN]
  <2> DEFINE es == wf.edges[m]  E == [to : Nodes \cup {Return}, cond : BOOLEAN]
  <2>1. es \in Seq(E) /\ i \in DOMAIN es
    BY <1>1, <1>2
  <2> HIDE DEF es, E
  <2>2. es[i] \in E
    BY <2>1
  <2> QED
    BY <2>2 DEF es, E
<1>4. i \in Nat
  BY <1>1, <1>2
<1> QED
  BY <1>2, <1>3, <1>4

\* The first message of a non-empty channel, and the rest.
LEMMA MessageType ==
    ASSUME finished \in Seq([kind : {"node", "next"}, node : Nodes]), finished # <<>>
    PROVE  /\ Head(finished) \in [kind : {"node", "next"}, node : Nodes]
           /\ Tail(finished) \in Seq([kind : {"node", "next"}, node : Nodes])
<1> DEFINE M == [kind : {"node", "next"}, node : Nodes]
<1>1. finished \in Seq(M) /\ finished # <<>>
  OBVIOUS
<1> HIDE DEF M
<1>2. Head(finished) \in M /\ Tail(finished) \in Seq(M)
  BY <1>1
<1> QED
  BY <1>2 DEF M

\* spawn_node starts a well-formed task.
LEMMA SpawnType ==
    ASSUME TypeOK, NEW n \in Nodes, SpawnNode(n)
    PROVE  /\ executed' \subseteq Nodes /\ active' \subseteq Nodes /\ spawnedN' \in Nat
           /\ task' \in [Nodes -> TaskType]
<1>1. New(n) \in TaskType
  BY DEF New, Idle, TaskType
<1> QED
  BY <1>1 DEF TypeOK, SpawnNode

-----------------------------------------------------------------------------
(* Type correctness.                                                       *)

LEMMA InitType == Init => TInv
<1> SUFFICES ASSUME Init PROVE TInv
  OBVIOUS
<1>1. wf \in WorkflowType
  BY WorkflowsAssumption DEF Init
<1>2. wf.entry \in Nodes
  BY <1>1 DEF WorkflowType
<1>3. task \in [Nodes -> TaskType]
  BY <1>2 DEF Init, TaskType, New, Idle
<1>3a. starts \in [Nodes -> Nat] /\ cancel \in BOOLEAN
  BY DEF Init
<1>3b. finished \in Seq([kind : {"node", "next"}, node : Nodes])
  BY DEF Init
<1>4. TypeOK
  BY <1>2, <1>3, <1>3a, <1>3b DEF Init, TypeOK
<1>5. TaskInv
  BY <1>2 DEF Init, TaskInv, New, Idle
<1> QED
  BY <1>4, <1>5 DEF TInv

\* The main loop's arms.
LEMMA MainType ==
    ASSUME TInv, MainStep
    PROVE  TInv'
<1> USE DEF TInv
<1>1. CASE CancelArm
  BY <1>1 DEF CancelArm, TypeOK, TaskInv
<1>2. CASE RecvNode
  <2>1. TypeOK'
    BY <1>2 DEF RecvNode, TypeOK
  <2>2. TaskInv'
    BY <1>2 DEF RecvNode, TaskInv, StepEdges
  <2> QED
    BY <2>1, <2>2
<1>3. CASE RecvNext
  <2> DEFINE n == Head(finished).node
  <2>0. finished \in Seq([kind : {"node", "next"}, node : Nodes]) /\ finished # <<>>
    BY <1>3 DEF RecvNext, TypeOK
  <2>1. n \in Nodes /\ Tail(finished) \in Seq([kind : {"node", "next"}, node : Nodes])
    BY <2>0, MessageType
  <2>2. CASE SpawnNode(n)
    <3>1. TypeOK'
      BY <1>3, <2>1, <2>2, SpawnType DEF RecvNext, LoopCheck, TypeOK
    <3>2. TaskInv'
      BY <1>3, <2>1, <2>2 DEF RecvNext, SpawnNode, TypeOK, TaskInv, StepEdges, New, Idle
    <3> QED
      BY <3>1, <3>2
  <2>3. CASE NoSpawn
    <3>1. TypeOK'
      BY <1>3, <2>1, <2>3 DEF RecvNext, NoSpawn, LoopCheck, TypeOK
    <3>2. TaskInv'
      BY <1>3, <2>3 DEF RecvNext, NoSpawn, TaskInv, StepEdges
    <3> QED
      BY <3>1, <3>2
  <2> QED
    BY <1>3, <2>2, <2>3 DEF RecvNext
<1>4. CASE ScanEnd
  <2>1. TypeOK'
    BY <1>4 DEF ScanEnd, LoopCheck, TypeOK
  <2>2. TaskInv'
    BY <1>4 DEF ScanEnd, TaskInv, StepEdges
  <2> QED
    BY <2>1, <2>2
<1>5. ASSUME NEW n \in Nodes, JoinNext(n) PROVE TInv'
  <2>1. task[n] \in TaskType
    BY DEF TypeOK
  <2>2. steps' \in Nat /\ status' \in {"running", "done", "cancelled", "failed", "max_steps"}
    BY <1>5, <2>1 DEF JoinNext, LoopCheck, TypeOK, TaskType
  <2>3. output' \in Nodes \cup {"null"}
    BY <1>5, <2>1 DEF JoinNext, TypeOK, TaskInv
  <2>4. active' \subseteq active
    BY <1>5 DEF JoinNext
  <2>5. TypeOK'
    BY <1>5, <2>2, <2>3, <2>4 DEF JoinNext, TypeOK
  <2>6. TaskInv'
    BY <1>5, <2>4 DEF JoinNext, TaskInv, StepEdges
  <2> QED
    BY <2>5, <2>6
<1>6. ASSUME NEW n \in Nodes, ScanNode(n) PROVE TInv'
  <2>2. CASE SpawnNode(n)
    <3>1. TypeOK'
      BY <1>6, <2>2, SpawnType DEF ScanNode, TypeOK
    <3>2. TaskInv'
      BY <1>6, <2>2 DEF ScanNode, SpawnNode, TypeOK, TaskInv, StepEdges, New, Idle
    <3> QED
      BY <3>1, <3>2
  <2>3. CASE NoSpawn
    <3>1. TypeOK'
      BY <1>6, <2>3 DEF ScanNode, NoSpawn, TypeOK
    <3>2. TaskInv'
      BY <1>6, <2>3 DEF ScanNode, NoSpawn, TaskInv, StepEdges
    <3> QED
      BY <3>1, <3>2
  <2> QED
    BY <1>6, <2>2, <2>3 DEF ScanNode
<1> QED
  BY <1>1, <1>2, <1>3, <1>4, <1>5, <1>6 DEF MainStep

\* The task's own updates keep it well-formed.
LEMMA ContinueType ==
    ASSUME TInv, NEW n \in active, NEW m \in Nodes, task[n].pc = "run", Continue(n, m)
    PROVE  /\ task' \in [Nodes -> TaskType]
           /\ task'[n].node \in Nodes /\ task'[n].pc = "check" /\ task'[n].out = {}
           /\ \A k \in Nodes \ {n} : task'[k] = task[k]
<1>1. task \in [Nodes -> TaskType] /\ n \in Nodes
  BY DEF TInv, TypeOK
<1>2. task[n] \in TaskType /\ task[n].out = {}
  BY <1>1 DEF TInv, TaskInv
<1> QED
  BY <1>1, <1>2 DEF Continue, TaskType

LEMMA FinishType ==
    ASSUME TInv, NEW n \in active, NEW out, NEW result \in {"some", "null", "failed", "cancelled"},
           out \subseteq StepEdges(task[n].node), Finish(n, out, result)
    PROVE  /\ task' \in [Nodes -> TaskType]
           /\ task'[n].node = task[n].node /\ task'[n].pc = "send"
           /\ task'[n].out = out /\ task'[n].result = result
           /\ \A k \in Nodes \ {n} : task'[k] = task[k]
<1>1. task \in [Nodes -> TaskType] /\ n \in Nodes
  BY DEF TInv, TypeOK
<1>2. task[n] \in TaskType /\ task[n].node \in Nodes
  BY <1>1 DEF TInv, TaskInv
<1>3. out \subseteq Nat
  BY <1>2, StepEdgeTarget DEF TInv
<1> QED
  BY <1>1, <1>2, <1>3 DEF Finish, TaskType

\* A step of one task that leaves it well-formed preserves the invariant.
LEMMA TaskFrame ==
    ASSUME TInv, NEW n \in active, UNCHANGED <<wf, loop, cancel>>,
           finished' \in Seq([kind : {"node", "next"}, node : Nodes]),
           completed' \subseteq Nodes, starts' \in [Nodes -> Nat],
           task' \in [Nodes -> TaskType],
           \A k \in Nodes \ {n} : task'[k] = task[k],
           task'[n].node \in Nodes,
           task'[n].pc # "send" => task'[n].out = {},
           task'[n].pc = "send" => /\ task'[n].out \subseteq StepEdges(task'[n].node)
                                   /\ task'[n].result # "none",
           task'[n].pc = "returned" => task'[n].result # "none"
    PROVE  TInv'
<1>1. TypeOK'
  BY DEF TInv, TypeOK, loop
<1>2. \A m : StepEdges(m)' = StepEdges(m)
  BY DEF StepEdges
<1>3. active' = active /\ executed' = executed /\ active \subseteq Nodes
  BY DEF loop, TInv, TypeOK
<1>4. ASSUME NEW k \in active
      PROVE  /\ task'[k].node \in Nodes
             /\ task'[k].pc # "send" => task'[k].out = {}
             /\ task'[k].pc = "send" => /\ task'[k].out \subseteq StepEdges(task'[k].node)
                                        /\ task'[k].result # "none"
             /\ task'[k].pc = "returned" => task'[k].result # "none"
  <2>1. CASE k = n
    BY <2>1
  <2>2. CASE k # n
    BY <2>2, <1>3 DEF TInv, TaskInv
  <2> QED
    BY <2>1, <2>2
<1>5. TaskInv'
  BY <1>2, <1>3, <1>4 DEF TInv, TaskInv, StepEdges
<1> QED
  BY <1>1, <1>5 DEF TInv

\* Every step of a task.
LEMMA TaskStepType ==
    ASSUME TInv, NEW n \in active, TaskStep(n)
    PROVE  TInv'
<1> DEFINE m == task[n].node
<1>0. /\ n \in Nodes /\ m \in Nodes
      /\ task \in [Nodes -> TaskType] /\ task[n] \in TaskType
      /\ finished \in Seq([kind : {"node", "next"}, node : Nodes])
      /\ completed \subseteq Nodes /\ starts \in [Nodes -> Nat]
  BY DEF TInv, TypeOK, TaskInv
<1>01. {} \subseteq StepEdges(m)
  OBVIOUS
<1>1. CASE Begin(n)
  <2>1. CASE cancel /\ Finish(n, {}, "cancelled") /\ UNCHANGED starts
    <3>1. /\ task' \in [Nodes -> TaskType] /\ task'[n].node = m /\ task'[n].pc = "send"
          /\ task'[n].out = {} /\ task'[n].result = "cancelled"
          /\ \A k \in Nodes \ {n} : task'[k] = task[k]
      BY <2>1, FinishType
    <3> QED
      BY <1>0, <1>1, <2>1, <3>1, TaskFrame DEF Begin
  <2>2. CASE /\ task' = [task EXCEPT ![n].pc = "run", ![n].steps = @ + 1]
             /\ starts' = [starts EXCEPT ![m] = @ + 1]
    <3>1. task' \in [Nodes -> TaskType] /\ starts' \in [Nodes -> Nat]
      BY <1>0, <2>2 DEF TaskType
    <3>2. /\ task'[n].node = m /\ task'[n].pc = "run" /\ task'[n].out = {}
          /\ \A k \in Nodes \ {n} : task'[k] = task[k]
      BY <1>0, <1>1, <2>2 DEF TaskType, TInv, TaskInv, Begin, At
    <3> QED
      BY <1>0, <1>1, <3>1, <3>2, TaskFrame DEF Begin
  <2> QED
    BY <1>1, <2>1, <2>2 DEF Begin
<1>2. CASE Repeat(n)
  <2>1. /\ task' \in [Nodes -> TaskType] /\ task'[n].node = m /\ task'[n].pc = "check"
        /\ task'[n].out = {} /\ \A k \in Nodes \ {n} : task'[k] = task[k]
    BY <1>0, <1>2 DEF Repeat, TaskType, TInv, TaskInv, At
  <2>2. completed' \subseteq Nodes
    BY <1>0, <1>2 DEF Repeat, Complete
  <2> QED
    BY <1>0, <1>2, <2>1, <2>2, TaskFrame DEF Repeat
<1>3. CASE EvalFails(n)
  <2>1. /\ task' \in [Nodes -> TaskType] /\ task'[n].node = m /\ task'[n].pc = "send"
        /\ task'[n].out = {} /\ task'[n].result = "failed"
        /\ \A k \in Nodes \ {n} : task'[k] = task[k]
    BY <1>3, FinishType DEF EvalFails
  <2>2. completed' \subseteq Nodes
    BY <1>0, <1>3 DEF EvalFails, Complete
  <2> QED
    BY <1>0, <1>3, <2>1, <2>2, TaskFrame DEF EvalFails
<1>4. CASE Fail(n)
  <2>1. completed' \subseteq Nodes
    BY <1>0, <1>4 DEF Fail, Complete
  <2>2. ASSUME NEW r \in {"some", "null", "failed", "cancelled"}, Finish(n, {}, r) PROVE TInv'
    <3>1. /\ task' \in [Nodes -> TaskType] /\ task'[n].node = m /\ task'[n].pc = "send"
          /\ task'[n].out = {} /\ task'[n].result = r
          /\ \A k \in Nodes \ {n} : task'[k] = task[k]
      BY <2>2, FinishType
    <3> QED
      BY <1>0, <1>4, <2>1, <3>1, TaskFrame DEF Fail
  <2>3. CASE Continue(n, wf.onError[m].step)
    <3>1. wf.onError[m].step \in Nodes
      BY <1>0, WfType DEF TInv
    <3>2. /\ task' \in [Nodes -> TaskType]
          /\ task'[n].node \in Nodes /\ task'[n].pc = "check" /\ task'[n].out = {}
          /\ \A k \in Nodes \ {n} : task'[k] = task[k]
      BY <1>4, <2>3, <3>1, ContinueType DEF Fail, At
    <3> QED
      BY <1>0, <1>4, <2>1, <3>2, TaskFrame DEF Fail
  <2> QED
    BY <1>4, <2>2, <2>3 DEF Fail
<1>5. ASSUME NEW truth, Succeed(n, truth) PROVE TInv'
  <2> DEFINE to(i) == wf.edges[m][i].to
             out == {i \in Taken(m, truth) : to(i) # Return}
  <2>1. completed' \subseteq Nodes
    BY <1>0, <1>5 DEF Succeed, Complete
  <2>2. out \subseteq StepEdges(m)
    BY DEF Taken, StepEdges
  <2>3. CASE Finish(n, out, "some")
    <3>1. /\ task' \in [Nodes -> TaskType] /\ task'[n].node = m /\ task'[n].pc = "send"
          /\ task'[n].out = out /\ task'[n].result = "some"
          /\ \A k \in Nodes \ {n} : task'[k] = task[k]
      BY <2>2, <2>3, FinishType
    <3> QED
      BY <1>0, <1>5, <2>1, <2>2, <3>1, TaskFrame DEF Succeed
  <2>4. ASSUME NEW i \in out, Continue(n, to(i)) PROVE TInv'
    <3>1. to(i) \in Nodes
      BY <1>0, <2>2, StepEdgeTarget DEF TInv
    <3>2. /\ task' \in [Nodes -> TaskType]
          /\ task'[n].node \in Nodes /\ task'[n].pc = "check" /\ task'[n].out = {}
          /\ \A k \in Nodes \ {n} : task'[k] = task[k]
      BY <1>5, <2>4, <3>1, ContinueType DEF Succeed, At
    <3> QED
      BY <1>0, <1>5, <2>1, <3>2, TaskFrame DEF Succeed
  <2> QED
    BY <1>5, <2>3, <2>4 DEF Succeed
<1>6. CASE Send(n)
  <2>0. task[n].out \subseteq StepEdges(m) /\ task[n].result # "none" /\ task[n].pc = "send"
    BY <1>6 DEF Send, At, TInv, TaskInv
  <2>1. CASE /\ task[n].out # {}
             /\ finished' = Append(finished, [kind |-> "next", node |-> wf.edges[m][Min(task[n].out)].to])
             /\ task' = [task EXCEPT ![n].out = @ \ {Min(@)}]
    <3>1. Min(task[n].out) \in task[n].out
      BY <1>0, <2>1, MinIn DEF TaskType
    <3>2. wf.edges[m][Min(task[n].out)].to \in Nodes
      BY <1>0, <2>0, <3>1, StepEdgeTarget DEF TInv
    <3>3. finished' \in Seq([kind : {"node", "next"}, node : Nodes])
      BY <1>0, <2>1, <3>2
    <3>4. task' \in [Nodes -> TaskType]
      BY <1>0, <2>1 DEF TaskType
    <3>5. /\ task'[n].node = m /\ task'[n].pc = "send" /\ task'[n].result = task[n].result
          /\ task'[n].out \subseteq task[n].out
          /\ \A k \in Nodes \ {n} : task'[k] = task[k]
      BY <1>0, <2>0, <2>1 DEF TaskType
    <3> QED
      BY <1>0, <1>6, <2>0, <3>3, <3>4, <3>5, TaskFrame DEF Send
  <2>2. CASE /\ task[n].out = {}
             /\ finished' = Append(finished, [kind |-> "node", node |-> m])
             /\ task' = [task EXCEPT ![n].pc = "returned"]
    <3>1. finished' \in Seq([kind : {"node", "next"}, node : Nodes])
      BY <1>0, <2>2
    <3>2. task' \in [Nodes -> TaskType]
      BY <1>0, <2>2 DEF TaskType
    <3>3. /\ task'[n].node = m /\ task'[n].pc = "returned" /\ task'[n].result = task[n].result
          /\ task'[n].out = {} /\ \A k \in Nodes \ {n} : task'[k] = task[k]
      BY <1>0, <2>2 DEF TaskType
    <3> QED
      BY <1>0, <1>6, <2>0, <3>1, <3>2, <3>3, TaskFrame DEF Send
  <2> QED
    BY <1>6, <2>1, <2>2 DEF Send
<1> QED
  BY <1>1, <1>2, <1>3, <1>4, <1>5, <1>6 DEF TaskStep, ToolStep

LEMMA TypeStep == TInv /\ [Next]_vars => TInv'
<1> SUFFICES ASSUME TInv, [Next]_vars PROVE TInv'
  OBVIOUS
<1>1. CASE MainStep
  BY <1>1, MainType
<1>2. ASSUME NEW n \in active, TaskStep(n) PROVE TInv'
  BY <1>2, TaskStepType
<1>3. CASE RequestCancel
  <2>1. TypeOK'
    BY <1>3 DEF RequestCancel, TInv, TypeOK, loop
  <2>2. TaskInv'
    BY <1>3 DEF RequestCancel, TInv, TaskInv, StepEdges, loop
  <2> QED
    BY <2>1, <2>2 DEF TInv
<1>4. CASE UNCHANGED vars
  <2>1. TypeOK'
    BY <1>4 DEF TInv, TypeOK, vars
  <2>2. TaskInv'
    BY <1>4 DEF TInv, TaskInv, StepEdges, vars
  <2> QED
    BY <2>1, <2>2 DEF TInv
<1> QED
  BY <1>1, <1>2, <1>3, <1>4 DEF Next, Returned

\* The executor's state is well-typed in every execution.
THEOREM TypeCorrect == Spec => []TypeOK
<1>1. TInv => TypeOK
  BY DEF TInv
<1> QED
  BY <1>1, InitType, TypeStep, PTL DEF Spec

-----------------------------------------------------------------------------
(* The bound on parallel tasks.                                            *)

\* One more task fits when there is room.
LEMMA RoomForOne ==
    ASSUME TypeOK, HasRoom, NEW n \in Nodes
    PROVE  Cardinality(active \cup {n}) <= MaxConcurrent
<1>1. IsFiniteSet(active) /\ Cardinality(active) \in Nat
  BY NodesFinite DEF TypeOK
<1>2. Cardinality(active \cup {n}) = IF n \in active THEN Cardinality(active) ELSE Cardinality(active) + 1
  BY <1>1, FS_AddElement, Zenon
<1>3. Cardinality(active \cup {n}) \in Nat
  BY NodesFinite DEF TypeOK
<1> QED
  BY <1>1, <1>2, <1>3, ExecutorAssumption DEF HasRoom

\* Fewer tasks are never too many.
LEMMA FewerTasks ==
    ASSUME TypeOK, ConcurrencyBound, active' \subseteq active
    PROVE  ConcurrencyBound'
<1>1. IsFiniteSet(active) /\ Cardinality(active) \in Nat /\ Cardinality(active') \in Nat
  BY NodesFinite DEF TypeOK
<1>2. Cardinality(active') <= Cardinality(active)
  BY <1>1, FS_Subset
<1> QED
  BY <1>1, <1>2, ExecutorAssumption DEF ConcurrencyBound

LEMMA BoundStep == TInv /\ ConcurrencyBound /\ [Next]_vars => ConcurrencyBound'
<1> SUFFICES ASSUME TInv, ConcurrencyBound, [Next]_vars PROVE ConcurrencyBound'
  OBVIOUS
<1>0. TypeOK
  BY DEF TInv
<1>1. ASSUME NEW n \in Nodes, ScanNode(n) PROVE ConcurrencyBound'
  BY <1>0, <1>1, RoomForOne, FewerTasks DEF ScanNode, SpawnNode, NoSpawn, ConcurrencyBound
<1>2. CASE RecvNext
  <2>1. Head(finished).node \in Nodes
    BY <1>0, <1>2, MessageType DEF RecvNext, TypeOK
  <2> QED
    BY <1>0, <1>2, <2>1, RoomForOne, FewerTasks DEF RecvNext, SpawnNode, NoSpawn, ConcurrencyBound
<1>3. CASE CancelArm \/ RecvNode \/ ScanEnd \/ \E n \in Nodes : JoinNext(n)
  <2>1. active' \subseteq active
    BY <1>3 DEF CancelArm, RecvNode, ScanEnd, JoinNext
  <2> QED
    BY <1>0, <2>1, FewerTasks
<1>4. CASE (\E n \in active : TaskStep(n)) \/ RequestCancel \/ UNCHANGED vars
  <2>1. active' = active
    BY <1>4 DEF TaskStep, ToolStep, Begin, Repeat, EvalFails, Fail, Succeed, Send, RequestCancel,
                loop, vars
  <2> QED
    BY <1>0, <2>1, FewerTasks
<1> QED
  BY <1>1, <1>2, <1>3, <1>4 DEF Next, MainStep, Returned

\* The JoinSet never holds more than max_concurrent_nodes tasks.
THEOREM ConcurrencyBounded == Spec => []ConcurrencyBound
<1>1. Init => ConcurrencyBound
  <2> SUFFICES ASSUME Init PROVE ConcurrencyBound
    OBVIOUS
  <2>1. Cardinality(active) = 1
    BY FS_Singleton DEF Init
  <2> QED
    BY <2>1, ExecutorAssumption DEF ConcurrencyBound
<1> QED
  BY <1>1, InitType, TypeStep, BoundStep, PTL DEF Spec

-----------------------------------------------------------------------------
(* Done means quiescent.  The loop ends when the two counters agree and the *)
(* JoinSet is empty; the invariant says what the counters count.            *)

NodeAt(s) == {i \in 1..Len(s) : s[i].kind = "node"}
Reported  == {n \in executed : task[n].pc = "returned"}
Alive     == status \in {"running", "done"}

\* total_spawned counts the spawned tasks; total_finished and the Node messages
\* under way count the tasks that have returned.
Counts ==
    /\ spawnedN = Cardinality(executed)
    /\ finishedN + Cardinality(NodeAt(finished)) = Cardinality(Reported)

\* A task leaves the JoinSet only when it has returned.
JoinedReturned == Alive => \A n \in executed \ active : task[n].pc = "returned"

\* The last message under way is a Node, or its sender has more to send.
LastIsNode ==
    Alive => \/ finished = <<>>
             \/ finished[Len(finished)].kind = "node"
             \/ \E n \in active : task[n].pc = "send"

\* The scan looks at nodes that were not spawned, while the loop runs.
ScanFresh ==
    /\ scan \cap executed = {}
    /\ main = "select" => scan = {}
    /\ main = "scan" => status = "running"

\* The loop's exit condition.
DoneExit == status = "done" => spawnedN = finishedN /\ active = {}

QInv == Counts /\ JoinedReturned /\ LastIsNode /\ ScanFresh /\ DoneExit

\* The messages of a channel are finitely many.
LEMMA NodeAtFinite ==
    ASSUME NEW s, Len(s) \in Nat
    PROVE  IsFiniteSet(NodeAt(s)) /\ Cardinality(NodeAt(s)) \in Nat
<1>1. IsFiniteSet(1..Len(s))
  BY FS_Interval
<1>2. NodeAt(s) \in SUBSET (1..Len(s))
  BY DEF NodeAt
<1> QED
  BY <1>1, <1>2, FS_Subset, FS_CardinalityType

\* Receiving a message takes it out of the count.
LEMMA NodeAtTail ==
    ASSUME NEW M, NEW s \in Seq(M), s # <<>>
    PROVE  Cardinality(NodeAt(Tail(s))) =
               Cardinality(NodeAt(s)) - (IF Head(s).kind = "node" THEN 1 ELSE 0)
<1> DEFINE S == NodeAt(s) \ {1}
           T == NodeAt(Tail(s))
           f == [i \in S |-> i - 1]
<1>1. Len(s) \in Nat /\ Len(s) > 0 /\ Len(Tail(s)) = Len(s) - 1
  OBVIOUS
<1>2. \A j \in 1..Len(Tail(s)) : Tail(s)[j] = s[j + 1]
  OBVIOUS
<1>3. S \subseteq 2..Len(s) /\ \A i \in S : s[i].kind = "node"
  BY <1>1 DEF NodeAt
<1>4. f \in [S -> T]
  <2> SUFFICES ASSUME NEW i \in S PROVE i - 1 \in T
    OBVIOUS
  <2>1. i \in 2..Len(s) /\ s[i].kind = "node"
    BY <1>3
  <2>2. i - 1 \in 1..Len(Tail(s)) /\ (i - 1) + 1 = i
    BY <1>1, <2>1
  <2>3. Tail(s)[i - 1] = s[i]
    BY <1>2, <2>2
  <2> QED
    BY <2>1, <2>2, <2>3 DEF NodeAt
<1>5. \A i, j \in S : f[i] = f[j] => i = j
  BY <1>1, <1>3
<1>6. ASSUME NEW j \in T PROVE \E i \in S : f[i] = j
  <2>1. j \in 1..Len(Tail(s)) /\ Tail(s)[j].kind = "node"
    BY DEF NodeAt
  <2>2. j + 1 \in 1..Len(s) /\ j + 1 # 1 /\ s[j + 1].kind = "node"
    BY <1>1, <1>2, <2>1
  <2>3. j + 1 \in S
    BY <2>2 DEF NodeAt
  <2> QED
    BY <2>1, <2>3
<1> HIDE DEF S, T, f
<1>7. f \in Bijection(S, T)
  BY <1>4, <1>5, <1>6, Fun_IsBij
<1>8. IsFiniteSet(NodeAt(s)) /\ Cardinality(NodeAt(s)) \in Nat
  BY <1>1, NodeAtFinite
<1>9. IsFiniteSet(S) /\ Cardinality(S) = IF 1 \in NodeAt(s) THEN Cardinality(NodeAt(s)) - 1
                                         ELSE Cardinality(NodeAt(s))
  BY <1>8, FS_RemoveElement, Zenon DEF S
<1>10. Cardinality(T) = Cardinality(S)
  BY <1>7, <1>9, FS_Bijection, Fun_ExistsBij
<1>11. 1 \in NodeAt(s) <=> Head(s).kind = "node"
  BY <1>1 DEF NodeAt
<1> QED
  BY <1>8, <1>9, <1>10, <1>11 DEF T

\* Sending one adds it.
LEMMA NodeAtAppend ==
    ASSUME NEW M, NEW s \in Seq(M), NEW x \in M
    PROVE  Cardinality(NodeAt(Append(s, x))) =
               Cardinality(NodeAt(s)) + (IF x.kind = "node" THEN 1 ELSE 0)
<1> DEFINE t == Append(s, x)
<1>1. Len(s) \in Nat /\ Len(t) = Len(s) + 1 /\ t[Len(s) + 1] = x
  OBVIOUS
<1>2. \A i \in 1..Len(s) : t[i] = s[i]
  OBVIOUS
<1> HIDE DEF t
<1>3. NodeAt(t) = IF x.kind = "node" THEN NodeAt(s) \cup {Len(s) + 1} ELSE NodeAt(s)
  <2>1. 1..Len(t) = 1..Len(s) \cup {Len(s) + 1}
    BY <1>1
  <2> QED
    BY <1>1, <1>2, <2>1 DEF NodeAt
<1>4. Len(s) + 1 \notin NodeAt(s)
  BY <1>1 DEF NodeAt
<1>5. IsFiniteSet(NodeAt(s)) /\ Cardinality(NodeAt(s)) \in Nat
  BY <1>1, NodeAtFinite
<1>6. Cardinality(NodeAt(s) \cup {Len(s) + 1}) = Cardinality(NodeAt(s)) + 1
  BY <1>4, <1>5, FS_AddElement, Zenon
<1> QED
  BY <1>3, <1>5, <1>6 DEF t

LEMMA AppendCounts ==
    ASSUME NEW s \in Seq([kind : {"node", "next"}, node : Nodes]), NEW m \in Nodes
    PROVE  /\ Cardinality(NodeAt(Append(s, [kind |-> "next", node |-> m]))) = Cardinality(NodeAt(s)) + 0
           /\ Cardinality(NodeAt(Append(s, [kind |-> "node", node |-> m]))) = Cardinality(NodeAt(s)) + 1
<1> DEFINE M == [kind : {"node", "next"}, node : Nodes]
           x == [kind |-> "next", node |-> m]
           y == [kind |-> "node", node |-> m]
<1>1. x \in M /\ y \in M /\ x.kind = "next" /\ y.kind = "node" /\ s \in Seq(M)
  OBVIOUS
<1> HIDE DEF M, x, y
<1>2. Cardinality(NodeAt(Append(s, x))) = Cardinality(NodeAt(s)) + (IF x.kind = "node" THEN 1 ELSE 0)
  BY <1>1, NodeAtAppend
<1>3. Cardinality(NodeAt(Append(s, y))) = Cardinality(NodeAt(s)) + (IF y.kind = "node" THEN 1 ELSE 0)
  BY <1>1, NodeAtAppend
<1> QED
  BY <1>1, <1>2, <1>3 DEF x, y

\* Spawning a node that was not spawned before.
LEMMA SpawnCounts ==
    ASSUME TInv, QInv, status = "running", NEW n \in Nodes \ executed, SpawnNode(n)
    PROVE  /\ spawnedN' = Cardinality(executed')
           /\ Reported' = Reported
           /\ JoinedReturned'
           /\ \A k \in active : task'[k] = task[k]
           /\ active \subseteq active'
<1>1. IsFiniteSet(executed) /\ Cardinality(executed) \in Nat
  BY NodesFinite DEF TInv, TypeOK
<1>2. Cardinality(executed \cup {n}) = Cardinality(executed) + 1
  BY <1>1, FS_AddElement, Zenon
<1>3. spawnedN' = Cardinality(executed')
  BY <1>2 DEF SpawnNode, QInv, Counts
<1>4. task'[n].pc = "check" /\ \A k \in Nodes \ {n} : task'[k] = task[k]
  BY DEF SpawnNode, New, Idle, TInv, TypeOK
<1>5. Reported' = Reported
  BY <1>4 DEF SpawnNode, Reported, TInv, TypeOK
<1>6. JoinedReturned'
  BY <1>4 DEF SpawnNode, QInv, JoinedReturned, Alive, TInv, TypeOK
<1>7. \A k \in active : task'[k] = task[k]
  BY <1>4 DEF TInv, TypeOK, TaskInv
<1> QED
  BY <1>3, <1>5, <1>6, <1>7 DEF SpawnNode

\* Receiving a message keeps the last one, if there are others.
LEMMA LastOfTail ==
    ASSUME NEW M, NEW s \in Seq(M), s # <<>>, Tail(s) # <<>>
    PROVE  Tail(s)[Len(Tail(s))] = s[Len(s)]
<1>1. Len(s) \in Nat /\ Len(Tail(s)) = Len(s) - 1 /\ Len(Tail(s)) > 0
  OBVIOUS
<1> QED
  BY <1>1

LEMMA RecvKeepsLast ==
    ASSUME TInv, QInv, status = "running", finished # <<>>, finished' = Tail(finished),
           active \subseteq active', \A k \in active : task'[k] = task[k]
    PROVE  LastIsNode'
<1>1. finished \in Seq([kind : {"node", "next"}, node : Nodes])
  BY DEF TInv, TypeOK
<1>2. Tail(finished) # <<>> => Tail(finished)[Len(Tail(finished))] = finished[Len(finished)]
  BY <1>1, LastOfTail
<1> QED
  BY <1>2 DEF QInv, LastIsNode, Alive

LEMMA MainQuiet ==
    ASSUME TInv, QInv, MainStep
    PROVE  QInv'
<1>0. /\ finished \in Seq([kind : {"node", "next"}, node : Nodes])
      /\ finishedN \in Nat /\ Cardinality(NodeAt(finished)) \in Nat
  <2>1. finished \in Seq([kind : {"node", "next"}, node : Nodes]) /\ finishedN \in Nat
    BY DEF TInv, TypeOK
  <2>2. Len(finished) \in Nat
    BY <2>1
  <2> QED
    BY <2>1, <2>2, NodeAtFinite
<1>1. CASE CancelArm
  BY <1>1 DEF CancelArm, AtSelect, QInv, Counts, Reported, JoinedReturned, LastIsNode, Alive,
              ScanFresh, DoneExit
<1>2. CASE RecvNode
  <2>0. status = "running" /\ status' = "running" /\ active' = active /\ task' = task
    BY <1>2 DEF RecvNode, AtSelect
  <2>1. Cardinality(NodeAt(finished')) = Cardinality(NodeAt(finished)) - 1
    BY <1>0, <1>2, NodeAtTail DEF RecvNode
  <2>2. Counts'
    BY <1>0, <1>2, <2>1 DEF RecvNode, QInv, Counts, Reported
  <2>3. JoinedReturned'
    BY <1>2 DEF RecvNode, QInv, JoinedReturned, Alive
  <2>4. LastIsNode'
    BY <1>2, <2>0, RecvKeepsLast DEF RecvNode
  <2>5. ScanFresh' /\ DoneExit'
    BY <1>2, <2>0 DEF RecvNode, QInv, ScanFresh, DoneExit
  <2> QED
    BY <2>2, <2>3, <2>4, <2>5 DEF QInv
<1>3. CASE RecvNext
  <2> DEFINE n == Head(finished).node
  <2>0. status = "running" /\ main = "select" /\ finished # <<>> /\ n \in Nodes
    BY <1>0, <1>3, MessageType DEF RecvNext, AtSelect
  <2>1. Cardinality(NodeAt(finished')) = Cardinality(NodeAt(finished))
    BY <1>0, <1>3, NodeAtTail DEF RecvNext
  <2>2. /\ spawnedN' = Cardinality(executed') /\ Reported' = Reported /\ JoinedReturned'
        /\ active \subseteq active' /\ \A k \in active : task'[k] = task[k]
    <3>1. CASE n \notin executed /\ SpawnNode(n)
      BY <2>0, <3>1, SpawnCounts
    <3>2. CASE NoSpawn
      BY <2>0, <3>2 DEF NoSpawn, QInv, Counts, Reported, JoinedReturned, Alive
    <3> QED
      BY <1>3, <3>1, <3>2 DEF RecvNext
  <2>3. Counts'
    BY <1>0, <1>3, <2>1, <2>2 DEF RecvNext, QInv, Counts
  <2>4. LastIsNode'
    BY <1>3, <2>0, <2>2, RecvKeepsLast DEF RecvNext
  <2>5. ScanFresh'
    BY <1>3, <2>0 DEF RecvNext, QInv, ScanFresh
  <2>6. DoneExit'
    BY <1>3 DEF RecvNext, LoopCheck, DoneExit
  <2> QED
    BY <2>2, <2>3, <2>4, <2>5, <2>6 DEF QInv
<1>4. CASE ScanEnd
  <2>0. status = "running"
    BY <1>4 DEF ScanEnd, QInv, ScanFresh
  <2>1. Counts' /\ JoinedReturned'
    BY <1>4, <2>0 DEF ScanEnd, QInv, Counts, Reported, JoinedReturned, Alive
  <2>2. LastIsNode'
    BY <1>4, <2>0 DEF ScanEnd, QInv, LastIsNode, Alive
  <2>3. ScanFresh' /\ DoneExit'
    BY <1>4 DEF ScanEnd, LoopCheck, ScanFresh, DoneExit
  <2> QED
    BY <2>1, <2>2, <2>3 DEF QInv
<1>5. ASSUME NEW n \in Nodes, JoinNext(n) PROVE QInv'
  <2>0. status = "running" /\ main = "select" /\ task[n].pc = "returned"
    BY <1>5 DEF JoinNext, AtSelect
  <2>1. Counts' /\ ScanFresh'
    BY <1>5, <2>0 DEF JoinNext, QInv, Counts, Reported, ScanFresh
  <2>2. Alive' => active' = active \ {n}
    BY <1>5 DEF JoinNext, Alive
  <2>3. JoinedReturned'
    BY <1>5, <2>0, <2>2 DEF JoinNext, QInv, JoinedReturned, Alive
  <2>4. LastIsNode'
    BY <1>5, <2>0, <2>2 DEF JoinNext, QInv, LastIsNode, Alive
  <2>5. DoneExit'
    BY <1>5 DEF JoinNext, LoopCheck, DoneExit
  <2> QED
    BY <2>1, <2>3, <2>4, <2>5 DEF QInv
<1>6. ASSUME NEW n \in Nodes, ScanNode(n) PROVE QInv'
  <2>0. status = "running" /\ n \notin executed
    BY <1>6 DEF ScanNode, QInv, ScanFresh
  <2>2. /\ spawnedN' = Cardinality(executed') /\ Reported' = Reported /\ JoinedReturned'
        /\ active \subseteq active' /\ \A k \in active : task'[k] = task[k]
    <3>1. CASE SpawnNode(n)
      BY <2>0, <3>1, SpawnCounts
    <3>2. CASE NoSpawn
      BY <1>6, <2>0, <3>2 DEF ScanNode, NoSpawn, QInv, Counts, Reported, JoinedReturned, Alive
    <3> QED
      BY <1>6, <3>1, <3>2 DEF ScanNode
  <2>3. Counts'
    BY <1>6, <2>2 DEF ScanNode, QInv, Counts
  <2>4. LastIsNode'
    BY <1>6, <2>2 DEF ScanNode, QInv, LastIsNode, Alive
  <2>5. ScanFresh'
    BY <1>6, <2>0 DEF ScanNode, SpawnNode, NoSpawn, QInv, ScanFresh
  <2>6. DoneExit'
    BY <1>6, <2>0 DEF ScanNode, DoneExit
  <2> QED
    BY <2>2, <2>3, <2>4, <2>5, <2>6 DEF QInv
<1> QED
  BY <1>1, <1>2, <1>3, <1>4, <1>5, <1>6 DEF MainStep

\* A step of a task that sends nothing and does not return.
LEMMA LocalQuiet ==
    ASSUME TInv, QInv, NEW n \in active, task[n].pc \in {"check", "run"}, status = "running",
           UNCHANGED <<loop, finished>>,
           task'[n].pc # "returned", \A k \in Nodes \ {n} : task'[k] = task[k]
    PROVE  QInv'
<1>1. n \in executed /\ active \subseteq Nodes /\ executed \subseteq Nodes
  BY DEF TInv, TypeOK, TaskInv
<1>2. Reported' = Reported
  BY <1>1 DEF Reported, loop
<1>3. Counts'
  BY <1>2 DEF QInv, Counts, loop
<1>4. JoinedReturned'
  BY <1>1 DEF QInv, JoinedReturned, Alive, loop
<1>5. LastIsNode'
  BY <1>1 DEF QInv, LastIsNode, Alive, loop
<1>6. ScanFresh' /\ DoneExit'
  BY DEF QInv, ScanFresh, DoneExit, loop
<1> QED
  BY <1>3, <1>4, <1>5, <1>6 DEF QInv

LEMMA TaskQuiet ==
    ASSUME TInv, QInv, NEW n \in active, TaskStep(n)
    PROVE  QInv'
<1>0. /\ n \in Nodes /\ n \in executed /\ active \subseteq Nodes /\ executed \subseteq Nodes
      /\ task \in [Nodes -> TaskType] /\ task[n] \in TaskType /\ task[n].node \in Nodes
      /\ finished \in Seq([kind : {"node", "next"}, node : Nodes])
      /\ finishedN \in Nat
  BY DEF TInv, TypeOK, TaskInv
<1>1. CASE Begin(n) \/ ToolStep(n)
  <2>1. task[n].pc \in {"check", "run"} /\ status = "running" /\ UNCHANGED <<loop, finished>>
    BY <1>1 DEF Begin, ToolStep, Repeat, EvalFails, Fail, Succeed, At
  <2>2. ASSUME \/ \E m : Continue(n, m)
               \/ \E out, r : Finish(n, out, r)
               \/ task' = [task EXCEPT ![n].pc = "check", ![n].iter = @ + 1]
               \/ task' = [task EXCEPT ![n].pc = "run", ![n].steps = @ + 1]
        PROVE  task'[n].pc # "returned" /\ \A k \in Nodes \ {n} : task'[k] = task[k]
    <3>1. ASSUME NEW m, Continue(n, m)
          PROVE  task'[n].pc # "returned" /\ \A k \in Nodes \ {n} : task'[k] = task[k]
      BY <1>0, <3>1 DEF Continue, TaskType
    <3>2. ASSUME NEW out, NEW r, Finish(n, out, r)
          PROVE  task'[n].pc # "returned" /\ \A k \in Nodes \ {n} : task'[k] = task[k]
      BY <1>0, <3>2 DEF Finish, TaskType
    <3>3. CASE task' = [task EXCEPT ![n].pc = "check", ![n].iter = @ + 1]
      BY <1>0, <3>3 DEF TaskType
    <3>4. CASE task' = [task EXCEPT ![n].pc = "run", ![n].steps = @ + 1]
      BY <1>0, <3>4 DEF TaskType
    <3> QED
      BY <2>2, <3>1, <3>2, <3>3, <3>4
  <2>3. task'[n].pc # "returned" /\ \A k \in Nodes \ {n} : task'[k] = task[k]
    <3>1. CASE Begin(n)
      BY <3>1, <2>2 DEF Begin
    <3>2. CASE Repeat(n) \/ EvalFails(n) \/ Fail(n)
      BY <3>2, <2>2 DEF Repeat, EvalFails, Fail
    <3>3. ASSUME NEW truth, Succeed(n, truth)
          PROVE  (\E m : Continue(n, m)) \/ (\E out, r : Finish(n, out, r))
      BY <3>3, Zenon DEF Succeed
    <3> QED
      BY <1>1, <2>2, <3>1, <3>2, <3>3 DEF ToolStep
  <2> QED
    BY <2>1, <2>3, LocalQuiet
<1>2. CASE Send(n)
  <2>0. status = "running" /\ task[n].pc = "send" /\ UNCHANGED loop
    BY <1>2 DEF Send, At
  <2>1. CASE \E m \in Nodes : /\ finished' = Append(finished, [kind |-> "next", node |-> m])
                             /\ task' = [task EXCEPT ![n].out = @ \ {Min(@)}]
    <3>1. task'[n].pc = "send" /\ \A k \in Nodes \ {n} : task'[k] = task[k]
      BY <1>0, <2>0, <2>1 DEF TaskType
    <3>2. Cardinality(NodeAt(finished')) = Cardinality(NodeAt(finished)) + 0
      BY <1>0, <2>1, AppendCounts
    <3>3. Reported' = Reported
      BY <1>0, <2>0, <3>1 DEF Reported, loop
    <3>4. Cardinality(NodeAt(finished)) \in Nat
      BY <1>0, NodeAtFinite
    <3>5. Counts'
      BY <2>0, <3>2, <3>3, <3>4 DEF QInv, Counts, loop
    <3>6. JoinedReturned'
      BY <1>0, <2>0, <3>1 DEF QInv, JoinedReturned, Alive, loop
    <3>7. LastIsNode'
      BY <2>0, <3>1 DEF LastIsNode, loop
    <3>8. ScanFresh' /\ DoneExit'
      BY <2>0 DEF QInv, ScanFresh, DoneExit, loop
    <3> QED
      BY <3>5, <3>6, <3>7, <3>8 DEF QInv
  <2>2. CASE /\ finished' = Append(finished, [kind |-> "node", node |-> task[n].node])
             /\ task' = [task EXCEPT ![n].pc = "returned"]
    <3>1. task'[n].pc = "returned" /\ \A k \in Nodes \ {n} : task'[k] = task[k]
      BY <1>0, <2>2 DEF TaskType
    <3>2. Cardinality(NodeAt(finished')) = Cardinality(NodeAt(finished)) + 1
      BY <1>0, <2>2, AppendCounts
    <3>3. Reported' = Reported \cup {n} /\ n \notin Reported
      BY <1>0, <2>0, <3>1 DEF Reported, loop
    <3>4. Cardinality(NodeAt(finished)) \in Nat
      BY <1>0, NodeAtFinite
    <3>5. Cardinality(Reported') = Cardinality(Reported) + 1
      <4>1. IsFiniteSet(Reported)
        BY <1>0, NodesFinite DEF Reported
      <4> QED
        BY <3>3, <4>1, FS_AddElement, Zenon
    <3>6. Counts'
      BY <1>0, <2>0, <3>2, <3>4, <3>5 DEF QInv, Counts, loop
    <3>7. JoinedReturned'
      BY <1>0, <2>0, <3>1 DEF QInv, JoinedReturned, Alive, loop
    <3>8. finished'[Len(finished')].kind = "node"
      BY <1>0, <2>2
    <3>9. LastIsNode' /\ ScanFresh' /\ DoneExit'
      BY <2>0, <3>8 DEF QInv, LastIsNode, ScanFresh, DoneExit, loop
    <3> QED
      BY <3>6, <3>7, <3>9 DEF QInv
  <2>3. task[n].out # {} => wf.edges[task[n].node][Min(task[n].out)].to \in Nodes
    <3>1. task[n].out \subseteq StepEdges(task[n].node) /\ task[n].out \subseteq Nat
      BY <1>0, <2>0 DEF TInv, TaskInv, TaskType
    <3> QED
      BY <1>0, <3>1, MinIn, StepEdgeTarget DEF TInv
  <2> QED
    BY <1>2, <2>1, <2>2, <2>3 DEF Send
<1> QED
  BY <1>1, <1>2 DEF TaskStep

LEMMA QuietStep == TInv /\ QInv /\ [Next]_vars => QInv'
<1> SUFFICES ASSUME TInv, QInv, [Next]_vars PROVE QInv'
  OBVIOUS
<1>1. CASE MainStep
  BY <1>1, MainQuiet
<1>2. ASSUME NEW n \in active, TaskStep(n) PROVE QInv'
  BY <1>2, TaskQuiet
<1>3. CASE RequestCancel \/ UNCHANGED vars
  BY <1>3 DEF RequestCancel, vars, loop, QInv, Counts, Reported, JoinedReturned, LastIsNode, Alive,
              ScanFresh, DoneExit
<1> QED
  BY <1>1, <1>2, <1>3 DEF Next, Returned

LEMMA InitQuiet == Init => QInv
<1> SUFFICES ASSUME Init PROVE QInv
  OBVIOUS
<1>1. Cardinality(executed) = 1
  BY FS_Singleton DEF Init
<1>2. wf.entry \in Nodes
  BY InitType, WfType DEF TInv
<1>3. Reported = {}
  BY <1>2 DEF Init, Reported, New, Idle
<1>3a. NodeAt(finished) = {}
  <2>1. Len(finished) = 0
    BY DEF Init
  <2> QED
    BY <2>1 DEF NodeAt
<1>3b. Cardinality(Reported) = 0 /\ Cardinality(NodeAt(finished)) = 0
  BY <1>3, <1>3a, FS_EmptySet, Zenon
<1>4. Counts
  BY <1>1, <1>3b DEF Init, Counts
<1> QED
  BY <1>4 DEF Init, QInv, JoinedReturned, LastIsNode, Alive, ScanFresh, DoneExit

\* The counters agree only when every spawned task has returned and every
\* message was received.
LEMMA QuietAtDone == TInv /\ QInv => DoneIsQuiescent
<1> SUFFICES ASSUME TInv, QInv, status = "done" PROVE DoneIsQuiescent
  BY DEF DoneIsQuiescent
<1>1. /\ finished \in Seq([kind : {"node", "next"}, node : Nodes]) /\ finishedN \in Nat
      /\ executed \subseteq Nodes
  BY DEF TInv, TypeOK
<1>2. spawnedN = finishedN /\ active = {}
  BY DEF QInv, DoneExit
<1>3. /\ IsFiniteSet(executed) /\ IsFiniteSet(Reported) /\ Reported \in SUBSET executed
      /\ Cardinality(executed) \in Nat /\ Cardinality(Reported) \in Nat
  BY <1>1, NodesFinite DEF Reported
<1>4. Cardinality(Reported) <= Cardinality(executed)
  BY <1>3, FS_Subset
<1>5. IsFiniteSet(NodeAt(finished)) /\ Cardinality(NodeAt(finished)) \in Nat
  BY <1>1, NodeAtFinite
<1>6. Cardinality(NodeAt(finished)) = 0
  BY <1>1, <1>2, <1>3, <1>4, <1>5 DEF QInv, Counts
<1>7. NodeAt(finished) = {}
  BY <1>5, <1>6, FS_EmptySet
<1>8. finished = <<>>
  <2> SUFFICES ASSUME finished # <<>> PROVE FALSE
    OBVIOUS
  <2>1. Len(finished) \in 1..Len(finished)
    BY <1>1
  <2>2. finished[Len(finished)].kind = "node"
    BY <1>2 DEF QInv, LastIsNode, Alive
  <2> QED
    BY <1>7, <2>1, <2>2 DEF NodeAt
<1>9. \A n \in executed : task[n].pc = "returned"
  BY <1>2 DEF QInv, JoinedReturned, Alive
<1> QED
  BY <1>2, <1>8, <1>9 DEF DoneIsQuiescent, QInv, Counts

\* Done is reported only when every task was joined and every message handled.
THEOREM DoneQuiescent == Spec => []DoneIsQuiescent
<1> QED
  BY InitType, InitQuiet, TypeStep, QuietStep, QuietAtDone, PTL DEF Spec

-----------------------------------------------------------------------------
(* Sums.  SumFunction is a recursive function over the subsets of a         *)
(* domain; what follows shows that it is well defined on a finite one and   *)
(* what it does when the summand of one index changes.                      *)

\* The index a sum takes first.
First(s) == CHOOSE x \in s : TRUE

LEMMA FirstOut ==
    ASSUME NEW S, IsFiniteSet(S), NEW s \in SUBSET S, s # {}
    PROVE  /\ First(s) \in s /\ s \ {First(s)} \in SUBSET S
           /\ Cardinality(s) \in Nat /\ Cardinality(s \ {First(s)}) \in Nat
           /\ Cardinality(s \ {First(s)}) = Cardinality(s) - 1
<1>1. First(s) \in s
  BY DEF First
<1>2. IsFiniteSet(s)
  BY FS_Subset
<1> DEFINE x == First(s)
<1> HIDE DEF x
<1>3. x \in s
  BY <1>1 DEF x
<1>4. Cardinality(s \ {x}) = Cardinality(s) - 1 /\ IsFiniteSet(s \ {x})
  BY <1>2, <1>3, FS_RemoveElement, Zenon
<1>5. Cardinality(s) \in Nat /\ Cardinality(s \ {x}) \in Nat
  BY <1>2, <1>4, FS_CardinalityType
<1> QED
  BY <1>3, <1>4, <1>5 DEF x

\* Induction over the subsets of a finite set, along First.
LEMMA AllSubsets ==
    ASSUME NEW S, IsFiniteSet(S), NEW G, {} \in G,
           \A s \in SUBSET S : s # {} /\ s \ {First(s)} \in G => s \in G
    PROVE  \A s \in SUBSET S : s \in G
<1> DEFINE bad == {n \in Nat : \E s \in SUBSET S : Cardinality(s) = n /\ s \notin G}
<1> SUFFICES ASSUME NEW t \in SUBSET S, t \notin G PROVE FALSE
  OBVIOUS
<1>1. Cardinality(t) \in Nat
  BY FS_Subset, FS_CardinalityType
<1>2. bad # {} /\ bad \subseteq Nat
  BY <1>1
<1> HIDE DEF bad
<1>3. PICK n \in bad : \A m \in bad : n <= m
  BY <1>2, LeastOf
<1>4. PICK s \in SUBSET S : Cardinality(s) = n /\ s \notin G
  BY <1>3 DEF bad
<1>5. s # {}
  BY <1>4
<1>6. /\ s \ {First(s)} \in SUBSET S /\ Cardinality(s) \in Nat /\ Cardinality(s \ {First(s)}) \in Nat
      /\ Cardinality(s \ {First(s)}) = Cardinality(s) - 1
  BY <1>5, FirstOut
<1>7. s \ {First(s)} \notin G
  BY <1>4, <1>5
<1>8. Cardinality(s \ {First(s)}) \in bad
  BY <1>6, <1>7 DEF bad
<1> QED
  BY <1>3, <1>4, <1>6, <1>8

\* g holds the partial sums of f.
Sums(g, f, D) == \A s \in D : g[s] = IF s = {} THEN 0 ELSE f[First(s)] + g[s \ {First(s)}]

LEMMA SumsExist ==
    ASSUME NEW S, IsFiniteSet(S), NEW f \in [S -> Nat]
    PROVE  \E g \in [SUBSET S -> Nat] : Sums(g, f, SUBSET S)
<1> DEFINE Upto(n) == {s \in SUBSET S : Cardinality(s) <= n}
           bad == {n \in Nat : ~ \E g \in [Upto(n) -> Nat] : Sums(g, f, Upto(n))}
<1>0. \A s \in SUBSET S : IsFiniteSet(s) /\ Cardinality(s) \in Nat /\ Cardinality(s) <= Cardinality(S)
  BY FS_Subset, FS_CardinalityType
<1>1. Cardinality(S) \in Nat
  BY FS_CardinalityType
<1>2. Upto(Cardinality(S)) = SUBSET S
  BY <1>0
<1>3. ASSUME bad # {} PROVE FALSE
  <2>1. PICK n \in bad : \A m \in bad : n <= m
    <3>1. bad \subseteq Nat
      OBVIOUS
    <3> HIDE DEF bad
    <3> QED
      BY <1>3, <3>1, LeastOf
  <2>2. n \in Nat /\ ~ \E g \in [Upto(n) -> Nat] : Sums(g, f, Upto(n))
    BY <2>1
  <2>3. CASE n = 0
    <3>1. \A s \in Upto(0) : s = {}
      BY <1>0, FS_EmptySet
    <3> DEFINE g == [s \in Upto(0) |-> 0]
    <3>2. g \in [Upto(0) -> Nat] /\ \A s \in Upto(0) : g[s] = 0
      OBVIOUS
    <3> HIDE DEF g
    <3>3. Sums(g, f, Upto(0))
      BY <3>1, <3>2 DEF Sums
    <3> QED
      BY <2>2, <2>3, <3>2, <3>3
  <2>4. CASE n # 0
    <3>1. n - 1 \in Nat /\ n - 1 \notin bad
      <4> HIDE DEF bad
      <4> QED
        BY <2>1, <2>2, <2>4
    <3>2. PICK h \in [Upto(n - 1) -> Nat] : Sums(h, f, Upto(n - 1))
      BY <3>1
    <3> DEFINE g == [s \in Upto(n) |-> IF s \in Upto(n - 1) THEN h[s] ELSE f[First(s)] + h[s \ {First(s)}]]
    <3>3. \A s \in Upto(n) : s # {} => First(s) \in S /\ f[First(s)] \in Nat /\ s \ {First(s)} \in Upto(n - 1)
      <4> SUFFICES ASSUME NEW s \in SUBSET S, Cardinality(s) <= n, s # {}
                   PROVE  First(s) \in S /\ f[First(s)] \in Nat /\ s \ {First(s)} \in Upto(n - 1)
        OBVIOUS
      <4>1. /\ First(s) \in s /\ s \ {First(s)} \in SUBSET S
            /\ Cardinality(s) \in Nat /\ Cardinality(s \ {First(s)}) \in Nat
            /\ Cardinality(s \ {First(s)}) = Cardinality(s) - 1
        BY FirstOut
      <4> QED
        BY <2>2, <4>1
    <3>4. {} \in Upto(n - 1)
      BY <3>1, FS_EmptySet
    <3>5. \A s \in Upto(n - 1) : s \in Upto(n)
      BY <1>0, <2>2, <3>1
    <3> HIDE DEF Upto
    <3>6. \A s \in Upto(n) : h[s \ {First(s)}] \in Nat \/ s = {}
      BY <3>2, <3>3
    <3>7. g \in [Upto(n) -> Nat]
      <4>1. ASSUME NEW s \in Upto(n), s \notin Upto(n - 1) PROVE f[First(s)] + h[s \ {First(s)}] \in Nat
        <5>1. s # {}
          BY <3>4, <4>1
        <5>2. f[First(s)] \in Nat /\ h[s \ {First(s)}] \in Nat
          BY <3>3, <3>6, <5>1
        <5> QED
          BY <5>2
      <4>2. ASSUME NEW s \in Upto(n - 1) PROVE h[s] \in Nat
        BY <3>2
      <4> QED
        BY <4>1, <4>2
    <3>8. ASSUME NEW s \in Upto(n) PROVE g[s] = IF s = {} THEN 0 ELSE f[First(s)] + g[s \ {First(s)}]
      <4>1. CASE s = {}
        BY <3>2, <3>4, <4>1 DEF Sums
      <4>2. CASE s # {}
        <5> DEFINE r == s \ {First(s)}
        <5>1. r \in Upto(n - 1) /\ r \in Upto(n)
          BY <3>3, <3>5, <4>2
        <5> HIDE DEF r
        <5>2. g[r] = h[r]
          BY <5>1
        <5>3. g[s] = f[First(s)] + h[r]
          <6>1. CASE s \in Upto(n - 1)
            BY <3>2, <4>2, <6>1 DEF Sums, r
          <6>2. CASE s \notin Upto(n - 1)
            BY <6>2 DEF r
          <6> QED
            BY <6>1, <6>2
        <5> QED
          BY <4>2, <5>2, <5>3 DEF r
      <4> QED
        BY <4>1, <4>2
    <3> HIDE DEF g
    <3>9. Sums(g, f, Upto(n))
      BY <3>8 DEF Sums
    <3> QED
      BY <2>2, <3>7, <3>9
  <2> QED
    BY <2>3, <2>4
<1>4. \E g \in [Upto(Cardinality(S)) -> Nat] : Sums(g, f, Upto(Cardinality(S)))
  BY <1>1, <1>3
<1> QED
  BY <1>2, <1>4

LEMMA SumIs ==
    ASSUME NEW S, IsFiniteSet(S), NEW f \in [S -> Nat]
    PROVE  \E g \in [SUBSET S -> Nat] : Sums(g, f, SUBSET S) /\ SumFunction(f) = g[S]
<1> DEFINE Fix(it) == [s \in SUBSET S |-> IF s = {} THEN 0 ELSE f[First(s)] + it[s \ {First(s)}]]
           c == CHOOSE it : it = Fix(it)
<1>1. S = DOMAIN f
  OBVIOUS
<1>2. SumFunction(f) = c[S]
  BY <1>1 DEF SumFunction, SumFunctionOnSet, FoldFunctionOnSet, MapThenFoldSet, First
<1>3. PICK g \in [SUBSET S -> Nat] : Sums(g, f, SUBSET S)
  BY SumsExist
<1>4. g = Fix(g)
  BY <1>3 DEF Sums
<1>5. c = Fix(c)
  BY <1>4
<1>6. \A s \in SUBSET S : c[s] = IF s = {} THEN 0 ELSE f[First(s)] + c[s \ {First(s)}]
  <2>1. DOMAIN c = SUBSET S
    BY <1>5
  <2> QED
    BY <1>5
<1> HIDE DEF c, Fix
<1> DEFINE G == {s \in SUBSET S : c[s] = g[s]}
<1>7. {} \in G
  BY <1>3, <1>6 DEF Sums
<1>8. ASSUME NEW s \in SUBSET S, s # {}, s \ {First(s)} \in G PROVE s \in G
  BY <1>3, <1>6, <1>8 DEF Sums
<1> HIDE DEF G
<1>9. \A s \in SUBSET S : s \in G
  BY <1>7, <1>8, AllSubsets
<1>10. c[S] = g[S]
  BY <1>9 DEF G
<1> QED
  BY <1>2, <1>3, <1>10

LEMMA SumType ==
    ASSUME NEW S, IsFiniteSet(S), NEW f \in [S -> Nat]
    PROVE  SumFunction(f) \in Nat
<1>1. PICK g \in [SUBSET S -> Nat] : Sums(g, f, SUBSET S) /\ SumFunction(f) = g[S]
  BY SumIs
<1> QED
  BY <1>1

\* A sum whose summands are all 0.
LEMMA SumZero ==
    ASSUME NEW S, IsFiniteSet(S), NEW f \in [S -> Nat], \A x \in S : f[x] = 0
    PROVE  SumFunction(f) = 0
<1>1. PICK g \in [SUBSET S -> Nat] : Sums(g, f, SUBSET S) /\ SumFunction(f) = g[S]
  BY SumIs
<1> DEFINE G == {s \in SUBSET S : g[s] = 0}
<1>2. {} \in G
  BY <1>1 DEF Sums
<1>3. ASSUME NEW s \in SUBSET S, s # {}, s \ {First(s)} \in G PROVE s \in G
  <2>1. First(s) \in S
    BY <1>3, FirstOut
  <2> QED
    BY <1>1, <1>3, <2>1 DEF Sums
<1> HIDE DEF G
<1>4. S \in G
  BY <1>2, <1>3, AllSubsets
<1> QED
  BY <1>1, <1>4 DEF G

\* The summand of one index changes.
LEMMA SumUpdate ==
    ASSUME NEW S, IsFiniteSet(S), NEW f \in [S -> Nat], NEW h \in [S -> Nat], NEW x \in S,
           \A y \in S \ {x} : h[y] = f[y]
    PROVE  SumFunction(h) + f[x] = SumFunction(f) + h[x]
<1>1. PICK g \in [SUBSET S -> Nat] : Sums(g, f, SUBSET S) /\ SumFunction(f) = g[S]
  BY SumIs
<1>2. PICK k \in [SUBSET S -> Nat] : Sums(k, h, SUBSET S) /\ SumFunction(h) = k[S]
  BY SumIs
<1> DEFINE G == {s \in SUBSET S : IF x \in s THEN k[s] + f[x] = g[s] + h[x] ELSE k[s] = g[s]}
<1>3. {} \in G
  BY <1>1, <1>2 DEF Sums
<1>4. ASSUME NEW s \in SUBSET S, s # {}, s \ {First(s)} \in G PROVE s \in G
  <2> DEFINE y == First(s)
             r == s \ {First(s)}
  <2>1. y \in s /\ r \in SUBSET S
    BY <1>4, FirstOut
  <2>2. g[s] = f[y] + g[r] /\ k[s] = h[y] + k[r]
    BY <1>1, <1>2, <1>4 DEF Sums
  <2>3. x \in r <=> x \in s /\ x # y
    OBVIOUS
  <2>4. IF x \in r THEN k[r] + f[x] = g[r] + h[x] ELSE k[r] = g[r]
    BY <1>4
  <2> HIDE DEF y, r
  <2>5. f[y] \in Nat /\ h[y] \in Nat /\ f[x] \in Nat /\ h[x] \in Nat /\ y \in S
    BY <2>1
  <2>6. g[r] \in Nat /\ k[r] \in Nat /\ g[s] \in Nat /\ k[s] \in Nat
    BY <1>1, <1>2, <2>1
  <2>7. CASE y = x
    BY <2>1, <2>2, <2>3, <2>4, <2>5, <2>6, <2>7
  <2>8. CASE y # x
    BY <2>1, <2>2, <2>3, <2>4, <2>5, <2>6, <2>8
  <2> QED
    BY <2>7, <2>8
<1> HIDE DEF G
<1>5. S \in G
  BY <1>3, <1>4, AllSubsets
<1> QED
  BY <1>1, <1>2, <1>5 DEF G

-----------------------------------------------------------------------------
(* The steps, as the next invariants see them.                             *)

\* The loop spawns a node that was not spawned before and may run.
Spawns == \E n \in Nodes \ executed : CanRun(n) /\ SpawnNode(n)

LEMMA MainKinds ==
    ASSUME TInv, QInv, MainStep
    PROVE  /\ UNCHANGED <<wf, completed, starts>>
           /\ \/ Spawns /\ UNCHANGED steps
              \/ NoSpawn /\ UNCHANGED steps
              \/ CancelArm
              \/ \E n \in active : JoinNext(n)
<1>1. CASE CancelArm
  BY <1>1 DEF CancelArm
<1>2. CASE RecvNode \/ ScanEnd
  BY <1>2 DEF RecvNode, ScanEnd, NoSpawn
<1>3. CASE RecvNext
  <2>1. Head(finished).node \in Nodes
    BY <1>3, MessageType DEF RecvNext, TInv, TypeOK
  <2> QED
    BY <1>3, <2>1 DEF RecvNext, Spawns
<1>4. ASSUME NEW n \in Nodes, ScanNode(n)
      PROVE  UNCHANGED <<wf, completed, starts, steps>> /\ (Spawns \/ NoSpawn)
  <2>1. n \notin executed
    BY <1>4 DEF ScanNode, QInv, ScanFresh
  <2> QED
    BY <1>4, <2>1 DEF ScanNode, Spawns
<1>5. ASSUME NEW n \in Nodes, JoinNext(n) PROVE UNCHANGED <<wf, completed, starts>> /\ n \in active
  BY <1>5 DEF JoinNext
<1> QED
  BY <1>1, <1>2, <1>3, <1>4, <1>5 DEF MainStep

\* A task begins a step,
Begins(n) ==
    /\ UNCHANGED <<finished, completed>>
    /\ starts' = [starts EXCEPT ![task[n].node] = @ + 1]
    /\ task[n].pc = "check" /\ task'[n].pc = "run"
    /\ task'[n].node = task[n].node /\ task'[n].steps = task[n].steps + 1

\* ends one: its path too, or it runs the step again, or goes on with another,
Ends(n) ==
    /\ UNCHANGED <<finished, starts>>
    /\ task'[n].steps = task[n].steps
    /\ \/ task'[n].pc = "send" /\ task'[n].node = task[n].node
       \/ /\ task'[n].pc = "check" /\ task'[n].node = task[n].node
          /\ wf.repeat[task[n].node] # 0
       \/ /\ task'[n].pc = "check" /\ task'[n].node \in Nodes
          /\ Cardinality(wf.deps[task'[n].node]) <= 1 \/ CatchTarget(task'[n].node)

\* or reports.
Reports(n) ==
    /\ UNCHANGED <<starts, completed>>
    /\ task'[n].steps = task[n].steps /\ task'[n].node = task[n].node
    /\ \/ /\ task'[n].pc = "send"
          /\ \E m \in UsedNodes : finished' = Append(finished, [kind |-> "next", node |-> m])
       \/ /\ task'[n].pc = "returned"
          /\ finished' = Append(finished, [kind |-> "node", node |-> task[n].node])

LEMMA TaskKinds ==
    ASSUME TInv, NEW n \in active, TaskStep(n)
    PROVE  /\ UNCHANGED <<wf, loop>> /\ completed \subseteq completed'
           /\ \A k \in Nodes \ {n} : task'[k] = task[k]
           /\ Begins(n) \/ Ends(n) \/ Reports(n)
<1> DEFINE m == task[n].node
           Kind == Begins(n) \/ Ends(n) \/ Reports(n)
           Others == \A k \in Nodes \ {n} : task'[k] = task[k]
<1>0. /\ n \in Nodes /\ m \in Nodes /\ task \in [Nodes -> TaskType] /\ task[n] \in TaskType
      /\ finished \in Seq([kind : {"node", "next"}, node : Nodes])
  BY DEF TInv, TypeOK, TaskInv
<1>1. UNCHANGED <<wf, loop>> /\ completed \subseteq completed'
  BY DEF TaskStep, ToolStep, Begin, Repeat, EvalFails, Fail, Succeed, Send, Complete
<1> SUFFICES Others /\ Kind
  BY <1>1
<1>2. ASSUME NEW out, NEW r, Finish(n, out, r), UNCHANGED <<finished, starts>> PROVE Others /\ Kind
  <2>1. task'[n].pc = "send" /\ task'[n].node = m /\ task'[n].steps = task[n].steps /\ Others
    BY <1>0, <1>2 DEF Finish, TaskType
  <2> QED
    BY <1>2, <2>1 DEF Ends
<1>3. ASSUME NEW p \in Nodes, Continue(n, p), UNCHANGED <<finished, starts>>,
             Cardinality(wf.deps[p]) <= 1 \/ CatchTarget(p)
      PROVE  Others /\ Kind
  <2>1. task'[n].pc = "check" /\ task'[n].node = p /\ task'[n].steps = task[n].steps /\ Others
    BY <1>0, <1>3 DEF Continue, TaskType
  <2> QED
    BY <1>3, <2>1 DEF Ends
<1>4. CASE Begin(n)
  <2>1. CASE task' = [task EXCEPT ![n].pc = "run", ![n].steps = @ + 1]
             /\ starts' = [starts EXCEPT ![m] = @ + 1]
    <3>1. task'[n].pc = "run" /\ task'[n].node = m /\ task'[n].steps = task[n].steps + 1 /\ Others
      BY <1>0, <2>1 DEF TaskType
    <3> QED
      BY <1>1, <1>4, <2>1, <3>1 DEF Begin, Begins, At
  <2> QED
    BY <1>1, <1>2, <1>4, <2>1 DEF Begin
<1>5. CASE Repeat(n)
  <2>1. task'[n].pc = "check" /\ task'[n].node = m /\ task'[n].steps = task[n].steps /\ Others
    BY <1>0, <1>5 DEF Repeat, TaskType
  <2>2. wf.repeat[m] # 0
    <3>1. task[n].iter \in Nat /\ task[n].iter + 1 < wf.repeat[m]
      BY <1>0, <1>5 DEF Repeat, TaskType
    <3> QED
      BY <3>1
  <2> QED
    BY <1>1, <1>5, <2>1, <2>2 DEF Repeat, Ends
<1>6. CASE EvalFails(n)
  BY <1>1, <1>2, <1>6 DEF EvalFails
<1>7. CASE Fail(n)
  <2>1. CASE wf.onError[m].action = "goto" /\ Continue(n, wf.onError[m].step)
    <3>1. wf.onError[m].step \in Nodes
      BY <1>0, WfType DEF TInv
    <3>2. CatchTarget(wf.onError[m].step)
      BY <1>0, <2>1 DEF CatchTarget
    <3> QED
      BY <1>1, <1>3, <1>7, <2>1, <3>1, <3>2 DEF Fail
  <2> QED
    BY <1>1, <1>2, <1>7, <2>1 DEF Fail
<1>8. ASSUME NEW truth, Succeed(n, truth) PROVE Others /\ Kind
  <2> DEFINE to(i) == wf.edges[m][i].to
             out == {i \in Taken(m, truth) : to(i) # Return}
  <2>1. out \subseteq StepEdges(m)
    BY DEF Taken, StepEdges
  <2>2. ASSUME NEW i \in out, Continue(n, to(i)), Cardinality(wf.deps[to(i)]) <= 1
        PROVE  Others /\ Kind
    <3>1. to(i) \in Nodes
      BY <1>0, <2>1, StepEdgeTarget DEF TInv
    <3> QED
      BY <1>3, <1>8, <2>2, <3>1 DEF Succeed
  <2> QED
    BY <1>2, <1>8, <2>2 DEF Succeed
<1>9. CASE Send(n)
  <2>0. task[n].out \subseteq StepEdges(m) /\ task[n].out \subseteq Nat /\ task[n].pc = "send"
    BY <1>0, <1>9 DEF Send, At, TInv, TaskInv, TaskType
  <2>1. CASE /\ task[n].out # {}
             /\ finished' = Append(finished, [kind |-> "next", node |-> wf.edges[m][Min(task[n].out)].to])
             /\ task' = [task EXCEPT ![n].out = @ \ {Min(@)}]
    <3>1. Min(task[n].out) \in StepEdges(m)
      BY <2>0, <2>1, MinIn
    <3>2. wf.edges[m][Min(task[n].out)].to \in UsedNodes
      <4>1. wf.edges[m][Min(task[n].out)].to \in Nodes
        BY <1>0, <3>1, StepEdgeTarget DEF TInv
      <4> QED
        BY <1>0, <3>1, <4>1 DEF UsedNodes, StepEdges
    <3>3. task'[n].pc = "send" /\ task'[n].node = m /\ task'[n].steps = task[n].steps /\ Others
      BY <1>0, <2>0, <2>1 DEF TaskType
    <3> QED
      BY <1>9, <2>1, <3>2, <3>3 DEF Send, Reports
  <2>2. CASE /\ finished' = Append(finished, [kind |-> "node", node |-> m])
             /\ task' = [task EXCEPT ![n].pc = "returned"]
    <3>1. task'[n].pc = "returned" /\ task'[n].node = m /\ task'[n].steps = task[n].steps /\ Others
      BY <1>0, <2>2 DEF TaskType
    <3> QED
      BY <1>9, <2>2, <3>1 DEF Send, Reports
  <2> QED
    BY <1>9, <2>1, <2>2 DEF Send
<1> HIDE DEF Kind, Others
<1> QED
  BY <1>4, <1>5, <1>6, <1>7, <1>8, <1>9 DEF TaskStep, ToolStep

LEMMA OtherKinds ==
    ASSUME RequestCancel \/ UNCHANGED vars
    PROVE  UNCHANGED <<wf, loop, completed, finished, task, starts>>
BY DEF RequestCancel, vars, loop

-----------------------------------------------------------------------------
(* A join begins once.                                                     *)

\* A node that joins others: no task is continued with it, and only the main
\* loop spawns it.
JoinNode(n) == Cardinality(wf.deps[n]) >= 2 /\ ~CatchTarget(n) /\ n # wf.entry

JoinSpawned(n) ==
    /\ n \in executed => CanRun(n)
    /\ n \notin executed => starts[n] = 0

JoinBegun(n) ==
    /\ \A k \in active : task[k].node = n => k = n
    /\ wf.repeat[n] = 0 =>
          /\ starts[n] <= 1
          /\ n \in active /\ task[n].pc = "check" /\ task[n].node = n => starts[n] = 0

JoinInv == \A n \in Nodes : JoinNode(n) => JoinSpawned(n) /\ JoinBegun(n)

\* Completed nodes stay so, and then a node that may run may run.
LEMMA CanRunStays ==
    ASSUME TInv, TInv', wf' = wf, completed \subseteq completed', NEW n \in Nodes, CanRun(n)
    PROVE  CanRun(n)'
<1> DEFINE deps == wf.deps[n]
           done == deps \cap completed
           done2 == deps \cap completed'
<1>1. deps \subseteq Nodes
  BY WfType DEF TInv
<1>2. /\ IsFiniteSet(deps) /\ IsFiniteSet(done) /\ IsFiniteSet(done2)
      /\ Cardinality(deps) \in Nat /\ Cardinality(done) \in Nat /\ Cardinality(done2) \in Nat
  <2>1. done \subseteq Nodes /\ done2 \subseteq Nodes
    BY <1>1
  <2> QED
    BY <1>1, <2>1, NodesFinite
<1>3. Cardinality(done) <= Cardinality(done2) /\ Cardinality(done2) <= Cardinality(deps)
  <2>1. done \in SUBSET done2 /\ done2 \in SUBSET deps
    OBVIOUS
  <2> HIDE DEF done, done2, deps
  <2> QED
    BY <1>2, <2>1, FS_Subset
<1>4. wf.join[n].min \in Nat
  BY WorkflowsAssumption DEF TInv, TypeOK, WorkflowType
<1>5. wf'.deps[n] = deps /\ wf'.join[n] = wf.join[n]
  OBVIOUS
<1>6. \/ deps = {}
      \/ wf.join[n].policy = "all" /\ Cardinality(done) = Cardinality(deps)
      \/ wf.join[n].policy = "any" /\ Cardinality(done) > 0
      \/ wf.join[n].policy = "quorum" /\ Cardinality(done) >= wf.join[n].min
      \/ wf.join[n].policy = "lenient"
  BY DEF CanRun
<1>7. \/ deps = {}
      \/ wf.join[n].policy = "all" /\ Cardinality(done2) = Cardinality(deps)
      \/ wf.join[n].policy = "any" /\ Cardinality(done2) > 0
      \/ wf.join[n].policy = "quorum" /\ Cardinality(done2) >= wf.join[n].min
      \/ wf.join[n].policy = "lenient"
  <2> HIDE DEF deps, done, done2
  <2> QED
    BY <1>2, <1>3, <1>4, <1>6
<1> QED
  BY <1>5, <1>7 DEF CanRun

LEMMA JoinMain ==
    ASSUME TInv, TInv', QInv, JoinInv, MainStep
    PROVE  JoinInv'
<1>0. UNCHANGED <<wf, completed, starts>>
  BY MainKinds
<1> SUFFICES ASSUME NEW n \in Nodes, JoinNode(n)' PROVE JoinSpawned(n)' /\ JoinBegun(n)'
  BY DEF JoinInv
<1>1. JoinNode(n) /\ JoinSpawned(n) /\ JoinBegun(n)
  BY <1>0 DEF JoinInv, JoinNode, CatchTarget
<1>2. CanRun(n) => CanRun(n)'
  BY <1>0, CanRunStays
<1>3. ASSUME NEW m \in Nodes \ executed, CanRun(m), SpawnNode(m)
      PROVE  JoinSpawned(n)' /\ JoinBegun(n)'
  <2>1. /\ executed' = executed \cup {m} /\ active' = active \cup {m}
        /\ task'[m].node = m /\ \A k \in Nodes \ {m} : task'[k] = task[k]
    BY <1>3 DEF SpawnNode, TInv, TypeOK, New, Idle
  <2>2. JoinSpawned(n)'
    BY <1>0, <1>1, <1>2, <1>3, <2>1 DEF JoinSpawned
  <2>3. active \subseteq Nodes
    BY DEF TInv, TypeOK
  <2>4. m = n => starts[n] = 0
    BY <1>1, <1>3 DEF JoinSpawned
  <2> QED
    BY <1>0, <1>1, <2>1, <2>2, <2>3, <2>4 DEF JoinBegun
<1>4. ASSUME executed' = executed, active' \subseteq active, task' = task
      PROVE  JoinSpawned(n)' /\ JoinBegun(n)'
  BY <1>0, <1>1, <1>2, <1>4 DEF JoinSpawned, JoinBegun
<1>5. CASE CancelArm
  BY <1>4, <1>5 DEF CancelArm
<1>6. ASSUME NEW k \in active, JoinNext(k) PROVE JoinSpawned(n)' /\ JoinBegun(n)'
  BY <1>4, <1>6 DEF JoinNext
<1>7. CASE NoSpawn
  BY <1>4, <1>7 DEF NoSpawn
<1> QED
  BY <1>3, <1>5, <1>6, <1>7, MainKinds DEF Spawns

LEMMA JoinTask ==
    ASSUME TInv, TInv', JoinInv, NEW k \in active, TaskStep(k)
    PROVE  JoinInv'
<1>0. /\ UNCHANGED <<wf, loop>> /\ completed \subseteq completed'
      /\ \A j \in Nodes \ {k} : task'[j] = task[j]
      /\ Begins(k) \/ Ends(k) \/ Reports(k)
  BY TaskKinds
<1>1. /\ executed' = executed /\ active' = active /\ active \subseteq Nodes /\ k \in Nodes
      /\ active \subseteq executed /\ starts \in [Nodes -> Nat] /\ task[k].node \in Nodes
  BY <1>0 DEF loop, TInv, TypeOK, TaskInv
<1> SUFFICES ASSUME NEW n \in Nodes, JoinNode(n)' PROVE JoinSpawned(n)' /\ JoinBegun(n)'
  BY DEF JoinInv
<1>2. JoinNode(n) /\ JoinSpawned(n) /\ JoinBegun(n)
  BY <1>0 DEF JoinInv, JoinNode, CatchTarget
<1>3. CanRun(n) => CanRun(n)'
  BY <1>0, CanRunStays
<1>4. task[k].node = n => k = n
  BY <1>2 DEF JoinBegun
<1>5. CASE Begins(k)
  <2>1. /\ starts' = [starts EXCEPT ![task[k].node] = @ + 1]
        /\ task[k].pc = "check" /\ task'[k].pc = "run" /\ task'[k].node = task[k].node
    BY <1>5 DEF Begins
  <2>2. CASE task[k].node = n
    <3>1. k = n /\ n \in executed /\ starts'[n] = starts[n] + 1
      BY <1>1, <1>4, <2>1, <2>2
    <3>2. JoinSpawned(n)'
      BY <1>1, <1>2, <1>3, <3>1 DEF JoinSpawned
    <3>3. wf.repeat[n] = 0 => starts[n] = 0
      BY <1>2, <2>1, <2>2, <3>1 DEF JoinBegun
    <3>4. wf.repeat[n] = 0 => starts'[n] <= 1
      BY <3>1, <3>3
    <3> QED
      BY <1>0, <1>1, <1>2, <2>1, <3>1, <3>2, <3>4 DEF JoinBegun
  <2>3. CASE task[k].node # n
    <3>1. starts'[n] = starts[n]
      BY <1>1, <2>1, <2>3
    <3> QED
      BY <1>0, <1>1, <1>2, <1>3, <2>1, <2>3, <3>1 DEF JoinSpawned, JoinBegun
  <2> QED
    BY <2>2, <2>3
<1>6. CASE Ends(k)
  <2>1. starts' = starts
    BY <1>6 DEF Ends
  <2>2. JoinSpawned(n)'
    BY <1>1, <1>2, <1>3, <2>1 DEF JoinSpawned
  <2>3. task'[k].node = n => k = n
    <3>1. CASE task'[k].node = task[k].node
      BY <1>4, <3>1
    <3>2. CASE Cardinality(wf.deps[task'[k].node]) <= 1 \/ CatchTarget(task'[k].node)
      <4>1. Cardinality(wf.deps[n]) \in Nat
        BY WfType, NodesFinite DEF TInv
      <4> QED
        BY <1>2, <3>2, <4>1 DEF JoinNode
    <3> QED
      BY <1>6, <3>1, <3>2 DEF Ends
  <2>4. wf.repeat[n] = 0 => ~(task'[k].node = n /\ task'[k].pc = "check")
    <3>1. Cardinality(wf.deps[n]) \in Nat
      BY WfType, NodesFinite DEF TInv
    <3> QED
      BY <1>2, <1>6, <3>1 DEF JoinNode, Ends
  <2> QED
    BY <1>0, <1>1, <1>2, <2>1, <2>2, <2>3, <2>4 DEF JoinBegun
<1>7. CASE Reports(k)
  <2>1. starts' = starts /\ task'[k].node = task[k].node /\ task'[k].pc # "check"
    BY <1>7 DEF Reports
  <2> QED
    BY <1>0, <1>1, <1>2, <1>3, <2>1 DEF JoinSpawned, JoinBegun
<1> QED
  BY <1>0, <1>5, <1>6, <1>7

LEMMA JoinStep == TInv /\ TInv' /\ QInv /\ JoinInv /\ [Next]_vars => JoinInv'
<1> SUFFICES ASSUME TInv, TInv', QInv, JoinInv, [Next]_vars PROVE JoinInv'
  OBVIOUS
<1>1. CASE MainStep
  BY <1>1, JoinMain
<1>2. ASSUME NEW n \in active, TaskStep(n) PROVE JoinInv'
  BY <1>2, JoinTask
<1>3. CASE RequestCancel \/ UNCHANGED vars
  <2>1. UNCHANGED <<wf, loop, completed, finished, task, starts>>
    BY <1>3, OtherKinds
  <2> QED
    BY <2>1 DEF loop, JoinInv, JoinNode, CatchTarget, JoinSpawned, JoinBegun, CanRun
<1> QED
  BY <1>1, <1>2, <1>3 DEF Next, Returned

LEMMA InitJoin == Init => JoinInv
<1> SUFFICES ASSUME Init, NEW n \in Nodes, JoinNode(n) PROVE JoinSpawned(n) /\ JoinBegun(n)
  BY DEF JoinInv
<1>1. n # wf.entry /\ wf.entry \in Nodes
  BY InitType, WfType DEF JoinNode, TInv
<1>2. starts[n] = 0 /\ n \notin executed /\ active = {wf.entry} /\ task[wf.entry].node = wf.entry
  BY <1>1 DEF Init, New, Idle
<1> QED
  BY <1>1, <1>2 DEF JoinSpawned, JoinBegun

\* A step that joins several others begins once, and only when its join policy
\* holds, whatever the order in which its predecessors end.
THEOREM JoinsBeginOnce == Spec => []JoinOnce
<1>1. ASSUME TInv, JoinInv PROVE JoinOnce
  <2> SUFFICES ASSUME NEW n \in Nodes, Cardinality(wf.deps[n]) >= 2, ~CatchTarget(n), n # wf.entry, starts[n] > 0
               PROVE  CanRun(n) /\ (wf.repeat[n] = 0 => starts[n] = 1)
    BY DEF JoinOnce
  <2>1. JoinSpawned(n) /\ JoinBegun(n)
    BY <1>1 DEF JoinInv, JoinNode
  <2>2. starts[n] \in Nat
    BY <1>1 DEF TInv, TypeOK
  <2> QED
    BY <2>1, <2>2 DEF JoinSpawned, JoinBegun
<1>2. Spec => [](TInv /\ QInv)
  BY InitType, InitQuiet, TypeStep, QuietStep, PTL DEF Spec
<1> QED
  BY <1>1, <1>2, InitJoin, JoinStep, PTL DEF Spec

-----------------------------------------------------------------------------
(* The budget of steps.                                                    *)

\* What the tasks of the JoinSet have begun and the loop has not counted yet.
Unjoined == [n \in Nodes |-> IF n \in active THEN task[n].steps ELSE 0]

BudgetInv ==
    Alive => steps + SumFunction(Unjoined) = SumFunction(starts) /\ steps <= MaxSteps

LEMMA SumsTyped ==
    ASSUME TInv
    PROVE  /\ IsFiniteSet(Nodes) /\ Unjoined \in [Nodes -> Nat] /\ starts \in [Nodes -> Nat]
           /\ SumFunction(Unjoined) \in Nat /\ SumFunction(starts) \in Nat
<1>1. IsFiniteSet(Nodes) /\ starts \in [Nodes -> Nat] /\ \A n \in Nodes : task[n].steps \in Nat
  BY ExecutorAssumption DEF TInv, TypeOK, TaskType
<1>2. Unjoined \in [Nodes -> Nat]
  BY <1>1 DEF Unjoined
<1> QED
  BY <1>1, <1>2, SumType

LEMMA SumsTypedNext ==
    ASSUME TInv'
    PROVE  /\ Unjoined' \in [Nodes -> Nat] /\ starts' \in [Nodes -> Nat]
           /\ SumFunction(Unjoined') \in Nat /\ SumFunction(starts') \in Nat
<1>1. IsFiniteSet(Nodes) /\ starts' \in [Nodes -> Nat] /\ \A n \in Nodes : task'[n].steps \in Nat
  BY ExecutorAssumption DEF TInv, TypeOK, TaskType
<1>2. Unjoined' \in [Nodes -> Nat]
  BY <1>1 DEF Unjoined
<1> QED
  BY <1>1, <1>2, SumType

LEMMA BudgetMain ==
    ASSUME TInv, TInv', QInv, BudgetInv, MainStep
    PROVE  BudgetInv'
<1>0. starts' = starts /\ status = "running"
  BY MainKinds DEF MainStep, CancelArm, RecvNode, RecvNext, ScanEnd, JoinNext, ScanNode, AtSelect,
     QInv, ScanFresh
<1>1. steps + SumFunction(Unjoined) = SumFunction(starts) /\ steps <= MaxSteps
  BY <1>0 DEF BudgetInv, Alive
<1>t. /\ IsFiniteSet(Nodes) /\ Unjoined \in [Nodes -> Nat] /\ Unjoined' \in [Nodes -> Nat]
      /\ SumFunction(Unjoined) \in Nat /\ SumFunction(Unjoined') \in Nat /\ SumFunction(starts) \in Nat
      /\ steps \in Nat /\ MaxSteps \in Nat
  BY SumsTyped, SumsTypedNext, ExecutorAssumption DEF TInv, TypeOK
<1>2. ASSUME steps' = steps, Unjoined' = Unjoined PROVE BudgetInv'
  BY <1>0, <1>1, <1>2 DEF BudgetInv
<1>3. ASSUME NEW m \in Nodes \ executed, SpawnNode(m), steps' = steps PROVE BudgetInv'
  <2>1. /\ active' = active \cup {m} /\ m \notin active
        /\ task'[m].steps = 0 /\ \A k \in Nodes \ {m} : task'[k] = task[k]
    BY <1>3 DEF SpawnNode, TInv, TypeOK, TaskInv, New, Idle
  <2>2. Unjoined' = Unjoined
    BY <2>1 DEF Unjoined
  <2> QED
    BY <1>2, <1>3, <2>2
<1>4. CASE NoSpawn /\ UNCHANGED steps
  BY <1>2, <1>4 DEF NoSpawn, Unjoined
<1>5. CASE CancelArm
  BY <1>5 DEF CancelArm, BudgetInv, Alive
<1>6. ASSUME NEW n \in active, JoinNext(n) PROVE BudgetInv'
  <2>0. n \in Nodes /\ task[n].steps \in Nat
    BY DEF TInv, TypeOK, TaskType
  <2>1. CASE active' = active \ {n} /\ steps' = steps + task[n].steps /\ steps' <= MaxSteps
    <3>1. task' = task
      BY <1>6 DEF JoinNext
    <3>2. Unjoined[n] = task[n].steps /\ Unjoined'[n] = 0
      BY <2>0, <2>1 DEF Unjoined
    <3>3. \A k \in Nodes \ {n} : Unjoined'[k] = Unjoined[k]
      BY <2>1, <3>1 DEF Unjoined
    <3>4. SumFunction(Unjoined') + Unjoined[n] = SumFunction(Unjoined) + Unjoined'[n]
      BY <1>t, <2>0, <3>3, SumUpdate
    <3>5. steps' + SumFunction(Unjoined') = SumFunction(starts)
      BY <1>1, <1>t, <2>0, <2>1, <3>2, <3>4
    <3> QED
      BY <1>0, <2>1, <3>5 DEF BudgetInv
  <2>2. CASE status' \in {"failed", "cancelled", "max_steps"}
    BY <2>2 DEF BudgetInv, Alive
  <2> QED
    BY <1>6, <2>1, <2>2 DEF JoinNext
<1> QED
  BY <1>3, <1>4, <1>5, <1>6, MainKinds DEF Spawns

LEMMA BudgetTask ==
    ASSUME TInv, TInv', BudgetInv, NEW k \in active, TaskStep(k)
    PROVE  BudgetInv'
<1>0. /\ UNCHANGED loop
      /\ \A j \in Nodes \ {k} : task'[j] = task[j]
      /\ Begins(k) \/ Ends(k) \/ Reports(k)
  BY TaskKinds
<1>1. /\ active' = active /\ k \in Nodes /\ status' = status /\ steps' = steps
      /\ task[k].node \in Nodes /\ task[k].steps \in Nat
  BY <1>0 DEF loop, TInv, TypeOK, TaskInv, TaskType
<1>t. /\ IsFiniteSet(Nodes) /\ Unjoined \in [Nodes -> Nat] /\ Unjoined' \in [Nodes -> Nat]
      /\ SumFunction(Unjoined) \in Nat /\ SumFunction(Unjoined') \in Nat
      /\ starts \in [Nodes -> Nat] /\ starts' \in [Nodes -> Nat]
      /\ SumFunction(starts) \in Nat /\ SumFunction(starts') \in Nat
      /\ steps \in Nat
  BY SumsTyped, SumsTypedNext DEF TInv, TypeOK
<1>2. \A j \in Nodes \ {k} : Unjoined'[j] = Unjoined[j]
  BY <1>0, <1>1 DEF Unjoined
<1>3. Unjoined[k] = task[k].steps /\ Unjoined'[k] = task'[k].steps
  BY <1>1 DEF Unjoined
<1>4. CASE Begins(k)
  <2> DEFINE m == task[k].node
  <2>1. task'[k].steps = task[k].steps + 1 /\ starts' = [starts EXCEPT ![m] = @ + 1]
    BY <1>4 DEF Begins
  <2>2. starts'[m] = starts[m] + 1 /\ starts[m] \in Nat /\ \A j \in Nodes \ {m} : starts'[j] = starts[j]
    BY <1>1, <1>t, <2>1
  <2>3. SumFunction(starts') + starts[m] = SumFunction(starts) + starts'[m]
    <3>1. m \in Nodes
      BY <1>1
    <3> HIDE DEF m
    <3> QED
      BY <1>t, <2>2, <3>1, SumUpdate
  <2>4. SumFunction(Unjoined') + Unjoined[k] = SumFunction(Unjoined) + Unjoined'[k]
    BY <1>1, <1>2, <1>t, SumUpdate
  <2>5. SumFunction(starts') = SumFunction(starts) + 1
    BY <1>t, <2>2, <2>3
  <2>6. SumFunction(Unjoined') = SumFunction(Unjoined) + 1
    BY <1>1, <1>3, <1>t, <2>1, <2>4
  <2> QED
    BY <1>1, <1>t, <2>5, <2>6 DEF BudgetInv, Alive
<1>5. CASE Ends(k) \/ Reports(k)
  <2>1. starts' = starts /\ task'[k].steps = task[k].steps
    BY <1>5 DEF Ends, Reports
  <2>2. Unjoined' = Unjoined
    BY <1>2, <1>3, <1>t, <2>1
  <2> QED
    BY <1>1, <2>1, <2>2 DEF BudgetInv, Alive
<1> QED
  BY <1>0, <1>4, <1>5

LEMMA BudgetStep == TInv /\ TInv' /\ QInv /\ BudgetInv /\ [Next]_vars => BudgetInv'
<1> SUFFICES ASSUME TInv, TInv', QInv, BudgetInv, [Next]_vars PROVE BudgetInv'
  OBVIOUS
<1>1. CASE MainStep
  BY <1>1, BudgetMain
<1>2. ASSUME NEW n \in active, TaskStep(n) PROVE BudgetInv'
  BY <1>2, BudgetTask
<1>3. CASE RequestCancel \/ UNCHANGED vars
  <2>1. UNCHANGED <<wf, loop, completed, finished, task, starts>>
    BY <1>3, OtherKinds
  <2>2. Unjoined' = Unjoined
    BY <2>1 DEF loop, Unjoined
  <2> QED
    BY <2>1, <2>2 DEF loop, BudgetInv, Alive
<1> QED
  BY <1>1, <1>2, <1>3 DEF Next, Returned

LEMMA InitBudget == Init => BudgetInv
<1> SUFFICES ASSUME Init PROVE BudgetInv
  OBVIOUS
<1>1. TInv
  BY InitType
<1>2. /\ IsFiniteSet(Nodes) /\ Unjoined \in [Nodes -> Nat] /\ starts \in [Nodes -> Nat]
  BY <1>1, SumsTyped
<1>3. \A n \in Nodes : starts[n] = 0 /\ Unjoined[n] = 0
  BY DEF Init, Unjoined, New, Idle
<1>4. SumFunction(starts) = 0 /\ SumFunction(Unjoined) = 0
  BY <1>2, <1>3, SumZero
<1>5. steps = 0 /\ 0 <= MaxSteps
  BY ExecutorAssumption DEF Init
<1> QED
  BY <1>4, <1>5 DEF BudgetInv

\* A workflow that is reported Done began as many steps as the loop counted, over
\* all tasks, chained steps and repeats: no more than max_steps.
THEOREM StepsAreBudgeted == Spec => []StepBudget
<1>1. ASSUME TInv, QInv, BudgetInv PROVE StepBudget
  <2> SUFFICES ASSUME status = "done" PROVE steps = SumFunction(starts) /\ steps <= MaxSteps
    BY DEF StepBudget
  <2>1. active = {}
    BY <1>1 DEF QInv, DoneExit
  <2>2. /\ IsFiniteSet(Nodes) /\ Unjoined \in [Nodes -> Nat] /\ \A n \in Nodes : Unjoined[n] = 0
    BY <1>1, <2>1, SumsTyped DEF Unjoined
  <2>3. SumFunction(Unjoined) = 0
    BY <2>2, SumZero
  <2>4. steps \in Nat
    BY <1>1 DEF TInv, TypeOK
  <2> QED
    BY <1>1, <2>3, <2>4 DEF BudgetInv, Alive
<1>2. Spec => [](TInv /\ QInv)
  BY InitType, InitQuiet, TypeStep, QuietStep, PTL DEF Spec
<1> QED
  BY <1>1, <1>2, InitBudget, BudgetStep, PTL DEF Spec

-----------------------------------------------------------------------------
(* Nothing is forgotten as long as there is room.                          *)

\* Only nodes that some edge, or the entry, leads to are named and spawned.
NamedAreUsed ==
    /\ executed \subseteq reachable /\ scan \subseteq reachable /\ reachable \subseteq UsedNodes
    /\ \A i \in DOMAIN finished : finished[i].kind = "next" => finished[i].node \in UsedNodes

\* A Node message is under way or will be sent.
NodeToCome == NodeAt(finished) # {} \/ \E k \in active : task[k].pc # "returned"

\* A node that may run and has not is about to be looked at, in this scan or in
\* the scan of a message to come.
LookedAtAgain ==
    MaxConcurrent >= Cardinality(UsedNodes) /\ Alive =>
        \A n \in reachable \ executed : CanRun(n) => n \in scan \/ NodeToCome

RoomInv == NamedAreUsed /\ LookedAtAgain

LEMMA UsedFinite ==
    ASSUME TInv
    PROVE  UsedNodes \subseteq Nodes /\ IsFiniteSet(UsedNodes) /\ Cardinality(UsedNodes) \in Nat
<1>1. UsedNodes \subseteq Nodes
  BY WfType DEF TInv, UsedNodes
<1> QED
  BY <1>1, NodesFinite

\* A node that was not spawned leaves room for itself.
LEMMA RoomForIt ==
    ASSUME TInv, NamedAreUsed, MaxConcurrent >= Cardinality(UsedNodes),
           NEW n \in UsedNodes, n \notin executed
    PROVE  HasRoom
<1>1. UsedNodes \subseteq Nodes /\ IsFiniteSet(UsedNodes) /\ Cardinality(UsedNodes) \in Nat
  BY UsedFinite
<1>2. active \in SUBSET UsedNodes /\ n \notin active
  BY DEF TInv, TaskInv, NamedAreUsed
<1>3. active \in SUBSET (UsedNodes \ {n})
  BY <1>2
<1>4. IsFiniteSet(UsedNodes \ {n}) /\ Cardinality(UsedNodes \ {n}) = Cardinality(UsedNodes) - 1
  BY <1>1, FS_RemoveElement
<1>5. Cardinality(active) <= Cardinality(UsedNodes \ {n}) /\ IsFiniteSet(active)
  BY <1>3, <1>4, FS_Subset
<1>6. Cardinality(active) \in Nat
  BY <1>5, FS_CardinalityType
<1> QED
  BY <1>1, <1>4, <1>5, <1>6, ExecutorAssumption DEF HasRoom

\* Receiving a SpawnNext leaves the Node messages.
LEMMA NodeStaysInTail ==
    ASSUME NEW M, NEW s \in Seq(M), s # <<>>, Head(s).kind # "node", NodeAt(s) # {}
    PROVE  NodeAt(Tail(s)) # {}
<1>1. PICK i \in 1 .. Len(s) : s[i].kind = "node"
  BY DEF NodeAt
<1>2. i # 1 /\ i \in Nat /\ i >= 1 /\ i <= Len(s) /\ Len(s) \in Nat /\ Len(Tail(s)) = Len(s) - 1
  BY <1>1
<1>3. i - 1 \in 1 .. Len(Tail(s)) /\ Tail(s)[i - 1] = s[(i - 1) + 1]
  BY <1>2
<1>4. (i - 1) + 1 = i
  BY <1>2
<1>5. i - 1 \in NodeAt(Tail(s))
  BY <1>1, <1>3, <1>4 DEF NodeAt
<1> QED
  BY <1>5

LEMMA TailOf ==
    ASSUME NEW M, NEW s \in Seq(M), s # <<>>, NEW i \in DOMAIN Tail(s)
    PROVE  \E j \in DOMAIN s : Tail(s)[i] = s[j]
<1>1. i + 1 \in DOMAIN s /\ Tail(s)[i] = s[i + 1]
  OBVIOUS
<1> QED
  BY <1>1

\* UsedNodes, CanRun and the like only depend on the workflow and on what completed.
LEMMA SameNodes ==
    ASSUME wf' = wf
    PROVE  UsedNodes' = UsedNodes /\ Cardinality(UsedNodes)' = Cardinality(UsedNodes)
BY DEF UsedNodes

LEMMA NamedStep ==
    ASSUME TInv, NamedAreUsed, [Next]_vars
    PROVE  NamedAreUsed'
<1>0. /\ finished \in Seq([kind : {"node", "next"}, node : Nodes])
      /\ executed \subseteq reachable /\ scan \subseteq reachable /\ reachable \subseteq UsedNodes
      /\ \A i \in DOMAIN finished : finished[i].kind = "next" => finished[i].node \in UsedNodes
  BY DEF TInv, TypeOK, NamedAreUsed
<1>1. wf' = wf
  BY DEF Next, MainStep, CancelArm, RecvNode, RecvNext, ScanEnd, JoinNext, ScanNode, TaskStep, ToolStep,
     Begin, Repeat, EvalFails, Fail, Succeed, Send, RequestCancel, Returned, vars
<1>2. UsedNodes' = UsedNodes
  BY <1>1, SameNodes
<1>3. ASSUME finished # <<>>, finished' = Tail(finished)
      PROVE  \A i \in DOMAIN finished' : finished'[i].kind = "next" => finished'[i].node \in UsedNodes
  BY <1>0, <1>3, TailOf
<1>4. CASE CancelArm \/ (\E n \in Nodes : JoinNext(n)) \/ RequestCancel \/ UNCHANGED vars
  <2>1. UNCHANGED <<executed, reachable, scan, finished>>
    BY <1>4 DEF CancelArm, JoinNext, RequestCancel, vars, loop
  <2> QED
    BY <1>0, <1>2, <2>1 DEF NamedAreUsed
<1>5. CASE RecvNode
  <2>1. /\ finished # <<>> /\ finished' = Tail(finished) /\ scan' = reachable \ executed
        /\ executed' = executed /\ reachable' = reachable
    BY <1>5 DEF RecvNode
  <2> QED
    BY <1>0, <1>2, <1>3, <2>1 DEF NamedAreUsed
<1>6. CASE RecvNext
  <2> DEFINE n == Head(finished).node
  <2>1. /\ finished # <<>> /\ finished' = Tail(finished) /\ scan' = scan /\ Head(finished).kind = "next"
        /\ executed' \in {executed, executed \cup {n}} /\ reachable' = reachable \cup {n}
    BY <1>6 DEF RecvNext, SpawnNode, NoSpawn
  <2>2. n \in UsedNodes
    <3>1. 1 \in DOMAIN finished /\ Head(finished) = finished[1]
      BY <1>0, <2>1
    <3> QED
      BY <1>0, <2>1, <3>1
  <2> QED
    BY <1>0, <1>2, <1>3, <2>1, <2>2 DEF NamedAreUsed
<1>7. ASSUME NEW n \in Nodes, ScanNode(n) PROVE NamedAreUsed'
  <2>1. /\ n \in scan /\ scan' \subseteq scan /\ UNCHANGED <<reachable, finished>>
        /\ executed' \in {executed, executed \cup {n}}
    BY <1>7 DEF ScanNode, SpawnNode, NoSpawn
  <2> QED
    BY <1>0, <1>2, <2>1 DEF NamedAreUsed
<1>8. CASE ScanEnd
  BY <1>0, <1>2, <1>8 DEF ScanEnd, NamedAreUsed
<1>9. ASSUME NEW k \in active, TaskStep(k) PROVE NamedAreUsed'
  <2>1. UNCHANGED loop /\ (Begins(k) \/ Ends(k) \/ Reports(k))
    BY <1>9, TaskKinds
  <2>2. UNCHANGED <<executed, reachable, scan>>
    BY <2>1 DEF loop
  <2>3. CASE finished' = finished
    BY <1>0, <1>2, <2>2, <2>3 DEF NamedAreUsed
  <2>4. ASSUME NEW e, finished' = Append(finished, e), e.kind = "next" => e.node \in UsedNodes
        PROVE  NamedAreUsed'
    <3>1. ASSUME NEW i \in DOMAIN finished', finished'[i].kind = "next" PROVE finished'[i].node \in UsedNodes
      <4>1. finished'[i] = e \/ (i \in DOMAIN finished /\ finished'[i] = finished[i])
        BY <1>0, <2>4
      <4> QED
        BY <1>0, <2>4, <3>1, <4>1
    <3> QED
      BY <1>0, <1>2, <2>2, <3>1 DEF NamedAreUsed
  <2> QED
    BY <2>1, <2>3, <2>4 DEF Begins, Ends, Reports
<1> QED
  BY <1>4, <1>5, <1>6, <1>7, <1>8, <1>9 DEF Next, MainStep, Returned

LEMMA LookMain ==
    ASSUME TInv, QInv, RoomInv, MainStep
    PROVE  LookedAtAgain'
<1>0. UNCHANGED <<wf, completed>> /\ status = "running"
  BY MainKinds DEF MainStep, CancelArm, RecvNode, RecvNext, ScanEnd, JoinNext, ScanNode, AtSelect,
     QInv, ScanFresh
<1>1. finished \in Seq([kind : {"node", "next"}, node : Nodes]) /\ active \subseteq Nodes /\ active \subseteq executed
  BY DEF TInv, TypeOK, TaskInv
<1>2. Cardinality(UsedNodes)' = Cardinality(UsedNodes)
  BY <1>0, SameNodes
<1> SUFFICES ASSUME MaxConcurrent >= Cardinality(UsedNodes), Alive',
                    NEW n \in reachable' \ executed', CanRun(n)'
             PROVE  n \in scan' \/ NodeToCome'
  BY <1>2 DEF LookedAtAgain
<1>3. CanRun(n)
  BY <1>0 DEF CanRun
<1>4. /\ reachable \subseteq UsedNodes /\ scan \subseteq reachable
      /\ n \in reachable \ executed => n \in scan \/ NodeToCome
  BY <1>0, <1>3 DEF RoomInv, NamedAreUsed, LookedAtAgain, Alive
<1>5. CASE CancelArm
  BY <1>5 DEF CancelArm, Alive
<1>6. CASE RecvNode
  BY <1>6 DEF RecvNode
<1>7. ASSUME \/ \E m \in Nodes \ executed : SpawnNode(m)
             \/ NoSpawn
      PROVE  (\E k \in active : task[k].pc # "returned") => (\E k \in active' : task'[k].pc # "returned")
  <2>1. ASSUME NEW m \in Nodes \ executed, SpawnNode(m), NEW k \in active PROVE k \in active' /\ task'[k] = task[k]
    BY <1>1, <2>1 DEF SpawnNode, TInv, TypeOK
  <2>2. CASE NoSpawn
    BY <2>2 DEF NoSpawn
  <2> QED
    BY <1>7, <2>1, <2>2
<1>8. CASE RecvNext
  <2> DEFINE m == Head(finished).node
  <2>1. /\ finished # <<>> /\ finished' = Tail(finished) /\ Head(finished).kind # "node"
        /\ scan' = scan /\ reachable' = reachable \cup {m} /\ executed \subseteq executed'
        /\ IF HasRoom /\ m \notin executed /\ CanRun(m) THEN SpawnNode(m) ELSE NoSpawn
    BY <1>8 DEF RecvNext, SpawnNode, NoSpawn
  <2>2. m \in Nodes
    BY <1>1, <2>1, MessageType
  <2>3. (\E k \in active : task[k].pc # "returned") => (\E k \in active' : task'[k].pc # "returned")
    BY <1>7, <2>1, <2>2
  <2>4. NodeAt(finished) # {} => NodeAt(finished') # {}
    BY <1>1, <2>1, NodeStaysInTail
  <2>5. CASE n \in reachable
    BY <1>4, <2>1, <2>3, <2>4, <2>5 DEF NodeToCome
  <2>6. CASE n = m
    <3>1. n \in UsedNodes
      <4>1. NamedAreUsed'
        BY NamedStep DEF RoomInv, Next
      <4> QED
        BY <1>0, <4>1, SameNodes DEF NamedAreUsed
    <3>2. n \notin executed
      BY <2>1
    <3>3. HasRoom
      BY <3>1, <3>2, RoomForIt DEF RoomInv
    <3>4. n \in executed'
      BY <1>3, <2>1, <2>6, <3>2, <3>3 DEF SpawnNode
    <3> QED
      BY <3>4
  <2> QED
    BY <2>1, <2>5, <2>6
<1>9. ASSUME NEW m \in Nodes, ScanNode(m) PROVE n \in scan' \/ NodeToCome'
  <2>1. /\ scan' = scan \ {m} /\ reachable' = reachable /\ finished' = finished /\ executed \subseteq executed'
        /\ m \in scan /\ IF CanRun(m) THEN SpawnNode(m) ELSE NoSpawn
    BY <1>9 DEF ScanNode, SpawnNode, NoSpawn
  <2>2. m \notin executed
    BY <2>1 DEF QInv, ScanFresh
  <2>3. n # m
    BY <1>3, <2>1 DEF SpawnNode
  <2>4. (\E k \in active : task[k].pc # "returned") => (\E k \in active' : task'[k].pc # "returned")
    BY <1>7, <2>1, <2>2
  <2> QED
    BY <1>4, <2>1, <2>3, <2>4 DEF NodeToCome
<1>10. CASE ScanEnd
  <2>1. /\ scan = {} \/ ~HasRoom
        /\ UNCHANGED <<reachable, executed, active, finished, task>>
    BY <1>10 DEF ScanEnd
  <2>2. n \notin scan
    <3> SUFFICES ASSUME n \in scan PROVE FALSE
      OBVIOUS
    <3>1. n \in UsedNodes /\ n \notin executed
      BY <1>4, <2>1
    <3> QED
      BY <2>1, <3>1, RoomForIt DEF RoomInv
  <2> QED
    BY <1>4, <2>1, <2>2 DEF NodeToCome
<1>11. ASSUME NEW m \in Nodes, JoinNext(m) PROVE n \in scan' \/ NodeToCome'
  <2>1. /\ UNCHANGED <<scan, reachable, executed, finished, task>> /\ task[m].pc = "returned"
        /\ active' = active \ {m}
    BY <1>11 DEF JoinNext, Alive
  <2> QED
    BY <1>4, <2>1 DEF NodeToCome
<1> QED
  BY <1>5, <1>6, <1>8, <1>9, <1>10, <1>11 DEF MainStep

LEMMA LookTask ==
    ASSUME TInv, RoomInv, NEW k \in active, TaskStep(k)
    PROVE  LookedAtAgain'
<1>0. /\ UNCHANGED <<wf, loop>>
      /\ \A j \in Nodes \ {k} : task'[j] = task[j]
      /\ Begins(k) \/ Ends(k) \/ Reports(k)
  BY TaskKinds
<1>1. active' = active /\ finished \in Seq([kind : {"node", "next"}, node : Nodes])
  BY <1>0 DEF loop, TInv, TypeOK
<1>2. NodeToCome'
  <2>1. CASE task'[k].pc # "returned"
    BY <1>1, <2>1 DEF NodeToCome
  <2>2. CASE finished' = Append(finished, [kind |-> "node", node |-> task[k].node])
    <3> DEFINE e == [kind |-> "node", node |-> task[k].node]
    <3>1. e.kind = "node"
      OBVIOUS
    <3> HIDE DEF e
    <3>2. finished' = Append(finished, e)
      BY <2>2 DEF e
    <3>3. Len(finished') = Len(finished) + 1 /\ Len(finished) \in Nat /\ finished'[Len(finished) + 1] = e
      BY <1>1, <3>2
    <3>4. Len(finished) + 1 \in NodeAt(finished')
      BY <3>1, <3>3 DEF NodeAt
    <3> QED
      BY <3>4 DEF NodeToCome
  <2> QED
    BY <1>0, <2>1, <2>2 DEF Begins, Ends, Reports
<1> QED
  BY <1>2 DEF LookedAtAgain

LEMMA RoomStep == TInv /\ QInv /\ RoomInv /\ [Next]_vars => RoomInv'
<1> SUFFICES ASSUME TInv, QInv, RoomInv, [Next]_vars PROVE RoomInv'
  OBVIOUS
<1>0. NamedAreUsed'
  BY NamedStep DEF RoomInv
<1>1. CASE MainStep
  BY <1>0, <1>1, LookMain DEF RoomInv
<1>2. ASSUME NEW n \in active, TaskStep(n) PROVE RoomInv'
  BY <1>0, <1>2, LookTask DEF RoomInv
<1>3. CASE RequestCancel \/ UNCHANGED vars
  <2>1. UNCHANGED <<wf, loop, completed, finished, task, starts>>
    BY <1>3, OtherKinds
  <2>2. LookedAtAgain'
    BY <2>1 DEF loop, RoomInv, LookedAtAgain, Alive, NodeToCome, CanRun, UsedNodes
  <2> QED
    BY <1>0, <2>2 DEF RoomInv
<1> QED
  BY <1>1, <1>2, <1>3 DEF Next, Returned

LEMMA InitRoom == Init => RoomInv
<1> SUFFICES ASSUME Init PROVE RoomInv
  OBVIOUS
<1>1. NamedAreUsed
  BY DEF Init, NamedAreUsed, UsedNodes
<1>2. LookedAtAgain
  BY DEF Init, LookedAtAgain
<1> QED
  BY <1>1, <1>2 DEF RoomInv

\* With room for every node of the workflow, a node that was named as a target and
\* may run has run when Done is reported, however its dependencies and the messages
\* about them are interleaved.
THEOREM NothingIsForgottenWithRoom == Spec => []NothingForgottenWithRoom
<1>1. ASSUME TInv, QInv, RoomInv PROVE NothingForgottenWithRoom
  <2> SUFFICES ASSUME MaxConcurrent >= Cardinality(UsedNodes), status = "done",
                      NEW n \in reachable, CanRun(n), n \notin executed
               PROVE  FALSE
    BY DEF NothingForgottenWithRoom, NothingForgotten
  <2>1. active = {} /\ finished = <<>>
    BY <1>1, QuietAtDone DEF DoneIsQuiescent
  <2>2. scan = {}
    BY <1>1 DEF QInv, ScanFresh, TInv, TypeOK
  <2>3. NodeAt(finished) = {}
    <3>1. Len(finished) = 0
      BY <2>1
    <3> QED
      BY <3>1 DEF NodeAt
  <2> QED
    BY <1>1, <2>1, <2>2, <2>3 DEF RoomInv, LookedAtAgain, Alive, NodeToCome
<1>2. Spec => [](TInv /\ QInv)
  BY InitType, InitQuiet, TypeStep, QuietStep, PTL DEF Spec
<1> QED
  BY <1>1, <1>2, InitRoom, RoomStep, PTL DEF Spec

-----------------------------------------------------------------------------
(* Nobody waits for ever.                                                  *)

\* The guards of the select's arms, the scan and the tasks: somebody can go on.
SomebodyCanStep ==
    \/ main = "scan"
    \/ main = "select" /\ (finished # <<>> \/ \E n \in active : task[n].pc = "returned")
    \/ \E n \in active : \/ task[n].pc \in {"check", "run"}
                         \/ task[n].pc = "send" /\ Len(finished) < ChannelSize

\* An execution that has not ended is not stuck: not on a full channel whose
\* reader waits for a task, and not in a select! that nobody will wake.
NeverStuck == status = "running" => SomebodyCanStep

\* The loop is at its select! only if it has something to wait for, and the tasks
\* of the JoinSet have been started.
WaitInv ==
    /\ status = "running" /\ main = "select" => spawnedN # finishedN \/ active # {}
    /\ \A n \in active : task[n].pc # "idle"

LEMMA InitWait == Init => WaitInv
<1> SUFFICES ASSUME Init PROVE WaitInv
  OBVIOUS
<1>1. wf.entry \in Nodes
  BY InitType, WfType DEF TInv
<1> QED
  BY <1>1 DEF Init, WaitInv, New, Idle

\* The loop goes back to its select! through the test at its end.
LEMMA WaitMain ==
    ASSUME TInv, QInv, WaitInv, MainStep
    PROVE  WaitInv'
<1>1. status' = "running" /\ main' = "select" => spawnedN' # finishedN' \/ active' # {}
  <2>1. CASE CancelArm
    BY <2>1 DEF CancelArm
  <2>2. CASE RecvNode
    BY <2>2 DEF RecvNode
  <2>3. CASE RecvNext \/ ScanEnd
    BY <2>3 DEF RecvNext, ScanEnd, LoopCheck
  <2>4. ASSUME NEW n \in Nodes, ScanNode(n) PROVE main' # "select"
    BY <2>4 DEF ScanNode
  <2>5. ASSUME NEW n \in Nodes, JoinNext(n), status' = "running"
        PROVE  spawnedN' # finishedN' \/ active' # {}
    BY <2>5 DEF JoinNext, LoopCheck
  <2> QED
    BY <2>1, <2>2, <2>3, <2>4, <2>5 DEF MainStep
<1>2. ASSUME NEW n \in active' PROVE task'[n].pc # "idle"
  <2>0. task \in [Nodes -> TaskType] /\ active \subseteq Nodes
    BY DEF TInv, TypeOK
  <2>1. CASE Spawns
    <3>1. PICK k \in Nodes : SpawnNode(k)
      BY <2>1 DEF Spawns
    <3>2. task' = [task EXCEPT ![k] = New(k)] /\ active' = active \cup {k}
      BY <3>1 DEF SpawnNode
    <3>3. New(k).pc = "check"
      BY DEF New, Idle
    <3> HIDE DEF New
    <3> QED
      BY <2>0, <3>2, <3>3 DEF WaitInv
  <2>2. CASE NoSpawn
    BY <2>2 DEF NoSpawn, WaitInv
  <2>3. CASE CancelArm
    BY <2>3 DEF CancelArm
  <2>4. ASSUME NEW k \in active, JoinNext(k) PROVE active' \subseteq active /\ task' = task
    BY <2>4 DEF JoinNext
  <2> QED
    BY <2>1, <2>2, <2>3, <2>4, MainKinds DEF WaitInv
<1> QED
  BY <1>1, <1>2 DEF WaitInv

LEMMA WaitStep == TInv /\ QInv /\ WaitInv /\ [Next]_vars => WaitInv'
<1> SUFFICES ASSUME TInv, QInv, WaitInv, [Next]_vars PROVE WaitInv'
  OBVIOUS
<1>1. CASE MainStep
  BY <1>1, WaitMain
<1>2. ASSUME NEW n \in active, TaskStep(n) PROVE WaitInv'
  <2>1. UNCHANGED <<wf, loop>> /\ \A k \in Nodes \ {n} : task'[k] = task[k]
    BY <1>2, TaskKinds
  <2>2. task'[n].pc # "idle"
    BY <1>2, TaskKinds DEF Begins, Ends, Reports
  <2>3. active \subseteq Nodes
    BY DEF TInv, TypeOK
  <2> QED
    BY <2>1, <2>2, <2>3 DEF WaitInv, loop
<1>3. CASE RequestCancel \/ UNCHANGED vars
  BY <1>3, OtherKinds DEF WaitInv, loop
<1> QED
  BY <1>1, <1>2, <1>3 DEF Next, Returned

\* With an empty JoinSet all tasks have returned; then the counters can only
\* differ by messages that are still in the channel.
LEMMA WaitIsEnough == TInv /\ QInv /\ WaitInv => NeverStuck
<1> SUFFICES ASSUME TInv, QInv, WaitInv, status = "running" PROVE SomebodyCanStep
  BY DEF NeverStuck
<1>0. /\ finished \in Seq([kind : {"node", "next"}, node : Nodes]) /\ finishedN \in Nat
      /\ executed \subseteq Nodes /\ active \subseteq Nodes /\ task \in [Nodes -> TaskType]
      /\ main \in {"select", "scan"}
  BY DEF TInv, TypeOK
<1>1. CASE main = "scan"
  BY <1>1 DEF SomebodyCanStep
<1>2. CASE main = "select" /\ active = {}
  <2>1. Reported = executed
    BY <1>2 DEF QInv, JoinedReturned, Alive, Reported
  <2>2. finishedN + Cardinality(NodeAt(finished)) = spawnedN /\ spawnedN # finishedN
    BY <1>2, <2>1 DEF QInv, Counts, WaitInv
  <2>3. Cardinality(NodeAt(finished)) # 0
    BY <1>0, <2>2
  <2>4. NodeAt(finished) # {}
    BY <2>3, FS_EmptySet
  <2>5. finished # <<>>
    <3> SUFFICES ASSUME finished = <<>> PROVE NodeAt(finished) = {}
      BY <2>4
    <3>1. Len(finished) = 0
      OBVIOUS
    <3> QED
      BY <3>1 DEF NodeAt
  <2> QED
    BY <1>2, <2>5 DEF SomebodyCanStep
<1>3. CASE main = "select" /\ active # {}
  <2>1. PICK n \in active : TRUE
    BY <1>3
  <2>2. task[n].pc \in {"check", "run", "send", "returned"}
    BY <1>0 DEF WaitInv, TaskType
  <2>3. CASE task[n].pc = "send" /\ ~(Len(finished) < ChannelSize)
    <3>1. Len(finished) \in Nat /\ Len(finished) # 0
      BY <1>0, <2>3, ExecutorAssumption
    <3>2. finished # <<>>
      BY <3>1
    <3> QED
      BY <1>3, <3>2 DEF SomebodyCanStep
  <2> QED
    BY <1>3, <2>2, <2>3 DEF SomebodyCanStep
<1> QED
  BY <1>0, <1>1, <1>2, <1>3

\* While execute runs, one of its arms or tasks can go on, for every workflow,
\* concurrency limit and channel size (executor.rs): a sender that finds the
\* channel full has a reader, and the loop waits only for what will come.
THEOREM NeverGetsStuck == Spec => []NeverStuck
<1> QED
  BY InitType, InitQuiet, InitWait, TypeStep, QuietStep, WaitStep, WaitIsEnough, PTL DEF Spec

=============================================================================
