------------------------------- MODULE Runner -------------------------------
(***************************************************************************)
(* Asynchronous runs: crates/konf-tool-runner (the RunRegistry, the inline *)
(* runner and the tools runner:spawn, runner:wait and runner:cancel), the  *)
(* durable intents of crates/konf-runtime/src/runner_intents.rs, and their *)
(* replay at boot (crates/konf-init/src/lib.rs).                           *)
(*                                                                         *)
(* An attempt <<r, k>> is one pass of spawn_with_id for run r: k = "spawn" *)
(* for runner:spawn, k = "replay" for the boot loop.  Its caller and the   *)
(* tokio task it starts are separate processes, each cut at its awaits.    *)
(***************************************************************************)
EXTENDS Integers, FiniteSets

CONSTANTS
    Runs,        \* run ids
    Waiters,     \* concurrent callers of runner:wait
    MaxReplays,  \* the replay limit (10 in the code)
    MaxCrashes,  \* bound on crashes of the process
    MaxFaults    \* bound on failed intent transactions

ASSUME RunnerAssumption ==
    /\ MaxReplays \in Nat
    /\ MaxCrashes \in Nat
    /\ MaxFaults \in Nat

VARIABLES
    intents,   \* runner_intents: run -> [status, count], on disk
    loaded,    \* runs whose workflow is in the engine registry
    boot,      \* konf-init boot: "list", "replay", "up"
    queue,     \* list_unterminated's snapshot: pairs <<run, replay_count>>
    slots,     \* RunRegistry: run -> [state, hook]
    caller,    \* spawn_with_id's caller, per attempt: none, lookup, persist, launch, hook, done;
               \*   dropped while it persists: left, then gone
    task,      \* the spawned task, per attempt: none, start, invoke, get, put, end, dead
    outcome,   \* what the attempt's tool.invoke returned
    waiter,    \* runner:wait calls: [pc, run, slot]
    used,      \* history: run ids handed out (UUIDs, never twice)
    accepted,  \* history: runs whose runner:spawn returned
    volatile,  \* history: runs spawned although their intent could not be stored
    launches,  \* history: how often a run was started by replay
    aborted,   \* history: runs of which some task was aborted
    invoked,   \* history: runs of which some invocation returned
    gaveUp,    \* history: runs failed by the replay limit
    crashes,   \* history: crashes so far
    faults     \* history: failed intent transactions so far

vars == <<intents, loaded, boot, queue, slots, caller, task, outcome, waiter,
          used, accepted, volatile, launches, aborted, invoked, gaveUp,
          crashes, faults>>
system   == <<intents, loaded, boot, queue, slots, caller, task, outcome>>
history  == <<used, accepted, volatile, launches, aborted, invoked, gaveUp,
              crashes, faults>>

Kinds    == {"spawn", "replay"}
Attempts == Runs \X Kinds
Terminal == {"succeeded", "failed", "cancelled"}

NoSlot   == [state |-> "absent", hook |-> "none"]
NoIntent == [status |-> "absent", count |-> 0]

Init ==
    /\ intents = [r \in Runs |-> NoIntent]
    /\ loaded = Runs
    /\ boot = "list" /\ queue = {}
    /\ slots = [r \in Runs |-> NoSlot]
    /\ caller = [a \in Attempts |-> "none"]
    /\ task = [a \in Attempts |-> "none"]
    /\ outcome = [a \in Attempts |-> "none"]
    /\ waiter = [w \in Waiters |-> [pc |-> "idle", run |-> "none", slot |-> "live"]]
    /\ used = {} /\ accepted = {} /\ volatile = {}
    /\ launches = [r \in Runs |-> 0]
    /\ aborted = {} /\ invoked = {} /\ gaveUp = {}
    /\ crashes = 0 /\ faults = 0

-----------------------------------------------------------------------------
(* RunRegistry.                                                            *)

\* insert_pending_with_id: a new slot replaces whatever the id had.  Waiters
\* keep the old slot, which no one will find by its id any more.
InsertPending(r) ==
    /\ slots' = [slots EXCEPT ![r] = [state |-> "pending", hook |-> "none"]]
    /\ waiter' = [w \in Waiters |->
          IF waiter[w].run = r /\ waiter[w].slot = "live"
          THEN [waiter[w] EXCEPT !.slot = IF slots[r].state \in Terminal THEN "final" ELSE "orphan"]
          ELSE waiter[w]]

\* mark_running
MarkRunning(r) ==
    slots' = [slots EXCEPT ![r].state = IF @ = "pending" THEN "running" ELSE @]

\* Mutant: nobody is woken.
NotifyWaiters_Nobody(r) == waiter' = waiter

\* notify_waiters wakes those that wait on this slot right now, and no others.
NotifyWaiters(r) ==
    waiter' = [w \in Waiters |->
        IF waiter[w].pc = "parked" /\ waiter[w].run = r /\ waiter[w].slot = "live"
        THEN [waiter[w] EXCEPT !.pc = "check"] ELSE waiter[w]]

\* Mutant: the last terminal state wins.
TerminalState_LastWins(old, new) == new

\* mark_terminal: the first terminal state wins.
TerminalState(old, new) == IF old \in Terminal THEN old ELSE new

MarkTerminal(r, s) ==
    /\ slots' = [slots EXCEPT ![r].state = TerminalState(@, s)]
    /\ NotifyWaiters(r)

\* Nobody knows a fresh id before runner:spawn has returned it.
Known(r) == slots[r].state # "absent" /\ caller[<<r, "spawn">>] \in {"none", "done"}

\* Mutant: the task is aborted but the record is left to it.
Cancel_AbortOnly(r) ==
    LET a    == <<r, slots[r].hook>>
        kill == slots[r].hook # "none" /\ task[a] \in {"start", "invoke", "get"}
    IN
    /\ Known(r)
    /\ task' = IF kill THEN [task EXCEPT ![a] = "dead"] ELSE task
    /\ aborted' = IF kill THEN aborted \cup {r} ELSE aborted
    /\ slots' = [slots EXCEPT ![r].hook = "none"]
    /\ UNCHANGED <<intents, loaded, boot, queue, caller, outcome, waiter, used, accepted, volatile,
                   launches, invoked, gaveUp, crashes, faults>>

\* cancel: take the hook, abort the task, mark the slot.  An aborted task ends
\* at its await; a commit already handed to the blocking pool still happens.
Cancel(r) ==
    LET a    == <<r, slots[r].hook>>
        kill == slots[r].hook # "none" /\ task[a] \in {"start", "invoke", "get"}
    IN
    /\ Known(r)
    /\ task' = IF kill THEN [task EXCEPT ![a] = "dead"] ELSE task
    /\ aborted' = IF kill THEN aborted \cup {r} ELSE aborted
    /\ slots' = [slots EXCEPT ![r] = [state |-> TerminalState(@.state, "cancelled"), hook |-> "none"]]
    /\ NotifyWaiters(r)
    /\ UNCHANGED <<intents, loaded, boot, queue, caller, outcome, used, accepted, volatile,
                   launches, invoked, gaveUp, crashes, faults>>

-----------------------------------------------------------------------------
(* spawn_with_id.                                                          *)

\* Mutant: the task is started before the intent is stored.
Spawn_LaunchFirst(r) ==
    LET a == <<r, "spawn">> IN
    /\ r \in loaded
    /\ r \notin used
    /\ used' = used \cup {r}
    /\ InsertPending(r)
    /\ caller' = [caller EXCEPT ![a] = "launch"]
    /\ UNCHANGED <<intents, loaded, boot, queue, task, outcome, accepted, volatile, launches,
                   aborted, invoked, gaveUp, crashes, faults>>

\* runner:spawn of a fresh id; a workflow that is not registered is refused.
Spawn(r) ==
    LET a == <<r, "spawn">> IN
    /\ r \in loaded
    /\ r \notin used
    /\ used' = used \cup {r}
    /\ InsertPending(r)
    /\ caller' = [caller EXCEPT ![a] = "persist"]
    /\ UNCHANGED <<intents, loaded, boot, queue, task, outcome, accepted, volatile, launches,
                   aborted, invoked, gaveUp, crashes, faults>>

\* intents.insert hands its transaction to the blocking pool and awaits it.  A
\* step timeout or the shutdown of the executor drops the future that called
\* runner:spawn at this await, and the transaction goes on without it: the slot
\* stays pending and no task is started.  (Boot drops no replay.)
CallerDropped(r) ==
    /\ caller[<<r, "spawn">>] = "persist"
    /\ caller' = [caller EXCEPT ![<<r, "spawn">>] = "left"]
    /\ UNCHANGED <<intents, loaded, boot, queue, slots, task, outcome, waiter, history>>

\* Where the end of the transaction leaves the caller.
AfterPersist(a) == IF caller[a] = "left" THEN "gone" ELSE "launch"

\* The new intent is stored: open, with replay_count 0.
Persist(a) ==
    /\ caller[a] \in {"persist", "left"}
    /\ intents' = [intents EXCEPT ![a[1]] = [status |-> "open", count |-> 0]]
    /\ caller' = [caller EXCEPT ![a] = AfterPersist(a)]
    /\ UNCHANGED <<loaded, boot, queue, slots, task, outcome, waiter, history>>

\* ... or the insert fails: logged, "continuing without durability".
PersistFails(a) ==
    /\ caller[a] \in {"persist", "left"} /\ faults < MaxFaults
    /\ faults' = faults + 1
    /\ volatile' = volatile \cup (IF a[2] = "spawn" THEN {a[1]} ELSE {})
    /\ caller' = [caller EXCEPT ![a] = AfterPersist(a)]
    /\ UNCHANGED <<intents, loaded, boot, queue, slots, task, outcome, waiter, used, accepted,
                   launches, aborted, invoked, gaveUp, crashes>>

\* tokio::spawn
Launch(a) ==
    /\ caller[a] = "launch"
    /\ task' = [task EXCEPT ![a] = "start"]
    /\ caller' = [caller EXCEPT ![a] = "hook"]
    /\ launches' = [launches EXCEPT ![a[1]] = IF a[2] = "replay" THEN @ + 1 ELSE @]
    /\ UNCHANGED <<intents, loaded, boot, queue, slots, outcome, waiter, used, accepted,
                   volatile, aborted, invoked, gaveUp, crashes, faults>>

\* register_cancel_hook, on another thread than the task; spawn returns.
RegisterHook(a) ==
    /\ caller[a] = "hook"
    /\ slots' = [slots EXCEPT ![a[1]].hook = a[2]]
    /\ caller' = [caller EXCEPT ![a] = "done"]
    /\ accepted' = accepted \cup {a[1]}
    /\ UNCHANGED <<intents, loaded, boot, queue, task, outcome, waiter, used, volatile, launches,
                   aborted, invoked, gaveUp, crashes, faults>>

-----------------------------------------------------------------------------
(* The spawned task.                                                       *)

TaskStart(a) ==
    /\ task[a] = "start"
    /\ MarkRunning(a[1])
    /\ task' = [task EXCEPT ![a] = "invoke"]
    /\ UNCHANGED <<intents, loaded, boot, queue, caller, outcome, waiter, history>>

\* tool.invoke returns and the registry records it.
TaskFinish(a, s) ==
    /\ task[a] = "invoke"
    /\ MarkTerminal(a[1], s)
    /\ outcome' = [outcome EXCEPT ![a] = s]
    /\ invoked' = invoked \cup {a[1]}
    /\ task' = [task EXCEPT ![a] = "get"]
    /\ UNCHANGED <<intents, loaded, boot, queue, caller, used, accepted, volatile, launches,
                   aborted, gaveUp, crashes, faults>>

\* intents.mark_terminal reads the intent first and does nothing without one.
IntentGet(a) ==
    /\ task[a] = "get"
    /\ task' = [task EXCEPT ![a] = IF intents[a[1]] = NoIntent THEN "end" ELSE "put"]
    /\ UNCHANGED <<intents, loaded, boot, queue, slots, caller, outcome, waiter, history>>

\* ... then writes it back with its terminal status.
IntentPut(a) ==
    /\ task[a] = "put"
    /\ intents' = [intents EXCEPT ![a[1]].status = outcome[a]]
    /\ task' = [task EXCEPT ![a] = "end"]
    /\ UNCHANGED <<loaded, boot, queue, slots, caller, outcome, waiter, history>>

\* Either transaction fails: logged, the intent stays open.
IntentFails(a) ==
    /\ task[a] \in {"get", "put"} /\ faults < MaxFaults
    /\ faults' = faults + 1
    /\ task' = [task EXCEPT ![a] = "end"]
    /\ UNCHANGED <<intents, loaded, boot, queue, slots, caller, outcome, waiter, used, accepted,
                   volatile, launches, aborted, invoked, gaveUp, crashes>>

-----------------------------------------------------------------------------
(* Boot: replay of the unterminated intents.                               *)

\* Mutant: an intent that was replayed once is not listed again.
ListUnterminated_Once ==
    /\ boot = "list"
    /\ queue' = {<<r, 0>> : r \in {x \in Runs : intents[x] = [status |-> "open", count |-> 0]}}
    /\ boot' = "replay"
    /\ UNCHANGED <<intents, loaded, slots, caller, task, outcome, waiter, history>>

\* list_unterminated, one read transaction.
ListUnterminated ==
    /\ boot = "list"
    /\ queue' = {<<r, intents[r].count>> : r \in {x \in Runs : intents[x].status = "open"}}
    /\ boot' = "replay"
    /\ UNCHANGED <<intents, loaded, slots, caller, task, outcome, waiter, history>>

\* ... which fails: logged, and nothing is replayed until the next boot.
ListFails ==
    /\ boot = "list" /\ faults < MaxFaults
    /\ faults' = faults + 1
    /\ boot' = "up"
    /\ UNCHANGED <<intents, loaded, queue, slots, caller, task, outcome, waiter, used, accepted,
                   volatile, launches, aborted, invoked, gaveUp, crashes>>

\* The loop replays one intent at a time.
NoReplayInProgress == \A r \in Runs : caller[<<r, "replay">>] \in {"none", "done"}

\* Mutant: gives up one restart too early.
ReplayGiveUp_Early(q) ==
    /\ boot = "replay" /\ q \in queue /\ NoReplayInProgress
    /\ q[2] + 1 >= MaxReplays
    /\ intents' = [intents EXCEPT ![q[1]].status = "failed"]
    /\ queue' = queue \ {q}
    /\ gaveUp' = gaveUp \cup {q[1]}
    /\ UNCHANGED <<loaded, boot, slots, caller, task, outcome, waiter, used, accepted, volatile,
                   launches, aborted, invoked, crashes, faults>>

\* replay: over the limit, the stored intent is marked failed.
ReplayGiveUp(q) ==
    /\ boot = "replay" /\ q \in queue /\ NoReplayInProgress
    /\ q[2] + 1 > MaxReplays
    /\ intents' = [intents EXCEPT ![q[1]].status = "failed"]
    /\ queue' = queue \ {q}
    /\ gaveUp' = gaveUp \cup {q[1]}
    /\ UNCHANGED <<loaded, boot, slots, caller, task, outcome, waiter, used, accepted, volatile,
                   launches, aborted, invoked, crashes, faults>>

\* ... or the write fails, which replay ignores: the intent stays open.
ReplayGiveUpFails(q) ==
    /\ boot = "replay" /\ q \in queue /\ NoReplayInProgress
    /\ q[2] + 1 > MaxReplays /\ faults < MaxFaults
    /\ faults' = faults + 1
    /\ queue' = queue \ {q}
    /\ UNCHANGED <<intents, loaded, boot, slots, caller, task, outcome, waiter, used, accepted,
                   volatile, launches, aborted, invoked, gaveUp, crashes>>

\* replay: the listed intent is written back with its count incremented.
ReplayCount(q) ==
    /\ boot = "replay" /\ q \in queue /\ NoReplayInProgress
    /\ q[2] + 1 <= MaxReplays
    /\ intents' = [intents EXCEPT ![q[1]] = [status |-> "open", count |-> q[2] + 1]]
    /\ queue' = queue \ {q}
    /\ caller' = [caller EXCEPT ![<<q[1], "replay">>] = "lookup"]
    /\ UNCHANGED <<loaded, boot, slots, task, outcome, waiter, history>>

\* ... or that write fails: logged, the run is started all the same.
ReplayCountFails(q) ==
    /\ boot = "replay" /\ q \in queue /\ NoReplayInProgress
    /\ q[2] + 1 <= MaxReplays /\ faults < MaxFaults
    /\ faults' = faults + 1
    /\ queue' = queue \ {q}
    /\ caller' = [caller EXCEPT ![<<q[1], "replay">>] = "lookup"]
    /\ UNCHANGED <<intents, loaded, boot, slots, task, outcome, waiter, used, accepted, volatile,
                   launches, aborted, invoked, gaveUp, crashes>>

\* spawn_with_id(Some(run_id)): WorkflowNotFound, or a new slot for the old id.
ReplayMissing(r) ==
    /\ caller[<<r, "replay">>] = "lookup" /\ r \notin loaded
    /\ caller' = [caller EXCEPT ![<<r, "replay">>] = "done"]
    /\ UNCHANGED <<intents, loaded, boot, queue, slots, task, outcome, waiter, history>>

ReplaySpawn(r) ==
    /\ caller[<<r, "replay">>] = "lookup" /\ r \in loaded
    /\ InsertPending(r)
    /\ caller' = [caller EXCEPT ![<<r, "replay">>] = "persist"]
    /\ UNCHANGED <<intents, loaded, boot, queue, task, outcome, history>>

BootDone ==
    /\ boot = "replay" /\ queue = {} /\ NoReplayInProgress
    /\ boot' = "up"
    /\ UNCHANGED <<intents, loaded, queue, slots, caller, task, outcome, waiter, history>>

\* The process dies and boots again, perhaps with a workflow file removed.
\* Only the intents survive.
CrashRestart(present) ==
    /\ crashes < MaxCrashes
    /\ crashes' = crashes + 1
    /\ loaded' = present
    /\ boot' = "list" /\ queue' = {}
    /\ slots' = [r \in Runs |-> NoSlot]
    /\ caller' = [a \in Attempts |-> "none"]
    /\ task' = [a \in Attempts |-> "none"]
    /\ outcome' = [a \in Attempts |-> "none"]
    /\ waiter' = [w \in Waiters |-> [pc |-> "idle", run |-> "none", slot |-> "live"]]
    /\ UNCHANGED <<intents, used, accepted, volatile, launches, aborted, invoked,
                   gaveUp, faults>>

-----------------------------------------------------------------------------
(* runner:wait.                                                            *)

\* wait_terminal looks the slot up once; an unknown id is refused.
WaitBegin(w, r) ==
    /\ waiter[w].pc = "idle" /\ Known(r)
    /\ waiter' = [waiter EXCEPT ![w] = [pc |-> "check", run |-> r, slot |-> "live"]]
    /\ UNCHANGED <<system, history>>

\* The record of the slot a waiter holds.
SeesTerminal(w) ==
    \/ waiter[w].slot = "live" /\ slots[waiter[w].run].state \in Terminal
    \/ waiter[w].slot = "final"

\* The loop reads the record: a terminal one is returned.
WaitCheck(w) ==
    /\ waiter[w].pc = "check"
    /\ waiter' = [waiter EXCEPT ![w].pc = IF SeesTerminal(w) THEN "returned" ELSE "park"]
    /\ UNCHANGED <<system, history>>

\* done.notified().await, after the read lock was released.
WaitPark(w) ==
    /\ waiter[w].pc = "park"
    /\ waiter' = [waiter EXCEPT ![w].pc = "parked"]
    /\ UNCHANGED <<system, history>>

\* runner:wait's timeout.
WaitTimeout(w) ==
    /\ waiter[w].pc \in {"check", "park", "parked"}
    /\ waiter' = [waiter EXCEPT ![w].pc = "timedout"]
    /\ UNCHANGED <<system, history>>

-----------------------------------------------------------------------------
CallerStep == \E a \in Attempts : Persist(a) \/ Launch(a) \/ RegisterHook(a)

TaskStep == \E a \in Attempts :
    \/ TaskStart(a) \/ IntentGet(a) \/ IntentPut(a)
    \/ \E s \in {"succeeded", "failed"} : TaskFinish(a, s)

BootStep ==
    \/ ListUnterminated \/ BootDone
    \/ \E q \in queue : ReplayGiveUp(q) \/ ReplayCount(q)
    \/ \E r \in Runs : ReplayMissing(r) \/ ReplaySpawn(r)

WaitStep == \E w \in Waiters : WaitCheck(w) \/ WaitPark(w)

Next ==
    \/ CallerStep \/ TaskStep \/ BootStep \/ WaitStep
    \/ \E r \in Runs : Spawn(r) \/ CallerDropped(r) \/ Cancel(r)
    \/ \E a \in Attempts : PersistFails(a) \/ IntentFails(a)
    \/ ListFails \/ \E q \in queue : ReplayCountFails(q) \/ ReplayGiveUpFails(q)
    \/ \E w \in Waiters : WaitTimeout(w) \/ \E r \in Runs : WaitBegin(w, r)
    \/ \E present \in SUBSET Runs : CrashRestart(present)

Spec == Init /\ [][Next]_vars

\* Tokio schedules every ready task, and a workflow invocation ends (steps and
\* workflows carry timeouts): each of these keeps moving once it can.
FairSpec ==
    /\ Spec
    /\ WF_vars(BootStep)
    /\ \A w \in Waiters : WF_vars(WaitCheck(w))
    /\ \A a \in Attempts :
          /\ WF_vars(Persist(a)) /\ WF_vars(Launch(a)) /\ WF_vars(RegisterHook(a))
          /\ WF_vars(TaskStart(a)) /\ WF_vars(IntentGet(a)) /\ WF_vars(IntentPut(a))
          /\ WF_vars(\E s \in {"succeeded", "failed"} : TaskFinish(a, s))

-----------------------------------------------------------------------------
(* Properties.                                                             *)

\* At-least-once: a run that runner:spawn accepted is on disk, and its intent is
\* closed only after an invocation returned or the replay limit was reached,
\* whatever crashes, aborts and failed writes came in between.  (A run whose
\* first write failed was started without durability, as the code warns.)
AtLeastOnce ==
    \A r \in Runs :
        /\ r \in accepted \ volatile => intents[r].status # "absent"
        /\ intents[r].status \in Terminal => r \in invoked \cup gaveUp

\* The task will still report to the registry; the caller will still start it.
LiveTask(a) == task[a] \in {"start", "invoke"}
InSpawn(a)  == caller[a] \in {"persist", "launch"}

\* The caller of runner:spawn was dropped while it stored the intent.  Its id was
\* returned to nobody, and it is on disk for the next boot to start, unless that
\* write is under way or failed.
Abandoned(r) ==
    /\ slots[r].state = "pending" /\ r \notin accepted
    /\ caller[<<r, "spawn">>] \in {"left", "gone"}
    /\ caller[<<r, "spawn">>] = "gone" => r \in volatile \/ intents[r].status # "absent"

\* The registry shows a run as pending or running only while somebody works on
\* it: some attempt is still being spawned, or its task is alive and will report.
\* The one exception is a spawn whose caller was dropped: its record stays
\* pending for the life of the process, but no id of such a run was handed out.
NoStuckRun ==
    \A r \in Runs : slots[r].state \in {"pending", "running"} =>
        \/ \E k \in Kinds : LiveTask(<<r, k>>) \/ InSpawn(<<r, k>>)
        \/ Abandoned(r)

\* A run is given up only after as many boots as the limit allows: the count
\* on disk never runs ahead of the boots that happened.
GivesUpLate ==
    \A r \in Runs : intents[r].count <= crashes + 1 /\ (r \in gaveUp => crashes >= MaxReplays)

\* The first terminal state of a run stands: a cancellation and a result that
\* race cannot overwrite each other; only a replay starts the record afresh.
TerminalStands ==
    [][\A r \in Runs : slots[r].state \in Terminal =>
          \/ slots'[r].state \in {slots[r].state, "absent"}
          \/ slots'[r].state = "pending" /\ caller'[<<r, "replay">>] = "persist"]_vars

\* Every accepted run gets settled: its intent is closed once the process stops
\* crashing and its workflow is there to run, unless it was aborted or a
\* transaction failed.
EveryRunSettles ==
    \A r \in Runs : <>[](r \in loaded) =>
        ((r \in accepted \ volatile) ~> (intents[r].status \in Terminal \/ r \in aborted \/ faults > 0))

\* A waiter that sleeps when its run ends is woken and returns, whether the run
\* ended by itself or was cancelled, unless a replay has replaced the slot.
ParkedIsWoken ==
    \A w \in Waiters :
        (waiter[w].pc = "parked" /\ ~SeesTerminal(w))
            ~> (waiter[w].pc \in {"returned", "timedout", "idle"} \/ waiter[w].slot = "orphan")

\* A crash loop is "bounded": no run is started by replay more often than the
\* limit.
ReplayBounded == \A r \in Runs : launches[r] <= MaxReplays

=============================================================================
