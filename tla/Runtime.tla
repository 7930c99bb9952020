------------------------------ MODULE Runtime ------------------------------
(***************************************************************************)
(* The life of a workflow run: Runtime::start, start_streaming,            *)
(* cancel and gc (crates/konf-runtime/src/runtime.rs), the process table   *)
(* (process.rs), Engine::run and run_streaming (crates/konflux-substrate/  *)
(* src/engine.rs) and the zombie reconciliation of the journal at boot     *)
(* (journal/redb.rs).                                                      *)
(*                                                                         *)
(* Four processes work on a run: the caller inside start, the executor     *)
(* task, the supervisor (the task that start or start_streaming spawns)    *)
(* and a caller of cancel.  Each is cut where another can come between.    *)
(* The executor is what module Executor describes: it ends at any time, at *)
(* the latest when its token fires, as cancelled only if it did.           *)
(***************************************************************************)
EXTENDS Integers, Sequences, FiniteSets

CONSTANTS
    Runs,        \* run ids: UUIDs, each used once
    Streaming,   \* the runs started by start_streaming
    MaxActive,   \* max_active_runs_per_namespace; the model has one namespace
    MaxCrashes,  \* bound on crashes
    MaxFaults    \* bound on failed appends

ASSUME RuntimeAssumption ==
    /\ Streaming \subseteq Runs
    /\ MaxActive \in Nat \ {0}
    /\ MaxCrashes \in Nat
    /\ MaxFaults \in Nat

VARIABLES
    boot,      \* Runtime::with_limits: "scan", "append", or "up"
    zombies,   \* reconcile_zombies' list of rows to append
    starter,   \* the caller inside start or start_streaming
    table,     \* ProcessTable: the status of the run's entry
    token,     \* the entries' CancellationToken
    exec,      \* the executor task
    sup,       \* the supervising or forwarding task
    result,    \* what the supervisor found out
    stream,    \* the receiver of a streaming run
    canceller, \* runs whose status a caller of cancel has just checked
    started,   \* journal: runs with a workflow_started row
    closed,    \* journal: the terminal rows of a run
    used,      \* history: run ids handed out
    died,      \* history: runs whose process crashed
    refused,   \* history: streaming runs whose grant was refused
    crashes,   \* history: crashes so far
    faults     \* history: failed appends so far

vars == <<boot, zombies, starter, table, token, exec, sup, result, stream, canceller,
          started, closed, used, died, refused, crashes, faults>>
journal == <<started, closed>>
history == <<used, died, refused, crashes, faults>>

Terminal == {"completed", "failed", "cancelled"}

Init ==
    /\ boot = "scan" /\ zombies = {}
    /\ starter = [r \in Runs |-> "none"]
    /\ table = [r \in Runs |-> "absent"]
    /\ token = [r \in Runs |-> FALSE]
    /\ exec = [r \in Runs |-> "none"]
    /\ sup = [r \in Runs |-> "none"]
    /\ result = [r \in Runs |-> "none"]
    /\ stream = [r \in Runs |-> "none"]
    /\ canceller = {}
    /\ started = {} /\ closed = [r \in Runs |-> <<>>]
    /\ used = {} /\ died = {} /\ refused = {}
    /\ crashes = 0 /\ faults = 0

-----------------------------------------------------------------------------
(* Boot: nothing else runs until the runtime exists.                       *)

\* Mutant: a failed run is taken for one that never ended.
ReconcileScan_FailedOpen ==
    /\ boot = "scan"
    /\ zombies' = {r \in started : \A i \in DOMAIN closed[r] : closed[r][i] = "failed"}
    /\ boot' = "append"
    /\ UNCHANGED <<starter, table, token, exec, sup, result, stream, canceller, journal,
                   history>>

\* reconcile_zombies, phase 1: one scan for runs started and never ended.
ReconcileScan ==
    /\ boot = "scan"
    /\ zombies' = {r \in started : closed[r] = <<>>}
    /\ boot' = "append"
    /\ UNCHANGED <<starter, table, token, exec, sup, result, stream, canceller, journal,
                   history>>

\* Phase 2: one append per zombie, in any order.
ReconcileAppend(r) ==
    /\ boot = "append" /\ r \in zombies
    /\ closed' = [closed EXCEPT ![r] = Append(@, "failed")]
    /\ zombies' = zombies \ {r}
    /\ UNCHANGED <<boot, starter, table, token, exec, sup, result, stream, canceller,
                   started, history>>

\* Mutant: the runtime does not wait for the appends.
BootDone_Early ==
    /\ boot = "append"
    /\ boot' = "up" /\ zombies' = {}
    /\ UNCHANGED <<starter, table, token, exec, sup, result, stream, canceller, journal,
                   history>>

BootDone ==
    /\ boot = "append" /\ zombies = {}
    /\ boot' = "up"
    /\ UNCHANGED <<zombies, starter, table, token, exec, sup, result, stream, canceller,
                   journal, history>>

\* A failed transaction fails the boot; the process is started again.
BootFails ==
    /\ boot \in {"scan", "append"} /\ faults < MaxFaults
    /\ faults' = faults + 1
    /\ boot' = "scan" /\ zombies' = {}
    /\ UNCHANGED <<starter, table, token, exec, sup, result, stream, canceller, journal,
                   used, died, refused, crashes>>

\* The process dies and starts again: everything but the journal is lost.
CrashRestart ==
    /\ crashes < MaxCrashes
    /\ crashes' = crashes + 1
    /\ died' = used
    /\ boot' = "scan" /\ zombies' = {}
    /\ starter' = [r \in Runs |-> "none"]
    /\ table' = [r \in Runs |-> "absent"]
    /\ token' = [r \in Runs |-> FALSE]
    /\ exec' = [r \in Runs |-> "none"]
    /\ sup' = [r \in Runs |-> "none"]
    /\ result' = [r \in Runs |-> "none"]
    /\ stream' = [r \in Runs |-> "none"]
    /\ canceller' = {}
    /\ UNCHANGED <<journal, used, refused, faults>>

-----------------------------------------------------------------------------
(* start and start_streaming.                                              *)

\* active_count_in_namespace
ActiveCount == Cardinality({r \in Runs : table[r] = "running"})

\* validate_start; at the limit the call returns an error and leaves no trace.
Validate(r) ==
    /\ boot = "up" /\ starter[r] = "none" /\ r \notin used
    /\ ActiveCount < MaxActive
    /\ starter' = [starter EXCEPT ![r] = "insert"]
    /\ UNCHANGED <<boot, zombies, table, token, exec, sup, result, stream, canceller,
                   journal, history>>

\* table.insert
Insert(r) ==
    /\ starter[r] = "insert"
    /\ used' = used \cup {r}
    /\ table' = [table EXCEPT ![r] = "running"]
    /\ starter' = [starter EXCEPT ![r] = "journal"]
    /\ UNCHANGED <<boot, zombies, token, exec, sup, result, stream, canceller, journal,
                   died, refused, crashes, faults>>

\* The append of the workflow_started row goes on when the caller has left.
AfterJournal(at) == IF at = "journal" THEN "spawn" ELSE "gone"

\* The workflow_started row.
JournalStarted(r) ==
    /\ starter[r] \in {"journal", "left"}
    /\ started' = started \cup {r}
    /\ starter' = [starter EXCEPT ![r] = AfterJournal(@)]
    /\ UNCHANGED <<boot, zombies, table, token, exec, sup, result, stream, canceller,
                   closed, history>>

\* ... or the append fails: logged.
JournalStartedFails(r) ==
    /\ starter[r] \in {"journal", "left"} /\ faults < MaxFaults
    /\ faults' = faults + 1
    /\ starter' = [starter EXCEPT ![r] = AfterJournal(@)]
    /\ UNCHANGED <<boot, zombies, table, token, exec, sup, result, stream, canceller,
                   journal, used, died, refused, crashes>>

\* The future that awaits the append is dropped (a step's timeout, the shutdown of
\* an executor, a client that disconnects): nobody goes on to spawn the supervisor.
StarterDropped(r) ==
    /\ starter[r] = "journal"
    /\ starter' = [starter EXCEPT ![r] = "left"]
    /\ UNCHANGED <<boot, zombies, table, token, exec, sup, result, stream, canceller,
                   journal, history>>

\* start_streaming gives its caller the receiving end of a channel.
StreamOf(r) == IF r \in Streaming THEN "open" ELSE "none"

\* The workflow's capabilities are within the grant: the executor is spawned,
\* and the supervisor; start returns.
Spawn(r) ==
    /\ starter[r] = "spawn"
    /\ starter' = [starter EXCEPT ![r] = "returned"]
    /\ exec' = [exec EXCEPT ![r] = "working"]
    /\ sup' = [sup EXCEPT ![r] = "wait"]
    /\ stream' = [stream EXCEPT ![r] = StreamOf(r)]
    /\ UNCHANGED <<boot, zombies, table, token, result, canceller, journal, history>>

\* Mutant: start returns early as well.
SpawnDenied_Returns(r) ==
    /\ starter[r] = "spawn"
    /\ starter' = [starter EXCEPT ![r] = "returned"]
    /\ refused' = refused \cup (Streaming \cap {r})
    /\ UNCHANGED <<boot, zombies, table, token, exec, sup, result, stream, canceller,
                   journal, used, died, crashes, faults>>

\* validate_grant refuses.  Engine::run reports it to the supervisor that start
\* has spawned; run_streaming's error makes start_streaming return early.
SpawnDenied(r) ==
    /\ starter[r] = "spawn"
    /\ starter' = [starter EXCEPT ![r] = "returned"]
    /\ \/ /\ r \notin Streaming
          /\ exec' = [exec EXCEPT ![r] = "failed"]
          /\ sup' = [sup EXCEPT ![r] = "wait"]
          /\ UNCHANGED refused
       \/ /\ r \in Streaming
          /\ refused' = refused \cup {r}
          /\ UNCHANGED <<exec, sup>>
    /\ UNCHANGED <<boot, zombies, table, token, result, stream, canceller, journal, used,
                   died, crashes, faults>>

-----------------------------------------------------------------------------
(* The executor task (module Executor), seen from the engine.              *)

\* "quoted" is a failure whose message happens to contain the word cancelled.
ExecEnd(r) ==
    /\ exec[r] = "working"
    /\ \E e \in {"completed", "failed", "quoted"} : exec' = [exec EXCEPT ![r] = e]
    /\ UNCHANGED <<boot, zombies, starter, table, token, sup, result, stream, canceller,
                   journal, history>>

ExecCancelled(r) ==
    /\ exec[r] = "working" /\ token[r]
    /\ exec' = [exec EXCEPT ![r] = "cancelled"]
    /\ UNCHANGED <<boot, zombies, starter, table, token, sup, result, stream, canceller,
                   journal, history>>

-----------------------------------------------------------------------------
(* The supervisor.                                                         *)

\* start matches the typed error; start_streaming looks for the word in it.
PlainStatus(e)  == IF e = "quoted" THEN "failed" ELSE e
StreamStatus(e) == IF e = "quoted" THEN "cancelled" ELSE e

\* The status the supervisor writes, with completed_at, when it knows the result.
\* The entry may be gone: update does nothing then.
Conclude(r, res, status) ==
    /\ result' = [result EXCEPT ![r] = res]
    /\ table' = [table EXCEPT ![r] = IF @ = "absent" THEN @ ELSE status]
    /\ sup' = [sup EXCEPT ![r] = "emit"]

\* Engine::run has drained the stream and joined the executor.
RunReturns(r) ==
    /\ sup[r] = "wait" /\ r \notin Streaming /\ exec[r] # "working"
    /\ Conclude(r, PlainStatus(exec[r]), PlainStatus(exec[r]))
    /\ UNCHANGED <<boot, zombies, starter, token, exec, stream, canceller, journal,
                   history>>

\* Mutant: the timeout is the executor's to notice.
RunTimesOut_Waits(r) ==
    /\ sup[r] = "wait" /\ r \notin Streaming /\ exec[r] # "working"
    /\ Conclude(r, "failed", "failed")
    /\ UNCHANGED <<boot, zombies, starter, token, exec, stream, canceller, journal,
                   history>>

\* max_workflow_timeout_ms: the waiting future is dropped, and the executor's
\* JoinHandle with it, which detaches the executor.
RunTimesOut(r) ==
    /\ sup[r] = "wait" /\ r \notin Streaming
    /\ Conclude(r, "failed", "failed")
    /\ UNCHANGED <<boot, zombies, starter, token, exec, stream, canceller, journal,
                   history>>

\* The forwarder reads the Done or Error event.
StreamEnds(r) ==
    /\ sup[r] = "wait" /\ r \in Streaming /\ exec[r] # "working"
    /\ Conclude(r, StreamStatus(exec[r]), StreamStatus(exec[r]))
    /\ UNCHANGED <<boot, zombies, starter, token, exec, stream, canceller, journal,
                   history>>

\* The receiver was dropped and some other event cannot be forwarded: the
\* forwarder stops reading.
StreamBreaks(r) ==
    /\ sup[r] = "wait" /\ r \in Streaming /\ stream[r] = "dropped"
    /\ Conclude(r, "lost", "failed")
    /\ UNCHANGED <<boot, zombies, starter, token, exec, stream, canceller, journal,
                   history>>

\* Mutant: a cancelled run is not journalled.
Announce_CancelledSilent(r) ==
    /\ sup[r] = "emit"
    /\ sup' = [sup EXCEPT ![r] = IF result[r] \in {"lost", "cancelled"} THEN "end" ELSE "journal"]
    /\ UNCHANGED <<boot, zombies, starter, table, token, exec, result, stream, canceller,
                   journal, history>>

\* The counters and the terminal event on the bus; a lost stream is not journalled.
Announce(r) ==
    /\ sup[r] = "emit"
    /\ sup' = [sup EXCEPT ![r] = IF result[r] = "lost" THEN "end" ELSE "journal"]
    /\ UNCHANGED <<boot, zombies, starter, table, token, exec, result, stream, canceller,
                   journal, history>>

\* The terminal row.
JournalEnded(r) ==
    /\ sup[r] = "journal"
    /\ closed' = [closed EXCEPT ![r] = Append(@, result[r])]
    /\ sup' = [sup EXCEPT ![r] = "end"]
    /\ UNCHANGED <<boot, zombies, starter, table, token, exec, result, stream, canceller,
                   started, history>>

\* ... or the append fails: logged.
JournalEndedFails(r) ==
    /\ sup[r] = "journal" /\ faults < MaxFaults
    /\ faults' = faults + 1
    /\ sup' = [sup EXCEPT ![r] = "end"]
    /\ UNCHANGED <<boot, zombies, starter, table, token, exec, result, stream, canceller,
                   journal, used, died, refused, crashes>>

-----------------------------------------------------------------------------
(* Callers.                                                                *)

\* The client of a streaming run goes away.
DropStream(r) ==
    /\ stream[r] = "open"
    /\ stream' = [stream EXCEPT ![r] = "dropped"]
    /\ UNCHANGED <<boot, zombies, starter, table, token, exec, sup, result, canceller,
                   journal, history>>

\* cancel finds the run Running (a second call would change nothing) ...
CancelCheck(r) ==
    /\ table[r] = "running" /\ r \notin canceller /\ ~token[r]
    /\ canceller' = canceller \cup {r}
    /\ UNCHANGED <<boot, zombies, starter, table, token, exec, sup, result, stream, journal,
                   history>>

\* Mutant: the entry is marked at once.
CancelFire_Marks(r) ==
    /\ r \in canceller
    /\ canceller' = canceller \ {r}
    /\ token' = [token EXCEPT ![r] = @ \/ table[r] # "absent"]
    /\ table' = [table EXCEPT ![r] = IF @ = "running" THEN "cancelled" ELSE @]
    /\ UNCHANGED <<boot, zombies, starter, exec, sup, result, stream, journal, history>>

\* ... and then fires its token, if the entry is still there.  (The recursion
\* over children finds none: no run is given a parent_id.)
CancelFire(r) ==
    /\ r \in canceller
    /\ canceller' = canceller \ {r}
    /\ token' = [token EXCEPT ![r] = @ \/ table[r] # "absent"]
    /\ UNCHANGED <<boot, zombies, starter, table, exec, sup, result, stream, journal,
                   history>>

\* gc removes an entry that ended long enough ago.
Gc(r) ==
    /\ table[r] \in Terminal
    /\ table' = [table EXCEPT ![r] = "absent"]
    /\ UNCHANGED <<boot, zombies, starter, token, exec, sup, result, stream, canceller,
                   journal, history>>

-----------------------------------------------------------------------------
BootStep == ReconcileScan \/ BootDone \/ \E r \in Runs : ReconcileAppend(r)

StarterStep(r) == Insert(r) \/ JournalStarted(r) \/ Spawn(r) \/ SpawnDenied(r)

SupStep(r) == RunReturns(r) \/ RunTimesOut(r) \/ StreamEnds(r) \/ StreamBreaks(r)
              \/ Announce(r) \/ JournalEnded(r)

Next ==
    \/ BootStep \/ BootFails \/ CrashRestart
    \/ \E r \in Runs :
          \/ StarterStep(r) \/ SupStep(r)
          \/ Validate(r) \/ StarterDropped(r)
          \/ JournalStartedFails(r) \/ JournalEndedFails(r)
          \/ ExecEnd(r) \/ ExecCancelled(r) \/ DropStream(r)
          \/ CancelCheck(r) \/ CancelFire(r) \/ Gc(r)

Spec == Init /\ [][Next]_vars

\* Tokio schedules every task and the timer fires; a cancelled executor ends
\* (Executor's CancelEnds), but no other executor needs to.
FairSpec ==
    /\ Spec
    /\ WF_vars(BootStep)
    /\ \A r \in Runs :
          /\ WF_vars(StarterStep(r)) /\ WF_vars(SupStep(r)) /\ WF_vars(CancelFire(r))
          /\ WF_vars(ExecCancelled(r))

-----------------------------------------------------------------------------
(* Properties.                                                             *)

\* The caller of start went away before there was a supervisor.
Dropped(r) == starter[r] \in {"left", "gone"}

\* start leaves an entry behind that stays Running until the process ends, and
\* counts against the namespace's limit, on two paths only: its future is dropped
\* while it awaits the journal, or the grant of a streaming run is refused.
LeftBehind(r) == Dropped(r) \/ r \in refused

\* A run that the process table shows as Running is one that start is still at or
\* that a supervisor watches, unless it was left behind; and one that was left
\* behind has no executor, so that no work of it goes on unwatched.
RunningIsWatched ==
    \A r \in Runs :
        /\ table[r] = "running" =>
              starter[r] \in {"journal", "spawn"} \/ sup[r] = "wait" \/ LeftBehind(r)
        /\ LeftBehind(r) => exec[r] = "none"

\* Once the runtime is up, the journal shows no run of an earlier process as
\* still running, however often the reconciliation itself was interrupted.
ZombieFree ==
    boot = "up" => \A r \in started \cap died : closed[r] # <<>>

\* A run that is called cancelled has stopped: no executor works on its steps.
CancelledIsStopped ==
    \A r \in Runs : table[r] = "cancelled" => exec[r] # "working"

\* Each run behaves as module RunRecord says: one verdict, one terminal row in
\* the journal across crashes and reconciliations, and cancelled only on request.
Rec(r) == INSTANCE RunRecord WITH
    Streamed  <- r \in Streaming,
    life      <- CASE r \notin used -> "unborn"
                   [] table[r] = "running" -> "running"
                   [] table[r] \in Terminal -> "ended"
                   [] OTHER -> "forgotten",
    verdict   <- IF result[r] = "lost" THEN "failed" ELSE result[r],
    record    <- IF closed[r] = <<>> THEN "none"
                 ELSE IF Len(closed[r]) = 1 THEN closed[r][1] ELSE "several",
    requested <- token[r],
    died      <- r \in died

\* The refinement, for all runs at once.
RunsKeepRecord ==
    /\ \A r \in Runs : Rec(r)!Init
    /\ [][\A r \in Runs : Rec(r)!Next \/ UNCHANGED Rec(r)!vars]_vars

\* A run that was started by start ends although its tools hang, by the
\* workflow's timeout; so does any run that was cancelled.  (A run that was left
\* behind ends with the process.)
RunsEnd ==
    \A r \in Runs :
        (table[r] = "running" /\ (r \notin Streaming \/ token[r]))
            ~> (table[r] # "running" \/ LeftBehind(r))

\* The journal learns how every run of start ended, in this life or the next,
\* unless an append failed; of a run whose caller was dropped it learns in the next
\* life only.
PlainRunsRecorded ==
    \A r \in Runs \ Streaming :
        (r \in started) ~> (closed[r] # <<>> \/ faults > 0 \/ Dropped(r))

\* "Runaway workflows are killed": when a run is reported as ended, nobody works
\* on it any more.
RunawayKilled ==
    \A r \in Runs : table[r] \in Terminal => exec[r] # "working"

=============================================================================
