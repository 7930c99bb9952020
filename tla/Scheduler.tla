----------------------------- MODULE Scheduler -----------------------------
(***************************************************************************)
(* The durable scheduler: crates/konf-runtime/src/scheduler.rs, the tools  *)
(* schedule:create and cancel:schedule of crates/konf-init/src/schedule.rs *)
(* and the registration of schedules.yaml at boot (konf-init/src/lib.rs).  *)
(*                                                                         *)
(* Durable state is two redb tables, TIMERS and TIMERS_BY_ID; every write  *)
(* transaction is one action.  The poll loop reads the due timers in one   *)
(* transaction and then fires and reschedules them one at a time, so that  *)
(* schedules, cancellations, crashes and storage errors interleave with it *)
(* at every await point.                                                   *)
(***************************************************************************)
EXTENDS Integers, FiniteSets, Sequences

CONSTANTS
    Jobs,           \* job ids (UUIDs; a fresh one for every timer)
    Workflows,      \* workflow ids a timer may name
    Exprs,          \* cron expressions, each with the namespace it runs in
    Schedules,      \* schedules.yaml: its entries [workflow, expr], in order
    MinFixedDelay,  \* MIN_FIXED_DELAY_MS, in model time units
    MaxFixedDelay,  \* MAX_FIXED_DELAY_MS
    CronTimes,      \* the instants each cron expression matches
    MaxTime,        \* bound on the clock
    MaxFaults       \* bound on crashes and failed transactions

ASSUME SchedulerAssumption ==
    /\ Schedules \in Seq([workflow : Workflows, expr : Exprs])
    /\ MinFixedDelay \in Nat \ {0}
    /\ MaxFixedDelay \in Nat
    /\ CronTimes \in [Exprs -> SUBSET Nat]
    /\ MaxTime \in Nat
    /\ MaxFaults \in Nat

VARIABLES
    timers,     \* TIMERS: the set of its keys <<fire_at, job>>
    byId,       \* TIMERS_BY_ID: job -> fire_at, or NoTime
    rec,        \* the TimerRecord stored under a job's key (never rewritten differently)
    registry,   \* workflows in the live engine registry
    now,        \* wall clock
    boot,       \* konf-init boot: "load", "list", "insert", then "up"
    seen,       \* existing_keys of register_schedules, read once
    entry,      \* the entry of schedules.yaml its loop is at
    poll,       \* poll loop: "sleep", "collect", "fire", "write", "stopped"
    pollNow,    \* now_ms captured by tick()
    due,        \* timers collected and not yet processed
    cur,        \* the timer being fired: <<old_fire_at, job>>
    next,       \* its next_at, or NoTime
    firedAt,    \* when cur was fired: the instant next counts from
    shutdown,   \* the shutdown token
    fires,      \* history: how often each job's workflow was invoked
    anchor,     \* history: the instant from which the stored fire time counts
    cancelled,  \* history: jobs whose cancel() returned true
    faults      \* history: crashes and storage errors so far

db       == <<timers, byId, rec>>
poller   == <<poll, pollNow, due, cur, next, firedAt>>
booting  == <<boot, seen, entry>>
history  == <<fires, anchor, cancelled, faults>>
vars     == <<timers, byId, rec, registry, now, boot, seen, entry, poll, pollNow,
              due, cur, next, firedAt, shutdown, fires, anchor, cancelled, faults>>

NoTime == -1
Modes  == {"once", "fixed", "cron"}
Delays == MinFixedDelay..MaxFixedDelay

\* A TimerRecord; "none" for an id that was never handed out.  Its created_by
\* names the entry of schedules.yaml it was made for: 0 for a tool's timer.
Record ==
    {r \in [mode : Modes \cup {"none"}, workflow : Workflows \cup {"none"},
            delay : Nat, expr : Exprs \cup {"none"}, entry : 0..Len(Schedules)] :
        r.mode = "cron" => r.expr \in Exprs}
NoRecord == [mode |-> "none", workflow |-> "none", delay |-> 0, expr |-> "none", entry |-> 0]
Delayed(m, w, d) == [mode |-> m, workflow |-> w, delay |-> d, expr |-> "none", entry |-> 0]
Cron(w, x, e) == [mode |-> "cron", workflow |-> w, delay |-> 0, expr |-> x, entry |-> e]

Used == {j \in Jobs : rec[j] # NoRecord}

-----------------------------------------------------------------------------
(* Clock arithmetic of the fire times.                                     *)

\* CronSchedule::upcoming(Utc).next(): the first match strictly after t.
CronAfter(x, t) ==
    LET later == {c \in CronTimes[x] : c > t}
    IN  IF later = {} THEN NoTime ELSE CHOOSE c \in later : \A d \in later : c <= d

\* Mutant: a one-shot timer is rescheduled like a fixed one.
NextFireAfter_OnceRepeats(j) ==
    IF rec[j].mode = "cron" THEN CronAfter(rec[j].expr, now) ELSE now + rec[j].delay

\* next_fire_after(mode)
NextFireAfter(j) ==
    CASE rec[j].mode = "fixed" -> now + rec[j].delay
      [] rec[j].mode = "cron"  -> CronAfter(rec[j].expr, now)
      [] OTHER                 -> NoTime   \* "once"

-----------------------------------------------------------------------------
Init ==
    /\ timers = {}
    /\ byId = [j \in Jobs |-> NoTime]
    /\ rec = [j \in Jobs |-> NoRecord]
    /\ registry = {}
    /\ now = 0
    /\ boot = "load" /\ seen = {} /\ entry = 1
    /\ poll = "sleep" /\ pollNow = 0 /\ due = {}
    /\ cur = <<>> /\ next = NoTime /\ firedAt = 0
    /\ shutdown = FALSE
    /\ fires = [j \in Jobs |-> 0]
    /\ anchor = [j \in Jobs |-> 0]
    /\ cancelled = {}
    /\ faults = 0

\* insert_new(): both tables in one write transaction.
InsertNew(j, r, at) ==
    /\ rec[j] = NoRecord
    /\ timers' = timers \cup {<<at, j>>}
    /\ byId' = [byId EXCEPT ![j] = at]
    /\ rec' = [rec EXCEPT ![j] = r]
    /\ anchor' = [anchor EXCEPT ![j] = now]
    /\ UNCHANGED <<fires, cancelled, faults>>

\* schedule:create with delay_ms: one-shot, or fixed with repeat = true.  The
\* tool refuses an unregistered workflow and a delay out of range.
ScheduleOnce(j, w, d) ==
    /\ w \in registry /\ d \in Delays
    /\ InsertNew(j, Delayed("once", w, d), now + d)
    /\ UNCHANGED <<registry, now, booting, poller, shutdown>>

ScheduleFixed(j, w, d) ==
    /\ w \in registry /\ d \in Delays
    /\ InsertNew(j, Delayed("fixed", w, d), now + d)
    /\ UNCHANGED <<registry, now, booting, poller, shutdown>>

\* schedule:create with a cron expression; an exhausted one is refused.
ScheduleCron(j, w, x) ==
    /\ w \in registry
    /\ CronAfter(x, now) # NoTime
    /\ InsertNew(j, Cron(w, x, 0), CronAfter(x, now))
    /\ UNCHANGED <<registry, now, booting, poller, shutdown>>

\* Mutant: only the index row is removed.
Cancel_IndexOnly(j) ==
    /\ byId[j] # NoTime
    /\ byId' = [byId EXCEPT ![j] = NoTime]
    /\ cancelled' = cancelled \cup {j}
    /\ UNCHANGED <<timers, rec, registry, now, booting, poller, shutdown, fires, anchor, faults>>

\* cancel(): look the fire time up by id, remove both rows, one transaction.
Cancel(j) ==
    /\ byId[j] # NoTime
    /\ timers' = timers \ {<<byId[j], j>>}
    /\ byId' = [byId EXCEPT ![j] = NoTime]
    /\ cancelled' = cancelled \cup {j}
    /\ UNCHANGED <<rec, registry, now, booting, poller, shutdown, fires, anchor, faults>>

-----------------------------------------------------------------------------
(* Boot: the poll loop is already running while workflows and             *)
(* schedules.yaml are loaded.                                              *)

\* register_workflows at boot, or config:reload adding a file.
RegisterWorkflow(w) ==
    /\ w \notin registry
    /\ registry' = registry \cup {w}
    /\ UNCHANGED <<db, now, booting, poller, shutdown, history>>

\* config:reload after the workflow's file was deleted.
RemoveWorkflow(w) ==
    /\ boot = "up" /\ w \in registry
    /\ registry' = registry \ {w}
    /\ UNCHANGED <<db, now, booting, poller, shutdown, history>>

WorkflowsLoaded ==
    /\ boot = "load"
    /\ boot' = "list"
    /\ UNCHANGED <<db, registry, now, seen, entry, poller, shutdown, history>>

\* What an entry and a timer are compared by: (workflow, cron, namespace).
KeyOf(r) == <<r.workflow, r.expr>>

\* RedbScheduler::list: the records of all timers, by one read transaction.
List == {rec[k[2]] : k \in timers}

\* Mutant: only one-shot timers would count as existing.
ListExisting_WrongMode ==
    /\ boot = "list"
    /\ seen' = {KeyOf(t) : t \in {u \in List : u.mode = "once"}}
    /\ boot' = "insert"
    /\ UNCHANGED <<db, registry, now, entry, poller, shutdown, history>>

\* register_schedules: the keys of the cron timers in the list.
ListExisting ==
    /\ boot = "list"
    /\ seen' = {KeyOf(t) : t \in {u \in List : u.mode = "cron"}}
    /\ boot' = "insert"
    /\ UNCHANGED <<db, registry, now, entry, poller, shutdown, history>>

\* ... then its loop over the entries.  It compares each with the keys that the
\* list showed and adds none to them, so entries with one key get a timer each.
AtEntry == boot = "insert" /\ entry <= Len(Schedules)
Listed == KeyOf(Schedules[entry]) \in seen

SkipEntry ==
    /\ AtEntry /\ Listed
    /\ entry' = entry + 1
    /\ UNCHANGED <<db, registry, now, boot, seen, poller, shutdown, history>>

\* schedule_cron(): the workflow need not be in the registry.
RegisterSchedule(j) ==
    /\ AtEntry /\ ~Listed
    /\ LET s == Schedules[entry] IN
        /\ CronAfter(s.expr, now) # NoTime
        /\ InsertNew(j, Cron(s.workflow, s.expr, entry), CronAfter(s.expr, now))
    /\ entry' = entry + 1
    /\ UNCHANGED <<registry, now, boot, seen, poller, shutdown>>

\* ... an exhausted expression or a failed transaction is logged and the entry
\* passed over until the next boot.
RegisterFails ==
    /\ AtEntry /\ ~Listed
    /\ \/ CronAfter(Schedules[entry].expr, now) = NoTime /\ faults' = faults
       \/ faults < MaxFaults /\ faults' = faults + 1
    /\ entry' = entry + 1
    /\ UNCHANGED <<db, registry, now, boot, seen, poller, shutdown, fires, anchor, cancelled>>

\* (With every id of the model in use the loop ends early.)
SchedulesLoaded ==
    /\ boot = "insert"
    /\ entry > Len(Schedules) \/ Used = Jobs
    /\ boot' = "up" /\ seen' = {} /\ entry' = 1
    /\ UNCHANGED <<db, registry, now, poller, shutdown, history>>

-----------------------------------------------------------------------------
(* The poll loop.                                                          *)

\* sleep(poll_interval) elapsed; tick() captures the time.
Wake ==
    /\ poll = "sleep" /\ ~shutdown
    /\ poll' = "collect"
    /\ pollNow' = now
    /\ UNCHANGED <<db, registry, now, booting, due, cur, next, firedAt, shutdown, history>>

\* The select is biased: a cancelled token wins over the sleep.
Stop ==
    /\ poll = "sleep" /\ shutdown
    /\ poll' = "stopped"
    /\ UNCHANGED <<db, registry, now, booting, pollNow, due, cur, next, firedAt, shutdown, history>>

\* Mutant: the upper end of the range is one too high.
CollectDue_OffByOne ==
    /\ poll = "collect"
    /\ due' = {t \in timers : t[1] <= pollNow + 1}
    /\ poll' = "fire"
    /\ UNCHANGED <<db, registry, now, booting, pollNow, cur, next, firedAt, shutdown, history>>

\* collect_due(now_ms): range 0..=now_ms in one read transaction.
CollectDue ==
    /\ poll = "collect"
    /\ due' = {t \in timers : t[1] <= pollNow}
    /\ poll' = "fire"
    /\ UNCHANGED <<db, registry, now, booting, pollNow, cur, next, firedAt, shutdown, history>>

TickDone ==
    /\ poll = "fire" /\ due = {}
    /\ poll' = "sleep"
    /\ UNCHANGED <<db, registry, now, booting, pollNow, due, cur, next, firedAt, shutdown, history>>

\* The due timers come in key order: by fire time, then by the random id.
FirstDue(t) == t \in due /\ \A u \in due : t[1] <= u[1]

\* Mutant: a timer whose workflow is missing is deleted.
FireMissing_DropsTimer(t) ==
    /\ poll = "fire" /\ FirstDue(t)
    /\ rec[t[2]].workflow \notin registry
    /\ due' = due \ {t}
    /\ timers' = timers \ {t}
    /\ byId' = [byId EXCEPT ![t[2]] = NoTime]
    /\ UNCHANGED <<rec, registry, now, booting, poll, pollNow, cur, next, firedAt, shutdown, history>>

\* fire_and_reschedule, workflow not in the registry: the timer stays.
FireMissing(t) ==
    /\ poll = "fire" /\ FirstDue(t)
    /\ rec[t[2]].workflow \notin registry
    /\ due' = due \ {t}
    /\ UNCHANGED <<db, registry, now, booting, poll, pollNow, cur, next, firedAt, shutdown, history>>

\* Mutant: the fired timer is not handed to reschedule().
Fire_ForgetsTimer(t) ==
    /\ poll = "fire" /\ FirstDue(t)
    /\ rec[t[2]].workflow \in registry
    /\ fires' = [fires EXCEPT ![t[2]] = @ + 1]
    /\ next' = NextFireAfter(t[2])
    /\ firedAt' = now
    /\ due' = due \ {t}
    /\ poll' = "write"
    /\ UNCHANGED <<db, registry, now, booting, pollNow, cur, shutdown, anchor, cancelled, faults>>

\* fire_and_reschedule up to the reschedule: the workflow is invoked.
Fire(t) ==
    /\ poll = "fire" /\ FirstDue(t)
    /\ rec[t[2]].workflow \in registry
    /\ fires' = [fires EXCEPT ![t[2]] = @ + 1]
    /\ cur' = t
    /\ next' = NextFireAfter(t[2])
    /\ firedAt' = now
    /\ due' = due \ {t}
    /\ poll' = "write"
    /\ UNCHANGED <<db, registry, now, booting, pollNow, shutdown, anchor, cancelled, faults>>

\* Mutant: the old row stays.
Reschedule_KeepsOldRow ==
    /\ poll = "write"
    /\ LET j == cur[2] IN
        /\ timers' = timers \cup (IF next = NoTime THEN {} ELSE {<<next, j>>})
        /\ byId' = [byId EXCEPT ![j] = next]
        /\ anchor' = [anchor EXCEPT ![j] = firedAt]
    /\ poll' = "fire"
    /\ cur' = <<>> /\ next' = NoTime /\ firedAt' = 0
    /\ UNCHANGED <<rec, registry, now, booting, pollNow, due, shutdown, fires, cancelled, faults>>

\* reschedule(): drop the old key, insert the next one if there is one.
Reschedule ==
    /\ poll = "write"
    /\ LET j == cur[2] IN
        /\ timers' = (timers \ {cur}) \cup (IF next = NoTime THEN {} ELSE {<<next, j>>})
        /\ byId' = [byId EXCEPT ![j] = next]
        /\ anchor' = [anchor EXCEPT ![j] = firedAt]
    /\ poll' = "fire"
    /\ cur' = <<>> /\ next' = NoTime /\ firedAt' = 0
    /\ UNCHANGED <<rec, registry, now, booting, pollNow, due, shutdown, fires, cancelled, faults>>

\* Mutant: a failed tick ends the poll loop.
StorageError_EndsLoop ==
    /\ faults < MaxFaults
    /\ poll \in {"collect", "write"}
    /\ poll' = "stopped"
    /\ due' = {} /\ cur' = <<>> /\ next' = NoTime /\ firedAt' = 0
    /\ faults' = faults + 1
    /\ UNCHANGED <<db, registry, now, booting, pollNow, shutdown, fires, anchor, cancelled>>

\* A transaction of the tick fails: tick() returns the error, the rest of the
\* due timers is dropped until the next tick.
StorageError ==
    /\ faults < MaxFaults
    /\ poll \in {"collect", "write"}
    /\ poll' = "sleep"
    /\ due' = {} /\ cur' = <<>> /\ next' = NoTime /\ firedAt' = 0
    /\ faults' = faults + 1
    /\ UNCHANGED <<db, registry, now, booting, pollNow, shutdown, fires, anchor, cancelled>>

\* RedbScheduler::shutdown()
Shutdown ==
    /\ boot = "up" /\ ~shutdown
    /\ shutdown' = TRUE
    /\ UNCHANGED <<db, registry, now, booting, poller, history>>

\* The process dies and is started again: only the two tables survive.
CrashRestart ==
    /\ faults < MaxFaults
    /\ registry' = {}
    /\ boot' = "load" /\ seen' = {} /\ entry' = 1
    /\ poll' = "sleep" /\ pollNow' = now /\ due' = {}
    /\ cur' = <<>> /\ next' = NoTime /\ firedAt' = 0
    /\ shutdown' = FALSE
    /\ faults' = faults + 1
    /\ UNCHANGED <<db, now, fires, anchor, cancelled>>

Tick ==
    /\ now < MaxTime
    /\ now' = now + 1
    /\ UNCHANGED <<db, registry, booting, poller, shutdown, history>>

-----------------------------------------------------------------------------
Poll == Wake \/ CollectDue \/ TickDone \/ Reschedule
           \/ \E t \in due : FireMissing(t) \/ Fire(t)

Boot == WorkflowsLoaded \/ ListExisting \/ SkipEntry \/ RegisterFails \/ SchedulesLoaded
           \/ \E j \in Jobs : RegisterSchedule(j)

Clients == \E j \in Jobs :
    \/ Cancel(j)
    \/ \E w \in Workflows :
          \/ \E x \in Exprs : ScheduleCron(j, w, x)
          \/ \E d \in Delays : ScheduleOnce(j, w, d) \/ ScheduleFixed(j, w, d)

Next ==
    \/ Poll \/ Boot \/ Clients
    \/ \E w \in Workflows : RegisterWorkflow(w) \/ RemoveWorkflow(w)
    \/ Stop \/ StorageError \/ Shutdown \/ CrashRestart \/ Tick

Spec == Init /\ [][Next]_vars

\* The poll loop is a tokio task that always gets scheduled, and time passes.
FairSpec == Spec /\ WF_vars(Poll) /\ WF_vars(Tick)

-----------------------------------------------------------------------------
(* Properties.                                                             *)

\* The timers the running tick holds in memory, collected but not committed.
InFlight == due \cup (IF poll = "write" THEN {cur} ELSE {})
InFlightJobs == {t[2] : t \in InFlight}

\* Every variable has its type.
TypeOK ==
    /\ timers \subseteq Nat \X Jobs
    /\ byId \in [Jobs -> Nat \cup {NoTime}]
    /\ rec \in [Jobs -> Record]
    /\ registry \subseteq Workflows
    /\ now \in Nat
    /\ boot \in {"load", "list", "insert", "up"}
    /\ seen \subseteq (Workflows \cup {"none"}) \X (Exprs \cup {"none"})
    /\ entry \in Nat \ {0}
    /\ poll \in {"sleep", "collect", "fire", "write", "stopped"}
    /\ pollNow \in Nat
    /\ due \subseteq Nat \X Jobs
    /\ cur \in (Nat \X Jobs) \cup {<<>>}
    /\ poll = "write" => cur \in Nat \X Jobs
    /\ next \in Nat \cup {NoTime}
    /\ firedAt \in Nat
    /\ shutdown \in BOOLEAN
    /\ fires \in [Jobs -> Nat]
    /\ anchor \in [Jobs -> Nat]
    /\ cancelled \subseteq Jobs
    /\ faults \in Nat

\* The primary table and its index describe the same timers: whatever order
\* schedules, cancels, reschedules, failures and crashes commit in, a timer has
\* one row in each table, at the same fire time.  cancel() relies on it to find
\* the row it deletes.
IndexesAgree ==
    /\ \A t \in timers : byId[t[2]] = t[1]
    /\ \A j \in Jobs : byId[j] # NoTime => <<byId[j], j>> \in timers

\* A timer nobody cancelled is never lost: not to a crash between firing and
\* rescheduling, not to a failed transaction, not to a missing workflow.  It
\* leaves the tables only after firing, as a one-shot or as a cron expression
\* with no match left.
NoTimerLost ==
    \A j \in Used \ cancelled :
        \/ byId[j] # NoTime
        \/ rec[j].mode = "once" /\ fires[j] > 0
        \/ rec[j].mode = "cron" /\ fires[j] > 0 /\ CronAfter(rec[j].expr, anchor[j]) = NoTime

\* At-least-once, and no more than that: a one-shot timer fires again only
\* because a crash or a failed commit came between firing and deleting it.
OnceAtMostOnce ==
    \A j \in Used : rec[j].mode = "once" => fires[j] <= 1 + faults

\* Restarts do not multiply the entries of schedules.yaml: the poll loop runs
\* while register_schedules lists and inserts, and boots are cut short, and still
\* no entry has two live timers that nobody cancelled.  This is per entry: the
\* keys of the list are not updated in the loop, so entries that share workflow,
\* cron and namespace each get a timer.  A cancelled timer is not counted: one
\* that the tick writes back after the list was read (CancelStops) was not in
\* it, and its entry is registered again beside it.
YamlOnce ==
    \A i, j \in Used \ cancelled :
        /\ rec[i].entry # 0 /\ rec[i].entry = rec[j].entry
        /\ byId[i] # NoTime /\ byId[j] # NoTime
        => i = j

\* A timer never fires before its time, counted from the instant its stored
\* fire time was computed: a delay has elapsed, or a cron instant has passed.
NeverEarly ==
    [][\A j \in Jobs : fires'[j] # fires[j] =>
          IF rec[j].mode = "cron"
          THEN \E c \in CronTimes[rec[j].expr] : anchor[j] < c /\ c <= now
          ELSE now >= anchor[j] + rec[j].delay]_vars

\* No row of the job is stored, and the running tick does not hold it.
Quiet(j) == byId[j] = NoTime /\ j \notin InFlightJobs

\* A cancelled timer that the running tick does not hold stays gone: it is
\* neither collected again nor written back nor fired.
CancelledStaysQuiet ==
    [][\A j \in cancelled : Quiet(j) => Quiet(j)' /\ fires'[j] = fires[j]]_vars

\* The poll loop serves every due timer: if its workflow is eventually there to
\* stay and the scheduler is not shut down, the timer does not stay due, however
\* many other due timers have no workflow and whatever failed before.
DueFires ==
    \A j \in Jobs :
        <>[](rec[j].workflow \in registry /\ ~shutdown)
            => []<>~(byId[j] # NoTime /\ byId[j] <= now)

\* cancel:schedule "stops repeating timers": once cancel() has returned true
\* the timer does not come back.
CancelStops ==
    [][\A j \in cancelled : byId[j] = NoTime => byId'[j] = NoTime]_vars

=============================================================================
