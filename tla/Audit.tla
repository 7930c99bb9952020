------------------------------- MODULE Audit -------------------------------
(***************************************************************************)
(* Who writes the journal and who follows it: the dispatcher's tool calls  *)
(* (dispatcher.rs), the executor's hooks (hooks.rs) and the runtime, the   *)
(* fan-out to a mirror (fanout.rs, journal_store.rs), the event bus        *)
(* (event_bus.rs), a subscription (subscribe.rs) and the sweeper           *)
(* (sweep.rs), over the tables of module Journal, with crashes.            *)
(*                                                                         *)
(* An append is awaited in two places and spawned in a third; in each the  *)
(* row is committed first, by a task of its own, and the awaiting future   *)
(* mirrors and announces it when it resumes, so they are one kind of       *)
(* writer here.  That future may be dropped in between.  A channel's       *)
(* buffer is not kept: a row is sent when the subscriber's client takes    *)
(* it.                                                                     *)
(***************************************************************************)
EXTENDS Journal

CONSTANTS
    Stores,       \* the journals a boot may configure: "none", "redb", "fanout" over redb
    Calls,        \* dispatch_tool invocations, concurrent
    Nodes,        \* nodes of the workflow that runs
    MaxRows,      \* bound on the entries ever created
    Filters,      \* the filters of subscriptions
    ReplayLimit,  \* replay_limit
    MaxFaults     \* bound on crashes and storage errors

ASSUME AuditAssumption ==
    /\ Stores \subseteq {"none", "redb", "fanout"} /\ Filters \subseteq Filter
    /\ MaxRows \in Nat /\ ReplayLimit \in Nat /\ MaxFaults \in Nat

VARIABLES
    store,      \* the JournalStore of the runtime
    calls,      \* call -> [pc, key, known]
    active,     \* active_nodes of the run: node -> status
    created,    \* entries created so far; the newest one's uid
    writers,    \* appends under way: [entry, seq], seq None until committed
    resuming,   \* entries that the fan-out's primary has and that append has yet to pass on
    mirror,     \* rows of the SurrealDB table: [boot, seq, uid]
    counter,    \* SurrealJournalStore::counter
    mirroring,  \* entries of the spawned secondary writes
    dropped,    \* dropped_secondary_writes
    bus,        \* what the subscription's receiver has not taken yet
    missed,     \* history: an event was overwritten (Lagged), or a query for it failed
    sub,        \* the subscription: [pc, filter, todo, got]
    faults,     \* faults so far
    boot,       \* history: restarts so far
    zombies,    \* runs that the boot has yet to reconcile
    orphaned,   \* history: uids of rows whose append was dropped before it resumed
    bypassed,   \* history: uids of rows reconciled at boot, or whose secondary panicked
    committed   \* history: uid -> boot in which the row was committed to redb

mirrorVars == <<resuming, mirror, counter, mirroring, dropped, orphaned, bypassed>>
busVars == <<bus, missed>>
auditVars == <<store, calls, active, created, writers, mirrorVars, busVars, sub, faults, boot,
              zombies, committed>>
vars == <<tables, now, auditVars>>

NoSub == [pc |-> "off", filter |-> AnyRow, todo |-> <<>>, got |-> {}]
IdleCall == [pc |-> "idle", key |-> None, known |-> FALSE]

Init ==
    /\ EmptyTables /\ now = 0
    /\ store \in Stores
    /\ calls = [c \in Calls |-> IdleCall]
    /\ active = [n \in Nodes |-> "absent"]
    /\ created = 0 /\ writers = {}
    /\ resuming = {} /\ mirror = {} /\ counter = 0 /\ mirroring = {} /\ dropped = 0
    /\ bus = <<>> /\ missed = FALSE /\ sub = NoSub
    /\ faults = 0 /\ boot = 0 /\ zombies = {}
    /\ orphaned = {} /\ bypassed = {} /\ committed = <<>>

Fault == faults < MaxFaults /\ faults' = faults + 1
NoFault == faults' = faults

\* Runtime::with_limits returns when the reconciliation is over; nothing works before.
Up == zombies = {}

\* RunEventBus::emit.  Only JournalAppended events are kept: the receiver ignores the others,
\* which only use up the channel's capacity.
Emit(event) == bus' = (IF sub.pc = "off" THEN bus ELSE Append(bus, event)) /\ UNCHANGED missed

\* The channel is full, and its oldest event is overwritten: RecvError::Lagged.
Lag ==
    /\ bus # <<>> /\ bus' = Tail(bus) /\ missed' = TRUE
    /\ UNCHANGED <<tables, now, store, calls, active, created, writers, mirrorVars, sub, faults,
                   boot, zombies, committed>>

-----------------------------------------------------------------------------
(* Writers.                                                                *)

\* JournalEntry, as StoredEntry keeps it; run, key and valid_to may be None.
NewEntry(run, key, type, valid_to, s, ns) ==
    [uid |-> created + 1, run |-> run, session |-> s, namespace |-> ns, type |-> type,
     valid_to |-> valid_to, key |-> key]

\* The entry's append is on its way, unless there is no journal.
StartWriter(entry) ==
    /\ created < MaxRows
    /\ IF store = "none" THEN UNCHANGED <<created, writers>>
       ELSE created' = created + 1 /\ writers' = writers \cup {[entry |-> entry, seq |-> None]}

\* The transaction of redb's append, in a blocking task that nobody can stop.
Transaction(e) ==
    /\ AppendRow(e)
    /\ committed' = [u \in DOMAIN committed \cup {e.uid} |-> IF u = e.uid THEN boot ELSE committed[u]]

\* Mutant: the secondaries do not wait for the primary's result.
Store_MirrorsAnyway(e, ok) ==
    /\ IF ok THEN Transaction(e) ELSE UNCHANGED <<tables, committed>>
    /\ resuming' = IF store = "fanout" THEN resuming \cup {e} ELSE resuming

\* append of the configured store, up to the await of the primary's transaction, whose
\* error is the caller's.  The fan-out has yet to pass the row on.
Store(e, ok) ==
    IF ok
    THEN /\ Transaction(e)
         /\ resuming' = IF store = "fanout" THEN resuming \cup {e} ELSE resuming
    ELSE UNCHANGED <<tables, committed, resuming>>

\* The fan-out's append resumes: the secondary's write is spawned.
PassOn(e) ==
    /\ e \in resuming /\ resuming' = resuming \ {e}
    /\ mirroring' = mirroring \cup {e}
    /\ UNCHANGED <<tables, now, store, calls, active, created, writers, mirror, counter, dropped,
                   orphaned, bypassed, busVars, sub, faults, boot, zombies, committed>>

\* A writer's append commits, or fails and is only logged.
Commit(w) ==
    /\ w \in writers /\ w.seq = None
    /\ \/ /\ NoFault /\ Store(w.entry, TRUE)
          /\ writers' = (writers \ {w}) \cup {[w EXCEPT !.seq = NextId]}
       \/ /\ Fault /\ Store(w.entry, FALSE)
          /\ writers' = writers \ {w}
    /\ UNCHANGED <<now, store, calls, active, created, mirror, counter, mirroring, dropped,
                   orphaned, bypassed, busVars, sub, boot, zombies>>

\* ... and then says so: RunEvent::JournalAppended.
Announce(w) ==
    /\ w \in writers /\ w.seq # None /\ w.entry \notin resuming
    /\ writers' = writers \ {w}
    /\ Emit([seq |-> w.seq, namespace |-> w.entry.namespace, type |-> w.entry.type])
    /\ UNCHANGED <<tables, now, store, calls, active, created, mirrorVars, sub, faults, boot, zombies, committed>>

\* The future that awaits the append is dropped with its caller (a step's timeout, the
\* shutdown of an executor, a client that disconnects): the row is committed all the same,
\* and neither passed on nor announced.  It can be dispatch_tool's, whose rows have no run,
\* or that of Runtime::start; a hook's append has a task of its own.
CallerDropped(e) ==
    /\ e.run = None \/ e.type = "lifecycle"
    /\ e \in resuming \/ (store # "fanout" /\ \E w \in writers : w.entry = e /\ w.seq # None)
    /\ writers' = {w \in writers : w.entry # e}
    /\ resuming' = resuming \ {e} /\ orphaned' = orphaned \cup {e.uid}
    /\ UNCHANGED <<tables, now, store, calls, active, created, mirror, counter, mirroring, dropped,
                   bypassed, busVars, sub, faults, boot, zombies, committed>>

\* The runtime's own lifecycle rows are appended and not announced; so are entries that
\* other users of the trait append, the only ones with a valid_to.
AppendOnly(run, type, valid_to, s, ns) ==
    /\ Up /\ store # "none" /\ created < MaxRows /\ created' = created + 1
    /\ \/ NoFault /\ Store(NewEntry(run, None, type, valid_to, s, ns), TRUE)
       \/ Fault /\ Store(NewEntry(run, None, type, valid_to, s, ns), FALSE)
    /\ UNCHANGED <<now, store, calls, active, writers, mirror, counter, mirroring, dropped,
                   orphaned, bypassed, busVars, sub, boot, zombies>>

Lifecycle == \E r \in RunIds, s \in Sessions, ns \in Spaces : AppendOnly(r, "lifecycle", None, s, ns)
Expiring ==
    \E s \in Sessions, ns \in Spaces, t \in now .. MaxTime : AppendOnly(None, "lifecycle", t, s, ns)

-----------------------------------------------------------------------------
(* dispatch_tool                                                           *)

\* The capability, the registry and the deadline let the call pass.  (Otherwise it returns an
\* error and has changed nothing.)  known: at this point the journal could answer it.
BeginDispatch(c, k) ==
    /\ Up /\ calls[c].pc = "idle"
    /\ calls' = [calls EXCEPT ![c] =
          [pc |-> "lookup", key |-> k,
           known |-> store = "redb" /\ \E i \in DOMAIN events : events[i].key = k /\ k # None]]
    /\ UNCHANGED <<tables, now, store, active, created, writers, mirrorVars, busVars, sub, faults,
                   boot, zombies, committed>>

\* FanoutJournalStore does not forward the lookup: the trait's default answers None.
Cached(k) == IF store = "redb" /\ k # None THEN GetByIdempotencyKey(k) ELSE None

\* The idempotency lookup; one that fails counts as a miss.
Lookup(c) ==
    /\ calls[c].pc = "lookup"
    /\ \/ /\ NoFault
          /\ calls' = IF Cached(calls[c].key) = None THEN [calls EXCEPT ![c].pc = "invoke"]
                      ELSE [calls EXCEPT ![c] = IdleCall]
       \/ /\ store = "redb" /\ calls[c].key # None /\ Fault
          /\ calls' = [calls EXCEPT ![c].pc = "invoke", ![c].known = FALSE]
    /\ UNCHANGED <<tables, now, store, active, created, writers, mirrorVars, busVars, sub, boot, zombies, committed>>

\* The tool runs, with either result, and the interaction's append begins.
Invoke(c) ==
    /\ calls[c].pc = "invoke" /\ calls' = [calls EXCEPT ![c] = IdleCall]
    /\ \E s \in Sessions, ns \in Spaces :
          StartWriter(NewEntry(None, calls[c].key, "interaction", None, s, ns))
    /\ UNCHANGED <<tables, now, store, active, mirrorVars, busVars, sub, faults, boot, zombies, committed>>

-----------------------------------------------------------------------------
(* RuntimeHooks::on_event.  spawn_journal_append's task is a writer.       *)

NodeEvent(n, from, to) ==
    /\ Up /\ active[n] \in from
    /\ active' = [active EXCEPT ![n] = to]
    /\ \E r \in RunIds, s \in Sessions, ns \in Spaces :
          StartWriter(NewEntry(r, None, "interaction", None, s, ns))
    /\ UNCHANGED <<tables, now, store, calls, mirrorVars, busVars, sub, faults, boot, zombies, committed>>

NodeStarted(n) == NodeEvent(n, {"absent"}, "running")
NodeCompleted(n) == NodeEvent(n, {"running", "retrying"}, "absent")
NodeFailed(n) == NodeEvent(n, {"running", "retrying"}, "absent")
ToolRetry(n) == NodeEvent(n, {"running", "retrying"}, "retrying")

-----------------------------------------------------------------------------
(* The mirror, the sweeper and the clock.                                  *)

\* SurrealJournalStore::append in its task: a number is used up even if the write fails.
\* "if a spawned task panics before incrementing it, the drop will be missed" (fanout.rs).
MirrorWrite(e) ==
    /\ e \in mirroring /\ mirroring' = mirroring \ {e}
    /\ counter' = counter + 1
    /\ \/ /\ NoFault /\ mirror' = mirror \cup {[boot |-> boot, seq |-> counter, uid |-> e.uid]}
          /\ UNCHANGED <<dropped, bypassed>>
       \/ Fault /\ dropped' = dropped + 1 /\ UNCHANGED <<mirror, bypassed>>
       \/ Fault /\ bypassed' = bypassed \cup {e.uid} /\ UNCHANGED <<mirror, dropped>>
    /\ UNCHANGED <<tables, now, store, calls, active, created, writers, resuming, orphaned, busVars,
                   sub, boot, zombies, committed>>

\* TtlSweeper: always on the primary.
Sweep ==
    /\ Up /\ store # "none" /\ DeleteExpired
    /\ UNCHANGED <<now, auditVars>>

Tick == now < MaxTime /\ now' = now + 1 /\ UNCHANGED <<tables, auditVars>>

\* The lifecycle rows of a run, among them its start.  Which runs have no end is module
\* Runtime's; here any of them may be found open.
Unfinished(r) == {i \in DOMAIN events : events[i].run = r /\ events[i].type = "lifecycle"}

\* What is not in a table is gone; the next process may be configured otherwise.
CrashRestart ==
    /\ Fault /\ boot' = boot + 1
    /\ store' \in IF store = "none" THEN {"none"} ELSE Stores \ {"none"}
    /\ calls' = [c \in Calls |-> IdleCall] /\ active' = [n \in Nodes |-> "absent"]
    /\ writers' = {} /\ resuming' = {} /\ counter' = 0 /\ mirroring' = {} /\ dropped' = 0
    /\ bus' = <<>> /\ missed' = FALSE /\ sub' = NoSub
    /\ zombies' \in SUBSET {r \in RunIds : Unfinished(r) # {}}
    /\ UNCHANGED <<tables, now, created, mirror, orphaned, bypassed, committed>>

\* reconcile_zombies, of the primary: the rows of the runs found open (module Runtime) are
\* appended to redb, and to nothing else.  (One that fails fails the boot: CrashRestart.)
Reconcile(r) ==
    /\ r \in zombies /\ created < MaxRows /\ created' = created + 1
    /\ \E i \in Unfinished(r) :
          LET e == NewEntry(r, None, "lifecycle", None, events[i].session, events[i].namespace)
          IN  Transaction(e) /\ bypassed' = bypassed \cup {e.uid}
    /\ zombies' = zombies \ {r}
    /\ UNCHANGED <<now, store, calls, active, writers, resuming, mirror, counter, mirroring, dropped,
                   orphaned, busVars, sub, faults, boot>>

-----------------------------------------------------------------------------
(* JournalSubscription                                                     *)

\* The receiver exists before the task that replays is spawned.
Subscribe(f) ==
    /\ Up /\ sub.pc = "off" /\ store # "none"
    /\ sub' = [pc |-> "replay", filter |-> f, todo |-> <<>>, got |-> {}]
    /\ bus' = <<>> /\ missed' = FALSE
    /\ UNCHANGED <<tables, now, store, calls, active, created, writers, mirrorVars, faults, boot, zombies, committed>>

SubStep == UNCHANGED <<tables, now, store, calls, active, created, writers, mirrorVars, boot, zombies, committed>>

RowsOf(ids) == [j \in 1 .. Len(ids) |-> events[ids[j]].uid]

\* Phase 1: the rows to send, none if the query fails.
Replay ==
    /\ sub.pc = "replay" /\ UNCHANGED bus /\ SubStep
    /\ \/ NoFault /\ sub' = [sub EXCEPT !.pc = "sending", !.todo = RowsOf(Query(sub.filter, ReplayLimit))]
          /\ UNCHANGED missed
       \/ Fault /\ sub' = [sub EXCEPT !.pc = "sending"] /\ missed' = TRUE

\* Mutant: the bus is only subscribed to here.
GoLive_SubscribesLate ==
    /\ sub.pc = "sending" /\ sub.todo = <<>> /\ sub' = [sub EXCEPT !.pc = "live"]
    /\ bus' = <<>> /\ UNCHANGED <<missed, faults>> /\ SubStep

\* "replay complete, switching to live"
GoLive ==
    /\ sub.pc = "sending" /\ sub.todo = <<>> /\ sub' = [sub EXCEPT !.pc = "live"]
    /\ UNCHANGED <<busVars, faults>> /\ SubStep

\* Sending waits for the client.
Send ==
    /\ sub.todo # <<>>
    /\ sub' = [sub EXCEPT !.todo = Tail(@), !.got = @ \cup {Head(sub.todo)}]
    /\ UNCHANGED <<busVars, faults>> /\ SubStep

\* The filter's quick check on the event.
Prefilter(f, event) ==
    /\ f.namespace # None => event.namespace = f.namespace
    /\ f.type # None => event.type = f.type

\* Phase 2: the newest row, if it is the announced one and matches.
Receive ==
    /\ sub.pc = "live" /\ sub.todo = <<>> /\ bus # <<>>
    /\ bus' = Tail(bus)
    /\ LET event == Head(bus)
           found == NewestFirst({i \in ToSet(Recent(1)) : i = event.seq /\ Matches(sub.filter, i)})
       IN \/ NoFault /\ sub' = [sub EXCEPT !.todo = IF Prefilter(sub.filter, event) THEN RowsOf(found) ELSE <<>>]
             /\ UNCHANGED missed
          \/ Prefilter(sub.filter, event) /\ Fault /\ missed' = TRUE /\ UNCHANGED sub
    /\ SubStep

\* The client goes away; the task sees it when it next sends.
Unsubscribe ==
    /\ sub.todo # <<>> /\ sub' = NoSub /\ bus' = <<>> /\ missed' = FALSE /\ NoFault /\ SubStep

-----------------------------------------------------------------------------

Next ==
    \/ \E c \in Calls : \/ \E k \in Keys \cup {None} : BeginDispatch(c, k)
                        \/ Lookup(c) \/ Invoke(c)
    \/ \E n \in Nodes : NodeStarted(n) \/ NodeCompleted(n) \/ NodeFailed(n) \/ ToolRetry(n)
    \/ \E w \in writers : Commit(w) \/ Announce(w)
    \/ Lifecycle \/ Expiring
    \/ \E e \in resuming : PassOn(e)
    \/ \E e \in resuming \cup {w.entry : w \in writers} : CallerDropped(e)
    \/ \E e \in mirroring : MirrorWrite(e)
    \/ \E r \in zombies : Reconcile(r)
    \/ Sweep \/ Tick \/ Lag \/ CrashRestart
    \/ \E f \in Filters : Subscribe(f)
    \/ Replay \/ GoLive \/ Send \/ Receive \/ Unsubscribe

Spec == Init /\ [][Next]_vars

-----------------------------------------------------------------------------

\* dispatcher.rs, "return cached result if available": under the plain redb store a call that
\* begins when its key is already in the journal does not run the tool again, whatever is
\* swept, appended or restarted in between, unless the lookup itself fails.
SettledOnce == \A c \in Calls : calls[c].pc = "invoke" => ~calls[c].known

\* The newest row ever, if a writer announces its row and a subscription wants it.
Wanted(i) ==
    /\ i = Max(DOMAIN events) /\ Matches(sub.filter, i)
    /\ events[i].type = "interaction" /\ events[i].uid \notin orphaned
    /\ \A u \in DOMAIN committed : u <= events[i].uid

\* subscribe.rs: a subscription that did not lag and has nothing left to do has passed on the
\* newest row, if that one was announced: nothing falls between its replay and its live phase.
CaughtUp ==
    (/\ sub.pc = "live" /\ sub.todo = <<>> /\ bus = <<>> /\ ~missed /\ ReplayLimit > 0
     /\ \A w \in writers : w.seq = None)
    => \A i \in DOMAIN events : Wanted(i) => events[i].uid \in sub.got

\* The same of every row: subscribe.rs says "look up the entry by sequence, filter, and
\* forward matches".
SeesEveryRow ==
    (/\ sub.pc = "live" /\ sub.todo = <<>> /\ bus = <<>> /\ ~missed /\ ReplayLimit >= MaxRows
     /\ \A w \in writers : w.seq = None)
    => \A i \in DOMAIN events :
          events[i].type = "interaction" /\ events[i].uid \notin orphaned /\ Matches(sub.filter, i)
             => events[i].uid \in sub.got

\* fanout.rs: the mirror has no row that the primary refused, none twice, and no number twice
\* within a process; in the running process every row that append has committed under the
\* fan-out is mirrored, on its way, or counted as dropped.  Three kinds of rows are never
\* mirrored and never counted, and no others: those of the reconciliation at boot, those
\* whose append was dropped before it resumed, and those whose secondary panicked.
MirrorFaithful ==
    LET here == {m \in mirror : m.boot = boot}
        unseen == orphaned \cup bypassed
    IN
    /\ {m.uid : m \in mirror} \cup {e.uid : e \in mirroring \cup resuming}
          \subseteq DOMAIN committed \ unseen
    /\ \A m, n \in mirror : m.uid = n.uid \/ (m.boot = n.boot /\ m.seq = n.seq) => m = n
    /\ store = "fanout" =>
          Cardinality({u \in DOMAIN committed : committed[u] = boot} \ unseen)
             = Cardinality(here) + Cardinality(mirroring) + Cardinality(resuming) + dropped
=============================================================================
