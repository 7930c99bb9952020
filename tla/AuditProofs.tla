---------------------------- MODULE AuditProofs ----------------------------
(***************************************************************************)
(* Theorems about Audit and the tables of Journal, for any number of       *)
(* calls, nodes, rows, crashes and storage errors.                         *)
(***************************************************************************)
EXTENDS Audit, JournalProofs

-----------------------------------------------------------------------------
(* What a step may do to the tables.                                       *)

LEMMA StoreTables ==
    ASSUME NEW e, NEW ok, Store(e, ok)
    PROVE  UNCHANGED tables \/ AppendRow(e)
BY DEF Store, Transaction, tables

\* A row that is appended while a step is taken has a key only if it never expires.
LEMMA TableStep ==
    ASSUME [Next]_vars, \A w \in writers : w.entry.key # None => w.entry.valid_to = None
    PROVE  \/ UNCHANGED tables
           \/ DeleteExpired
           \/ \E e : AppendRow(e) /\ (e.key # None => e.valid_to = None)
<1>1. CASE UNCHANGED vars
  BY <1>1 DEF vars
<1>2. ASSUME NEW c \in Calls, NEW k \in Keys \cup {None}, BeginDispatch(c, k) PROVE UNCHANGED tables
  BY <1>2 DEF BeginDispatch
<1>3. ASSUME NEW c \in Calls, Lookup(c) \/ Invoke(c) PROVE UNCHANGED tables
  BY <1>3 DEF Lookup, Invoke
<1>4. ASSUME NEW n \in Nodes, NodeStarted(n) \/ NodeCompleted(n) \/ NodeFailed(n) \/ ToolRetry(n)
      PROVE  UNCHANGED tables
  BY <1>4 DEF NodeStarted, NodeCompleted, NodeFailed, ToolRetry, NodeEvent
<1>5. ASSUME NEW w \in writers, Commit(w)
      PROVE  UNCHANGED tables \/ \E e : AppendRow(e) /\ (e.key # None => e.valid_to = None)
  <2>1. UNCHANGED tables \/ AppendRow(w.entry)
    BY <1>5, StoreTables DEF Commit
  <2> QED
    BY <2>1
<1>6. ASSUME NEW w \in writers, Announce(w) PROVE UNCHANGED tables
  BY <1>6 DEF Announce
<1>7. ASSUME Lifecycle \/ Expiring
      PROVE  UNCHANGED tables \/ \E e : AppendRow(e) /\ (e.key # None => e.valid_to = None)
  <2>1. PICK run, type, valid_to, s, ns : AppendOnly(run, type, valid_to, s, ns)
    BY <1>7 DEF Lifecycle, Expiring
  <2>2. UNCHANGED tables \/ AppendRow(NewEntry(run, None, type, valid_to, s, ns))
    BY <2>1, StoreTables DEF AppendOnly
  <2>3. NewEntry(run, None, type, valid_to, s, ns).key = None
    BY DEF NewEntry
  <2> QED
    BY <2>2, <2>3
<1>8. ASSUME \/ \E e \in mirroring : MirrorWrite(e)
             \/ \E e \in resuming : PassOn(e)
             \/ \E e \in resuming \cup {w.entry : w \in writers} : CallerDropped(e)
      PROVE  UNCHANGED tables
  BY <1>8, Zenon DEF MirrorWrite, PassOn, CallerDropped
<1>9. CASE Sweep
  BY <1>9 DEF Sweep
<1>10. CASE Tick \/ Lag \/ CrashRestart
  BY <1>10 DEF Tick, Lag, CrashRestart
<1>11. ASSUME NEW f \in Filters, Subscribe(f) PROVE UNCHANGED tables
  BY <1>11 DEF Subscribe
<1>12. CASE Replay \/ GoLive \/ Send \/ Receive \/ Unsubscribe
  BY <1>12 DEF Replay, GoLive, Send, Receive, Unsubscribe, SubStep
<1>13. ASSUME NEW r \in zombies, Reconcile(r)
       PROVE  \E e : AppendRow(e) /\ (e.key # None => e.valid_to = None)
  <2>1. PICK i \in Unfinished(r) :
           Transaction(NewEntry(r, None, "lifecycle", None, events[i].session, events[i].namespace))
    BY <1>13 DEF Reconcile
  <2>2. NewEntry(r, None, "lifecycle", None, events[i].session, events[i].namespace).key = None
    BY DEF NewEntry
  <2> QED
    BY <2>1, <2>2 DEF Transaction
<1> QED
  BY <1>1, <1>2, <1>3, <1>4, <1>5, <1>6, <1>7, <1>8, <1>9, <1>10, <1>11, <1>12, <1>13 DEF Next

-----------------------------------------------------------------------------
(* Keyed rows and the calls that look for them.                            *)

\* Only rows without a key expire.
KeyedRowsStay ==
    /\ \A w \in writers : w.entry.key # None => w.entry.valid_to = None
    /\ \A i \in DOMAIN events : events[i].key # None => events[i].valid_to = None

CallsTyped ==
    calls \in [Calls -> [pc : {"idle", "lookup", "invoke"}, key : Keys \cup {None}, known : BOOLEAN]]

\* A call that could be answered when it began can still be.
KnownStaysKnown ==
    \A c \in Calls : calls[c].known /\ calls[c].pc = "lookup" =>
        /\ store = "redb" /\ calls[c].key # None
        /\ \E i \in DOMAIN events : events[i].key = calls[c].key

AuditInv == IndexInv /\ KeyedRowsStay /\ CallsTyped /\ KnownStaysKnown /\ SettledOnce

\* A step removes no keyed row.
LEMMA RowsStay ==
    ASSUME AuditInv, [Next]_vars
    PROVE  /\ IndexInv'
           /\ \A i \in DOMAIN events' : events'[i].key # None => events'[i].valid_to = None
           /\ \A i \in DOMAIN events : events[i].key # None =>
                 i \in DOMAIN events' /\ events'[i] = events[i]
<1>1. CASE UNCHANGED tables
  BY <1>1 DEF tables, AuditInv, IndexInv, KeyedRowsStay, Numbered, IndexesAgree
<1>2. CASE DeleteExpired
  <2>1. IndexInv'
    BY <1>2, DeleteKeeps DEF AuditInv
  <2>2. events' = [i \in DOMAIN events \ Swept |-> events[i]]
    BY <1>2 DEF DeleteExpired
  <2>3. \A i \in Swept : events[i].key = None
    BY DEF Swept, AuditInv, KeyedRowsStay
  <2> QED
    BY <2>1, <2>2, <2>3 DEF AuditInv, KeyedRowsStay
<1>3. ASSUME NEW e, AppendRow(e), e.key # None => e.valid_to = None
      PROVE  /\ IndexInv'
             /\ \A i \in DOMAIN events' : events'[i].key # None => events'[i].valid_to = None
             /\ \A i \in DOMAIN events : events[i].key # None =>
                   i \in DOMAIN events' /\ events'[i] = events[i]
  <2>1. IndexInv'
    BY <1>3, AppendKeeps DEF AuditInv
  <2>2. NextId \notin DOMAIN events
    BY NextIdIsFree DEF AuditInv, IndexInv
  <2>3. events' = [i \in DOMAIN events \cup {NextId} |-> IF i = NextId THEN e ELSE events[i]]
    BY <1>3 DEF AppendRow
  <2> HIDE DEF NextId
  <2> QED
    BY <1>3, <2>1, <2>2, <2>3 DEF AuditInv, KeyedRowsStay
<1>4. \/ UNCHANGED tables
      \/ DeleteExpired
      \/ \E e : AppendRow(e) /\ (e.key # None => e.valid_to = None)
  BY TableStep DEF AuditInv, KeyedRowsStay
<1> QED
  BY <1>1, <1>2, <1>3, <1>4

\* A lookup for a key that some row carries finds a row.
LEMMA LookupFinds ==
    ASSUME AuditInv, NEW k \in Keys, k # None, store = "redb",
           NEW j \in DOMAIN events, events[j].key = k
    PROVE  Cached(k) # None
<1> DEFINE ids == {i \in DOMAIN events : <<k, i>> \in by_idem}
<1>1. \A i \in ids : events[i].key = k
  BY DEF AuditInv, IndexInv, IndexesAgree
<1>2. j \in ids
  BY DEF AuditInv, IndexInv, IndexesAgree
<1>3. PICK n \in Nat : \A i \in DOMAIN events : i <= n
  BY DEF AuditInv, IndexInv, Numbered
<1>4. ids \subseteq Nat /\ ids # {} /\ \A i \in ids : i <= n
  BY <1>2, <1>3 DEF AuditInv, IndexInv, Numbered
<1>5. Max(ids) \in ids
  <2> HIDE DEF ids
  <2> QED
    BY <1>3, <1>4, MaxOfBounded
<1>6. Max(ids) \in Nat /\ Max(ids) # None
  BY <1>4, <1>5, JournalAssumption
<1>7. ~IsExpired(Max(ids))
  BY <1>1, <1>5 DEF IsExpired, AuditInv, KeyedRowsStay
<1>8. GetByIdempotencyKey(k) = Max(ids)
  <2>1. GetByIdempotencyKey(k) = IF ids = {} THEN None ELSE IF IsExpired(Max(ids)) THEN None ELSE Max(ids)
    BY DEF GetByIdempotencyKey
  <2> QED
    BY <1>2, <1>7, <2>1
<1> QED
  BY <1>6, <1>8 DEF Cached

\* A writer comes from an entry without an expiry, or one that was there.
LEMMA WritersStay ==
    ASSUME KeyedRowsStay, [Next]_vars
    PROVE  \A w \in writers' : w.entry.key # None => w.entry.valid_to = None
<1> DEFINE Kept == \A w \in writers' : w.entry.key # None => w.entry.valid_to = None
<1>1. ASSUME writers' \subseteq writers PROVE Kept
  BY <1>1 DEF KeyedRowsStay
<1>2. ASSUME NEW e, StartWriter(e), e.valid_to = None PROVE Kept
  BY <1>2 DEF StartWriter, KeyedRowsStay
<1>3. ASSUME NEW c \in Calls, Invoke(c) PROVE Kept
  <2>1. PICK s \in Sessions, ns \in Spaces :
           StartWriter(NewEntry(None, calls[c].key, "interaction", None, s, ns))
    BY <1>3 DEF Invoke
  <2> QED
    BY <1>2, <2>1 DEF NewEntry
<1>4. ASSUME NEW n \in Nodes, NodeStarted(n) \/ NodeCompleted(n) \/ NodeFailed(n) \/ ToolRetry(n)
      PROVE  Kept
  <2>1. PICK r \in RunIds, s \in Sessions, ns \in Spaces :
           StartWriter(NewEntry(r, None, "interaction", None, s, ns))
    BY <1>4 DEF NodeStarted, NodeCompleted, NodeFailed, ToolRetry, NodeEvent
  <2> QED
    BY <1>2, <2>1 DEF NewEntry
<1>5. ASSUME NEW w \in writers, Commit(w) PROVE Kept
  <2>1. CASE writers' = writers \ {w}
    BY <1>1, <2>1
  <2>2. CASE writers' = (writers \ {w}) \cup {[w EXCEPT !.seq = NextId]}
    <3>1. [w EXCEPT !.seq = NextId].entry = w.entry
      OBVIOUS
    <3> DEFINE v == [w EXCEPT !.seq = NextId]
    <3> HIDE DEF v
    <3> QED
      BY <2>2, <3>1 DEF KeyedRowsStay, v
  <2> QED
    BY <1>5, <2>1, <2>2 DEF Commit
<1>6. ASSUME UNCHANGED writers PROVE Kept
  BY <1>1, <1>6
<1>7. ASSUME NEW w \in writers, Announce(w) PROVE writers' \subseteq writers
  BY <1>7 DEF Announce
<1>8. ASSUME CrashRestart PROVE Kept
  BY <1>8 DEF CrashRestart
<1>11. ASSUME NEW e, CallerDropped(e) PROVE writers' \subseteq writers
  BY <1>11 DEF CallerDropped
<1>9. ASSUME \/ UNCHANGED vars
             \/ \E c \in Calls : (\E k \in Keys \cup {None} : BeginDispatch(c, k)) \/ Lookup(c)
             \/ Lifecycle \/ Expiring
             \/ \E e \in mirroring : MirrorWrite(e)
             \/ \E e \in resuming : PassOn(e)
             \/ \E r \in zombies : Reconcile(r)
             \/ Sweep \/ Tick \/ Lag
             \/ \E f \in Filters : Subscribe(f)
             \/ Replay \/ GoLive \/ Send \/ Receive \/ Unsubscribe
      PROVE  UNCHANGED writers
  BY <1>9, Zenon DEF vars, auditVars, BeginDispatch, Lookup, Lifecycle, Expiring, AppendOnly, MirrorWrite,
     PassOn, Reconcile,
     Sweep, Tick, Lag, Subscribe, Replay, GoLive, Send, Receive, Unsubscribe, SubStep
<1> HIDE DEF Kept
<1>10. Kept
  BY <1>1, <1>3, <1>4, <1>5, <1>6, <1>7, <1>8, <1>9, <1>11 DEF Next
<1> QED
  BY <1>10 DEF Kept

LEMMA CallStep ==
    ASSUME AuditInv, [Next]_vars
    PROVE  CallsTyped' /\ KnownStaysKnown' /\ SettledOnce'
<1> USE RowsStay DEF AuditInv
<1>1. CASE UNCHANGED <<calls, store>>
  BY <1>1 DEF CallsTyped, KnownStaysKnown, SettledOnce
<1>2. ASSUME NEW c \in Calls, NEW k \in Keys \cup {None}, BeginDispatch(c, k)
      PROVE  CallsTyped' /\ KnownStaysKnown' /\ SettledOnce'
  BY <1>2 DEF BeginDispatch, CallsTyped, KnownStaysKnown, SettledOnce, tables
<1>3. ASSUME NEW c \in Calls, Invoke(c)
      PROVE  CallsTyped' /\ KnownStaysKnown' /\ SettledOnce'
  BY <1>3 DEF Invoke, IdleCall, CallsTyped, KnownStaysKnown, SettledOnce, tables
<1>4. ASSUME NEW c \in Calls, Lookup(c)
      PROVE  CallsTyped' /\ KnownStaysKnown' /\ SettledOnce'
  <2>0. UNCHANGED <<tables, store>> /\ calls[c].pc = "lookup"
    BY <1>4 DEF Lookup
  <2>1. calls[c] \in [pc : {"idle", "lookup", "invoke"}, key : Keys \cup {None}, known : BOOLEAN]
    BY DEF CallsTyped
  <2>2. ASSUME Cached(calls[c].key) = None PROVE ~calls[c].known
    <3> SUFFICES ASSUME calls[c].known PROVE FALSE
      BY <2>1
    <3>1. store = "redb" /\ calls[c].key # None /\ \E i \in DOMAIN events : events[i].key = calls[c].key
      BY <2>0 DEF KnownStaysKnown
    <3>2. PICK i \in DOMAIN events : events[i].key = calls[c].key
      BY <3>1
    <3>3. calls[c].key \in Keys
      BY <2>1, <3>1
    <3> QED
      BY <2>2, <3>1, <3>2, <3>3, LookupFinds
  <2>3. CASE calls' = [calls EXCEPT ![c].pc = "invoke"] /\ ~calls[c].known
    BY <2>0, <2>1, <2>3 DEF CallsTyped, KnownStaysKnown, SettledOnce, tables
  <2>4. CASE calls' = [calls EXCEPT ![c] = IdleCall]
    BY <2>0, <2>4 DEF IdleCall, CallsTyped, KnownStaysKnown, SettledOnce, tables
  <2>5. CASE calls' = [calls EXCEPT ![c].pc = "invoke", ![c].known = FALSE]
    BY <2>0, <2>1, <2>5 DEF CallsTyped, KnownStaysKnown, SettledOnce, tables
  <2> QED
    BY <1>4, <2>2, <2>3, <2>4, <2>5 DEF Lookup
<1>5. CASE CrashRestart
  BY <1>5 DEF CrashRestart, IdleCall, CallsTyped, KnownStaysKnown, SettledOnce
<1>6. ASSUME \/ UNCHANGED vars
             \/ \E n \in Nodes : NodeStarted(n) \/ NodeCompleted(n) \/ NodeFailed(n) \/ ToolRetry(n)
             \/ \E w \in writers : Commit(w) \/ Announce(w)
             \/ \E e \in resuming \cup {w.entry : w \in writers} : CallerDropped(e)
             \/ Lifecycle \/ Expiring
             \/ \E e \in mirroring : MirrorWrite(e)
             \/ \E e \in resuming : PassOn(e)
             \/ \E r \in zombies : Reconcile(r)
             \/ Sweep \/ Tick \/ Lag
             \/ \E f \in Filters : Subscribe(f)
             \/ Replay \/ GoLive \/ Send \/ Receive \/ Unsubscribe
      PROVE  UNCHANGED <<calls, store>>
  BY <1>6, Zenon DEF vars, auditVars, NodeStarted, NodeCompleted, NodeFailed, ToolRetry, NodeEvent, Commit,
     Announce, CallerDropped, Lifecycle, Expiring, AppendOnly, MirrorWrite, PassOn, Reconcile, Sweep, Tick, Lag, Subscribe, Replay,
     GoLive, Send, Receive, Unsubscribe, SubStep
<1> QED
  BY <1>1, <1>2, <1>3, <1>4, <1>5, <1>6 DEF Next

LEMMA InitAudit == Init => AuditInv
<1> SUFFICES ASSUME Init PROVE AuditInv
  OBVIOUS
<1>1. DOMAIN events = {}
  BY DEF Init, EmptyTables
<1>2. IndexInv
  BY <1>1 DEF Init, EmptyTables, IndexInv, Numbered, IndexesAgree
<1> QED
  BY <1>1, <1>2 DEF Init, IdleCall, AuditInv, KeyedRowsStay, CallsTyped, KnownStaysKnown, SettledOnce

LEMMA AuditInvariant == Spec => []AuditInv
<1>1. AuditInv /\ [Next]_vars => AuditInv'
  <2> SUFFICES ASSUME AuditInv, [Next]_vars PROVE AuditInv'
    OBVIOUS
  <2> QED
    BY RowsStay, WritersStay, CallStep DEF AuditInv, KeyedRowsStay
<1> QED
  BY <1>1, InitAudit, PTL DEF Spec

\* In every reachable state each index of the journal holds exactly the rows of the events
\* table, however appends, sweeps, failures and restarts interleave, although sequence numbers
\* of deleted rows are used again.
THEOREM IndexesAlwaysAgree == Spec => []IndexesAgree
<1>1. AuditInv => IndexesAgree
  BY DEF AuditInv, IndexInv
<1> QED
  BY <1>1, AuditInvariant, PTL

\* Under the plain redb store a call that begins when its key is in the journal never runs its
\* tool unless its lookup fails: the row is neither swept nor hidden by a later one.
THEOREM SettledOnceAlways == Spec => []SettledOnce
<1>1. AuditInv => SettledOnce
  BY DEF AuditInv
<1> QED
  BY <1>1, AuditInvariant, PTL

\* However the rows came and went, what is read over an index is what a scan
\* finds, in the promised order and for every limit; counting agrees with
\* listing, and a key is answered with a live row that carries it.
THEOREM ReadPathsAlwaysAgree == Spec => []ReadPathsAgree
<1>1. AuditInv => ReadPathsAgree
  BY IndexReads DEF AuditInv
<1> QED
  BY <1>1, AuditInvariant, PTL

-----------------------------------------------------------------------------
(* The mirror.                                                             *)

\* Every entry has a number of its own, and an append under way that has not
\* committed is of an entry that is not in the journal's history yet; one that has
\* is of this process.
EntriesApart ==
    /\ created \in Nat /\ boot \in Nat
    /\ DOMAIN committed \subseteq 1 .. created
    /\ \A u \in DOMAIN committed : committed[u] \in Nat /\ committed[u] <= boot
    /\ \A w \in writers : /\ w = [entry |-> w.entry, seq |-> w.seq]
                          /\ w.entry.uid \in 1 .. created
                          /\ w.seq = None => w.entry.uid \notin DOMAIN committed
                          /\ w.seq # None => /\ w.entry.uid \in DOMAIN committed
                                             /\ committed[w.entry.uid] = boot
    /\ \A v, w \in writers : v.entry.uid = w.entry.uid => v = w

\* The rows that the mirror never sees.
Unseen == orphaned \cup bypassed

\* A row of the mirror, a write under way and an entry that waits to be passed on
\* are of different entries, all of them committed and none of them orphaned or
\* bypassed; the counter is past every number of this process.
MirrorApart ==
    /\ counter \in Nat
    /\ \A e \in mirroring \cup resuming : e.uid \in DOMAIN committed /\ e.uid \notin Unseen
    /\ \A d, e \in mirroring \cup resuming : d.uid = e.uid => d = e
    /\ mirroring \cap resuming = {}
    /\ \A m \in mirror : /\ m.uid \in DOMAIN committed /\ m.uid \notin Unseen
                         /\ m.boot \in Nat /\ m.boot <= boot /\ m.seq \in Nat
                         /\ m.boot = boot => m.seq < counter
                         /\ \A e \in mirroring \cup resuming : e.uid # m.uid
    /\ \A m, n \in mirror : m.uid = n.uid \/ (m.boot = n.boot /\ m.seq = n.seq) => m = n
    /\ \A e \in mirroring \cup resuming : committed[e.uid] = boot
    /\ Unseen \subseteq DOMAIN committed
    /\ \A m \in mirror : committed[m.uid] = m.boot
    /\ store # "fanout" => mirroring = {} /\ resuming = {} /\ \A m \in mirror : m.boot # boot

CommittedHere == {u \in DOMAIN committed : committed[u] = boot} \ Unseen
MirroredHere == {m \in mirror : m.boot = boot}

\* Nothing that was committed under the fan-out is forgotten.
MirrorCounts ==
    /\ dropped \in Nat /\ IsFiniteSet(mirror) /\ IsFiniteSet(mirroring) /\ IsFiniteSet(resuming)
    /\ store = "fanout" =>
          Cardinality(CommittedHere) =
             Cardinality(MirroredHere) + Cardinality(mirroring) + Cardinality(resuming) + dropped

MirrorInv == EntriesApart /\ MirrorApart /\ MirrorCounts

LEMMA HereFinite ==
    ASSUME MirrorInv
    PROVE  /\ IsFiniteSet(CommittedHere) /\ Cardinality(CommittedHere) \in Nat
           /\ IsFiniteSet(MirroredHere) /\ Cardinality(MirroredHere) \in Nat
           /\ IsFiniteSet(mirroring) /\ Cardinality(mirroring) \in Nat
           /\ IsFiniteSet(resuming) /\ Cardinality(resuming) \in Nat
<1>1. /\ created \in Nat /\ DOMAIN committed \subseteq 1 .. created
      /\ IsFiniteSet(mirror) /\ IsFiniteSet(mirroring) /\ IsFiniteSet(resuming)
  BY DEF MirrorInv, EntriesApart, MirrorCounts
<1>2. IsFiniteSet(1 .. created)
  BY <1>1, FS_Interval
<1>3. CommittedHere \in SUBSET (1 .. created) /\ MirroredHere \in SUBSET mirror
  BY <1>1 DEF CommittedHere, MirroredHere
<1>4. IsFiniteSet(CommittedHere) /\ IsFiniteSet(MirroredHere)
  BY <1>1, <1>2, <1>3, FS_Subset, Zenon
<1> QED
  BY <1>1, <1>4, FS_CardinalityType

\* A transaction commits a row of this process.
LEMMA TransactionKeeps ==
    ASSUME MirrorInv, NEW e, Transaction(e), e.uid \notin DOMAIN committed
    PROVE  /\ DOMAIN committed' = DOMAIN committed \cup {e.uid} /\ committed'[e.uid] = boot
           /\ \A u \in DOMAIN committed : committed'[u] = committed[u]
           /\ \A u \in DOMAIN committed' : committed'[u] \in Nat /\ committed'[u] <= boot
<1> DEFINE id == e.uid
<1>1. committed' = [u \in DOMAIN committed \cup {id} |-> IF u = id THEN boot ELSE committed[u]]
  BY DEF Transaction
<1> HIDE DEF id
<1>2. /\ DOMAIN committed' = DOMAIN committed \cup {id}
      /\ committed'[id] = boot /\ \A u \in DOMAIN committed : committed'[u] = committed[u]
  BY <1>1 DEF id
<1>3. boot \in Nat /\ \A u \in DOMAIN committed : committed[u] \in Nat /\ committed[u] <= boot
  BY DEF MirrorInv, EntriesApart
<1> QED
  BY <1>2, <1>3 DEF id

\* A commit: the row counts as committed here, and under the fan-out it waits to
\* be passed on.
LEMMA StoreKeeps ==
    ASSUME MirrorInv, NEW e, Store(e, TRUE), e.uid \notin DOMAIN committed,
           UNCHANGED <<store, mirror, counter, mirroring, dropped, orphaned, bypassed, boot>>
    PROVE  /\ MirrorApart' /\ MirrorCounts'
           /\ DOMAIN committed' = DOMAIN committed \cup {e.uid} /\ committed'[e.uid] = boot
           /\ \A u \in DOMAIN committed : committed'[u] = committed[u]
           /\ \A u \in DOMAIN committed' : committed'[u] \in Nat /\ committed'[u] <= boot
<1> DEFINE id == e.uid
<1>1. /\ resuming' = IF store = "fanout" THEN resuming \cup {e} ELSE resuming
      /\ Transaction(e)
  BY DEF Store
<1>2. /\ DOMAIN committed' = DOMAIN committed \cup {id} /\ committed'[id] = boot
      /\ \A u \in DOMAIN committed : committed'[u] = committed[u]
      /\ \A u \in DOMAIN committed' : committed'[u] \in Nat /\ committed'[u] <= boot
      /\ id \notin DOMAIN committed /\ Unseen' = Unseen /\ id \notin Unseen
  BY <1>1, TransactionKeeps DEF Unseen, MirrorInv, MirrorApart
<1> HIDE DEF id
<1>4. MirrorApart'
  <2>1. \A d \in mirroring \cup resuming : d.uid # id
    BY <1>2 DEF MirrorInv, MirrorApart
  <2>2. \A m \in mirror : m.uid # id
    BY <1>2 DEF MirrorInv, MirrorApart
  <2>3. resuming' \subseteq resuming \cup {e} /\ e.uid = id
    BY <1>1 DEF id
  <2>4. /\ \A d \in mirroring' \cup resuming' : d.uid \in DOMAIN committed' /\ d.uid \notin Unseen' /\ committed'[d.uid] = boot
        /\ \A c, d \in mirroring' \cup resuming' : c.uid = d.uid => c = d
        /\ mirroring' \cap resuming' = {}
    BY <1>2, <2>1, <2>3 DEF MirrorInv, MirrorApart
  <2>5. \A m \in mirror : \A d \in mirroring' \cup resuming' : d.uid # m.uid
    BY <2>2, <2>3 DEF MirrorInv, MirrorApart
  <2>6. /\ Unseen' \subseteq DOMAIN committed'
        /\ \A m \in mirror : committed'[m.uid] = m.boot
        /\ store # "fanout" => mirroring = {} /\ resuming' = {} /\ \A m \in mirror : m.boot # boot
    BY <1>1, <1>2 DEF MirrorInv, MirrorApart
  <2> QED
    BY <1>2, <2>4, <2>5, <2>6 DEF MirrorInv, MirrorApart
<1>5. MirrorCounts'
  <2>1. CommittedHere' = CommittedHere \cup {id} /\ id \notin CommittedHere
    BY <1>2 DEF CommittedHere
  <2>2. Cardinality(CommittedHere') = Cardinality(CommittedHere) + 1
    BY <2>1, HereFinite, FS_AddElement
  <2>3. MirroredHere' = MirroredHere
    BY DEF MirroredHere
  <2>4. CASE store = "fanout"
    <3>1. resuming' = resuming \cup {e} /\ e \notin resuming
      BY <1>1, <1>2, <2>4 DEF MirrorInv, MirrorApart, id
    <3>2. IsFiniteSet(resuming') /\ Cardinality(resuming') = Cardinality(resuming) + 1
      BY <3>1, HereFinite, FS_AddElement
    <3> QED
      BY <2>2, <2>3, <2>4, <3>2, HereFinite DEF MirrorInv, MirrorCounts
  <2>5. CASE store # "fanout"
    BY <1>1, <2>5 DEF MirrorInv, MirrorCounts
  <2> QED
    BY <2>4, <2>5
<1> QED
  BY <1>2, <1>4, <1>5 DEF id

\* append resumes: one less that waits, one more write under way.
LEMMA PassOnKeeps ==
    ASSUME MirrorInv, NEW e \in resuming, PassOn(e)
    PROVE  MirrorInv'
<1>0. /\ resuming' = resuming \ {e} /\ mirroring' = mirroring \cup {e}
      /\ UNCHANGED <<store, created, writers, boot, committed, mirror, counter, dropped, orphaned, bypassed>>
      /\ Unseen' = Unseen
  BY DEF PassOn, Unseen
<1>1. EntriesApart'
  BY <1>0 DEF MirrorInv, EntriesApart
<1>2. mirroring' \cup resuming' = mirroring \cup resuming /\ mirroring' \cap resuming' = {} /\ e \notin mirroring
  BY <1>0 DEF MirrorInv, MirrorApart
<1>3. MirrorApart'
  BY <1>0, <1>2 DEF MirrorInv, MirrorApart
<1>4. CommittedHere' = CommittedHere /\ MirroredHere' = MirroredHere
  BY <1>0 DEF CommittedHere, MirroredHere
<1>5. /\ IsFiniteSet(resuming') /\ Cardinality(resuming') = Cardinality(resuming) - 1
      /\ IsFiniteSet(mirroring') /\ Cardinality(mirroring') = Cardinality(mirroring) + 1
  BY <1>0, <1>2, HereFinite, FS_RemoveElement, FS_AddElement
<1>6. MirrorCounts'
  BY <1>0, <1>4, <1>5, HereFinite DEF MirrorInv, MirrorCounts
<1> QED
  BY <1>1, <1>3, <1>6 DEF MirrorInv

\* A row leaves the count of those that are accounted for, since it is not seen.
LEMMA UnseenLeaves ==
    ASSUME MirrorInv, NEW u \in DOMAIN committed, committed[u] = boot, u \notin Unseen,
           Unseen' = Unseen \cup {u}, UNCHANGED <<boot, committed>>
    PROVE  Cardinality(CommittedHere') = Cardinality(CommittedHere) - 1
<1>1. u \in CommittedHere /\ CommittedHere' = CommittedHere \ {u}
  BY DEF CommittedHere
<1> QED
  BY <1>1, HereFinite, FS_RemoveElement

\* A caller is dropped: its row is one that the mirror never sees.
LEMMA DropKeeps ==
    ASSUME MirrorInv, NEW e \in resuming \cup {w.entry : w \in writers}, CallerDropped(e)
    PROVE  MirrorInv'
<1>0. /\ resuming' = resuming \ {e} /\ writers' \subseteq writers /\ Unseen' = Unseen \cup {e.uid}
      /\ UNCHANGED <<store, created, boot, committed, mirror, mirroring, counter, dropped>>
  BY DEF CallerDropped, Unseen
<1>1. EntriesApart'
  BY <1>0 DEF MirrorInv, EntriesApart
<1>2. CASE e \in resuming
  <2>1. e.uid \in DOMAIN committed /\ e.uid \notin Unseen /\ committed[e.uid] = boot
    BY <1>2 DEF MirrorInv, MirrorApart
  <2>2. \A d \in mirroring \cup resuming' : d.uid # e.uid
    BY <1>0, <1>2 DEF MirrorInv, MirrorApart
  <2>3. \A m \in mirror : m.uid # e.uid
    BY <1>2 DEF MirrorInv, MirrorApart
  <2>4. MirrorApart'
    BY <1>0, <2>1, <2>2, <2>3 DEF MirrorInv, MirrorApart
  <2>5. Cardinality(CommittedHere') = Cardinality(CommittedHere) - 1
    BY <1>0, <2>1, UnseenLeaves
  <2>6. IsFiniteSet(resuming') /\ Cardinality(resuming') = Cardinality(resuming) - 1
    BY <1>0, <1>2, HereFinite, FS_RemoveElement
  <2>7. MirroredHere' = MirroredHere
    BY <1>0 DEF MirroredHere
  <2>8. MirrorCounts'
    BY <1>0, <2>5, <2>6, <2>7, HereFinite DEF MirrorInv, MirrorCounts
  <2> QED
    BY <1>1, <2>4, <2>8 DEF MirrorInv
<1>3. CASE e \notin resuming
  <2>1. PICK w \in writers : w.entry = e /\ w.seq # None
    BY <1>3 DEF CallerDropped
  <2>2. store # "fanout" /\ resuming' = resuming
    BY <1>0, <1>3 DEF CallerDropped
  <2>3. /\ e.uid \in DOMAIN committed /\ committed[e.uid] = boot
        /\ mirroring = {} /\ resuming = {}
    BY <2>1, <2>2 DEF MirrorInv, EntriesApart, MirrorApart
  <2>4. \A m \in mirror : m.uid # e.uid
    BY <2>2, <2>3 DEF MirrorInv, MirrorApart
  <2>5. MirrorApart'
    BY <1>0, <2>2, <2>3, <2>4 DEF MirrorInv, MirrorApart
  <2>6. MirrorCounts'
    BY <1>0, <2>2 DEF MirrorInv, MirrorCounts
  <2> QED
    BY <1>1, <2>5, <2>6 DEF MirrorInv
<1> QED
  BY <1>2, <1>3

\* The boot reconciles a run: its row is one that the mirror never sees.
LEMMA ReconcileKeeps ==
    ASSUME MirrorInv, NEW r \in zombies, Reconcile(r)
    PROVE  MirrorInv'
<1>1. PICK i \in Unfinished(r) :
         LET e == NewEntry(r, None, "lifecycle", None, events[i].session, events[i].namespace)
         IN  Transaction(e) /\ bypassed' = bypassed \cup {e.uid}
  BY DEF Reconcile
<1> DEFINE e == NewEntry(r, None, "lifecycle", None, events[i].session, events[i].namespace)
           id == e.uid
<1>2. Transaction(e) /\ bypassed' = bypassed \cup {id} /\ id = created + 1 /\ created' = created + 1
  BY <1>1 DEF NewEntry, Reconcile
<1>3. UNCHANGED <<store, writers, resuming, mirror, counter, mirroring, dropped, orphaned, boot>>
  BY DEF Reconcile
<1> HIDE DEF e
<1>4. id \notin DOMAIN committed /\ created \in Nat
  BY <1>2 DEF MirrorInv, EntriesApart
<1>5. /\ DOMAIN committed' = DOMAIN committed \cup {id} /\ committed'[id] = boot
      /\ \A u \in DOMAIN committed : committed'[u] = committed[u]
      /\ \A u \in DOMAIN committed' : committed'[u] \in Nat /\ committed'[u] <= boot
  BY <1>2, <1>4, TransactionKeeps
<1>6. Unseen' = Unseen \cup {id}
  BY <1>2, <1>3 DEF Unseen
<1> HIDE DEF id
<1>7. EntriesApart'
  BY <1>2, <1>3, <1>4, <1>5 DEF MirrorInv, EntriesApart
<1>8. MirrorApart'
  BY <1>3, <1>4, <1>5, <1>6 DEF MirrorInv, MirrorApart
<1>9. CommittedHere' = CommittedHere /\ MirroredHere' = MirroredHere
  BY <1>3, <1>4, <1>5, <1>6 DEF CommittedHere, MirroredHere
<1>10. MirrorCounts'
  BY <1>3, <1>9 DEF MirrorInv, MirrorCounts
<1> QED
  BY <1>7, <1>8, <1>10 DEF MirrorInv

\* A write of the mirror ends: one less under way, and one more row, one more
\* dropped, or one that is not seen.
LEMMA WriteKeeps ==
    ASSUME MirrorInv, NEW e \in mirroring, MirrorWrite(e)
    PROVE  MirrorInv'
<1>0. /\ mirroring' = mirroring \ {e} /\ counter' = counter + 1
      /\ UNCHANGED <<store, created, writers, resuming, orphaned, boot, committed>>
      /\ \/ /\ mirror' = mirror \cup {[boot |-> boot, seq |-> counter, uid |-> e.uid]}
            /\ UNCHANGED <<dropped, bypassed>>
         \/ dropped' = dropped + 1 /\ UNCHANGED <<mirror, bypassed>>
         \/ bypassed' = bypassed \cup {e.uid} /\ UNCHANGED <<mirror, dropped>>
  BY DEF MirrorWrite
<1>1. EntriesApart'
  BY <1>0 DEF MirrorInv, EntriesApart
<1>2. counter \in Nat /\ boot \in Nat /\ dropped \in Nat
      /\ e.uid \in DOMAIN committed /\ e.uid \notin Unseen /\ committed[e.uid] = boot /\ store = "fanout"
      /\ \A m \in mirror : m.uid # e.uid /\ m.boot \in Nat /\ m.seq \in Nat /\ (m.boot = boot => m.seq < counter)
  BY DEF MirrorInv, MirrorApart, EntriesApart, MirrorCounts
<1>3. IsFiniteSet(mirroring') /\ Cardinality(mirroring') = Cardinality(mirroring) - 1
  BY <1>0, HereFinite, FS_RemoveElement
<1>4. \A d \in mirroring' \cup resuming' : d \in mirroring \cup resuming /\ d.uid # e.uid
  BY <1>0 DEF MirrorInv, MirrorApart
<1>5. CASE mirror' = mirror \cup {[boot |-> boot, seq |-> counter, uid |-> e.uid]} /\ UNCHANGED <<dropped, bypassed>>
  <2> DEFINE row == [boot |-> boot, seq |-> counter, uid |-> e.uid]
  <2>1. row.boot = boot /\ row.seq = counter /\ row.uid = e.uid /\ mirror' = mirror \cup {row}
    BY <1>5
  <2> HIDE DEF row
  <2>2. row \notin mirror
    BY <1>2, <2>1
  <2>3. MirroredHere' = MirroredHere \cup {row} /\ row \notin MirroredHere
    BY <1>0, <2>1, <2>2 DEF MirroredHere
  <2>4. Cardinality(MirroredHere') = Cardinality(MirroredHere) + 1
    BY <2>3, HereFinite, FS_AddElement
  <2>5. IsFiniteSet(mirror')
    BY <2>1, FS_AddElement DEF MirrorInv, MirrorCounts
  <2>u. Unseen' = Unseen
    BY <1>0, <1>5 DEF Unseen
  <2>c. CommittedHere' = CommittedHere
    BY <1>0, <2>u DEF CommittedHere
  <2>6. MirrorCounts'
    BY <1>0, <1>2, <1>3, <1>5, <2>4, <2>5, <2>c, HereFinite DEF MirrorInv, MirrorCounts
  <2>7. MirrorApart'
    <3>2. \A m, n \in mirror' : m.uid = n.uid \/ (m.boot = n.boot /\ m.seq = n.seq) => m = n
      BY <1>2, <2>1 DEF MirrorInv, MirrorApart
    <3>3. \A m \in mirror' : /\ m.uid \in DOMAIN committed /\ m.uid \notin Unseen
                             /\ m.boot \in Nat /\ m.boot <= boot /\ m.seq \in Nat
                             /\ m.boot = boot => m.seq < counter'
                             /\ committed[m.uid] = m.boot
                             /\ \A d \in mirroring' \cup resuming' : d.uid # m.uid
      BY <1>0, <1>2, <1>4, <2>1 DEF MirrorInv, MirrorApart
    <3> QED
      BY <1>0, <1>2, <1>4, <2>u, <3>2, <3>3 DEF MirrorInv, MirrorApart
  <2> QED
    BY <1>1, <2>6, <2>7 DEF MirrorInv
<1>6. CASE dropped' = dropped + 1 /\ UNCHANGED <<mirror, bypassed>>
  <2>1. MirroredHere' = MirroredHere /\ Unseen' = Unseen
    BY <1>0, <1>6 DEF MirroredHere, Unseen
  <2>2. CommittedHere' = CommittedHere
    BY <1>0, <2>1 DEF CommittedHere
  <2>3. MirrorCounts'
    BY <1>0, <1>2, <1>3, <1>6, <2>1, <2>2, HereFinite DEF MirrorInv, MirrorCounts
  <2>4. MirrorApart'
    BY <1>0, <1>2, <1>4, <1>6, <2>1 DEF MirrorInv, MirrorApart
  <2> QED
    BY <1>1, <2>3, <2>4 DEF MirrorInv
<1>7. CASE bypassed' = bypassed \cup {e.uid} /\ UNCHANGED <<mirror, dropped>>
  <2>1. MirroredHere' = MirroredHere /\ Unseen' = Unseen \cup {e.uid}
    BY <1>0, <1>7 DEF MirroredHere, Unseen
  <2>2. Cardinality(CommittedHere') = Cardinality(CommittedHere) - 1
    BY <1>0, <1>2, <2>1, UnseenLeaves
  <2>3. MirrorCounts'
    BY <1>0, <1>2, <1>3, <1>7, <2>1, <2>2, HereFinite DEF MirrorInv, MirrorCounts
  <2>4. MirrorApart'
    BY <1>0, <1>2, <1>4, <1>7, <2>1 DEF MirrorInv, MirrorApart
  <2> QED
    BY <1>1, <2>3, <2>4 DEF MirrorInv
<1> QED
  BY <1>0, <1>5, <1>6, <1>7

\* A restart: nothing is committed or mirrored in the new process.
LEMMA RestartKeeps ==
    ASSUME MirrorInv, CrashRestart
    PROVE  MirrorInv'
<1>0. /\ boot' = boot + 1 /\ writers' = {} /\ resuming' = {} /\ counter' = 0 /\ mirroring' = {} /\ dropped' = 0
      /\ UNCHANGED <<created, mirror, orphaned, bypassed, committed>> /\ Unseen' = Unseen
  BY DEF CrashRestart, Unseen
<1>1. boot \in Nat /\ (\A u \in DOMAIN committed : committed[u] \in Nat /\ committed[u] <= boot)
      /\ \A m \in mirror : m.boot \in Nat /\ m.boot <= boot
  BY DEF MirrorInv, EntriesApart, MirrorApart
<1>2. EntriesApart'
  BY <1>0, <1>1 DEF MirrorInv, EntriesApart
<1>3. MirrorApart'
  BY <1>0, <1>1 DEF MirrorInv, MirrorApart
<1>4. CommittedHere' = {} /\ MirroredHere' = {}
  BY <1>0, <1>1 DEF CommittedHere, MirroredHere
<1>5. MirrorCounts'
  BY <1>0, <1>4, FS_EmptySet DEF MirrorInv, MirrorCounts
<1> QED
  BY <1>2, <1>3, <1>5 DEF MirrorInv

\* A step that leaves the mirror alone and starts no append.
LEMMA MirrorUntouched ==
    ASSUME MirrorInv, UNCHANGED <<store, mirrorVars, boot, committed>>,
           created' \in {created, created + 1}, writers' \subseteq writers
    PROVE  MirrorInv'
<1>0. Unseen' = Unseen
  BY DEF mirrorVars, Unseen
<1>1. EntriesApart'
  BY DEF MirrorInv, EntriesApart, mirrorVars
<1>2. MirrorApart'
  BY <1>0 DEF MirrorInv, MirrorApart, mirrorVars
<1>3. CommittedHere' = CommittedHere /\ MirroredHere' = MirroredHere
  BY <1>0 DEF CommittedHere, MirroredHere, mirrorVars
<1>4. MirrorCounts'
  BY <1>3 DEF MirrorInv, MirrorCounts, mirrorVars
<1> QED
  BY <1>1, <1>2, <1>4 DEF MirrorInv

\* A new append is of a new entry.
LEMMA StartKeeps ==
    ASSUME MirrorInv, UNCHANGED <<store, mirrorVars, boot, committed>>,
           NEW e, e.uid = created + 1, StartWriter(e)
    PROVE  MirrorInv'
<1>1. CASE store = "none"
  BY <1>1, MirrorUntouched DEF StartWriter
<1>2. CASE store # "none"
  <2> DEFINE w == [entry |-> e, seq |-> None]
  <2>1. created' = created + 1 /\ writers' = writers \cup {w}
    BY <1>2 DEF StartWriter
  <2>2. w = [entry |-> w.entry, seq |-> w.seq] /\ w.entry.uid = created + 1 /\ w.seq = None
    OBVIOUS
  <2> HIDE DEF w
  <2>0. Unseen' = Unseen
    BY DEF mirrorVars, Unseen
  <2>3. EntriesApart'
    BY <2>1, <2>2 DEF MirrorInv, EntriesApart, mirrorVars
  <2>4. MirrorApart'
    BY <2>0 DEF MirrorInv, MirrorApart, mirrorVars
  <2>5. CommittedHere' = CommittedHere /\ MirroredHere' = MirroredHere
    BY <2>0 DEF CommittedHere, MirroredHere, mirrorVars
  <2>6. MirrorCounts'
    BY <2>5 DEF MirrorInv, MirrorCounts, mirrorVars
  <2> QED
    BY <2>3, <2>4, <2>6 DEF MirrorInv
<1> QED
  BY <1>1, <1>2

LEMMA MirrorStep ==
    ASSUME AuditInv, MirrorInv, [Next]_vars
    PROVE  MirrorInv'
<1>1. ASSUME NEW c \in Calls, Invoke(c) PROVE MirrorInv'
  <2>1. PICK s \in Sessions, ns \in Spaces :
           StartWriter(NewEntry(None, calls[c].key, "interaction", None, s, ns))
    BY <1>1 DEF Invoke
  <2>2. NewEntry(None, calls[c].key, "interaction", None, s, ns).uid = created + 1
    BY DEF NewEntry
  <2>3. UNCHANGED <<store, mirrorVars, boot, committed>>
    BY <1>1 DEF Invoke
  <2> QED
    BY <2>1, <2>2, <2>3, StartKeeps
<1>2. ASSUME NEW n \in Nodes, NodeStarted(n) \/ NodeCompleted(n) \/ NodeFailed(n) \/ ToolRetry(n)
      PROVE  MirrorInv'
  <2>1. PICK r \in RunIds, s \in Sessions, ns \in Spaces :
           StartWriter(NewEntry(r, None, "interaction", None, s, ns))
    BY <1>2 DEF NodeStarted, NodeCompleted, NodeFailed, ToolRetry, NodeEvent
  <2>2. NewEntry(r, None, "interaction", None, s, ns).uid = created + 1
    BY DEF NewEntry
  <2>3. UNCHANGED <<store, mirrorVars, boot, committed>>
    BY <1>2 DEF NodeStarted, NodeCompleted, NodeFailed, ToolRetry, NodeEvent
  <2> QED
    BY <2>1, <2>2, <2>3, StartKeeps
<1>3. ASSUME NEW w \in writers, Commit(w) PROVE MirrorInv'
  <2>0. /\ UNCHANGED <<store, created, mirror, counter, mirroring, dropped, orphaned, bypassed, boot>>
        /\ w.seq = None
    BY <1>3 DEF Commit
  <2>1. CASE Store(w.entry, TRUE) /\ writers' = (writers \ {w}) \cup {[w EXCEPT !.seq = NextId]}
    <3> DEFINE v == [w EXCEPT !.seq = NextId]
    <3>1. w = [entry |-> w.entry, seq |-> w.seq] /\ w.entry.uid \in 1 .. created
          /\ w.entry.uid \notin DOMAIN committed
      BY <2>0 DEF MirrorInv, EntriesApart
    <3>2. v = [entry |-> w.entry, seq |-> NextId]
      BY <3>1
    <3>3. NextId # None
      BY NextIdIsFree, JournalAssumption DEF AuditInv, IndexInv
    <3>4. v.entry = w.entry /\ v.seq # None /\ v = [entry |-> v.entry, seq |-> v.seq]
      <4> HIDE DEF NextId
      <4> QED
        BY <3>2, <3>3
    <3> HIDE DEF v
    <3>5. /\ MirrorApart' /\ MirrorCounts'
          /\ DOMAIN committed' = DOMAIN committed \cup {w.entry.uid} /\ committed'[w.entry.uid] = boot
          /\ \A u \in DOMAIN committed : committed'[u] = committed[u]
          /\ \A u \in DOMAIN committed' : committed'[u] \in Nat /\ committed'[u] <= boot
      BY <2>0, <2>1, <3>1, StoreKeeps
    <3>6. writers' = (writers \ {w}) \cup {v}
      BY <2>1 DEF v
    <3>7. \A x \in writers \ {w} : x.entry.uid # w.entry.uid
      BY DEF MirrorInv, EntriesApart
    <3>8. EntriesApart'
      BY <2>0, <3>1, <3>4, <3>5, <3>6, <3>7 DEF MirrorInv, EntriesApart
    <3> QED
      BY <3>5, <3>8 DEF MirrorInv
  <2>2. CASE Store(w.entry, FALSE) /\ writers' = writers \ {w}
    BY <2>0, <2>2, MirrorUntouched DEF Store, mirrorVars
  <2> QED
    BY <1>3, <2>1, <2>2 DEF Commit
<1>4. ASSUME Lifecycle \/ Expiring PROVE MirrorInv'
  <2>1. PICK run, type, valid_to, s, ns : AppendOnly(run, type, valid_to, s, ns)
    BY <1>4 DEF Lifecycle, Expiring
  <2> DEFINE e == NewEntry(run, None, type, valid_to, s, ns)
  <2>2. e.uid = created + 1
    BY DEF NewEntry
  <2>3. /\ Store(e, TRUE) \/ Store(e, FALSE)
        /\ UNCHANGED <<store, writers, mirror, counter, mirroring, dropped, orphaned, bypassed, boot>>
    BY <2>1 DEF AppendOnly
  <2>4. created' = created + 1
    BY <2>1 DEF AppendOnly
  <2> HIDE DEF e
  <2>5. CASE Store(e, TRUE)
    <3>1. e.uid \notin DOMAIN committed /\ e.uid \in 1 .. created'
      BY <2>2, <2>4 DEF MirrorInv, EntriesApart
    <3>2. /\ MirrorApart' /\ MirrorCounts'
          /\ DOMAIN committed' = DOMAIN committed \cup {e.uid} /\ committed'[e.uid] = boot
          /\ \A u \in DOMAIN committed : committed'[u] = committed[u]
          /\ \A u \in DOMAIN committed' : committed'[u] \in Nat /\ committed'[u] <= boot
      BY <2>3, <2>5, <3>1, StoreKeeps
    <3>3. EntriesApart'
      BY <2>2, <2>3, <2>4, <3>2 DEF MirrorInv, EntriesApart
    <3> QED
      BY <3>2, <3>3 DEF MirrorInv
  <2>6. CASE Store(e, FALSE)
    BY <2>3, <2>4, <2>6, MirrorUntouched DEF Store, mirrorVars
  <2> QED
    BY <2>3, <2>5, <2>6
<1>5. ASSUME NEW e \in mirroring, MirrorWrite(e) PROVE MirrorInv'
  BY <1>5, WriteKeeps
<1>6. CASE CrashRestart
  BY <1>6, RestartKeeps
<1>7. ASSUME NEW w \in writers, Announce(w) PROVE MirrorInv'
  BY <1>7, MirrorUntouched DEF Announce
<1>9. ASSUME NEW e \in resuming, PassOn(e) PROVE MirrorInv'
  BY <1>9, PassOnKeeps
<1>10. ASSUME NEW e \in resuming \cup {w.entry : w \in writers}, CallerDropped(e) PROVE MirrorInv'
  BY <1>10, DropKeeps
<1>11. ASSUME NEW r \in zombies, Reconcile(r) PROVE MirrorInv'
  BY <1>11, ReconcileKeeps
<1>8. ASSUME \/ UNCHANGED vars
             \/ \E c \in Calls : (\E k \in Keys \cup {None} : BeginDispatch(c, k)) \/ Lookup(c)
             \/ Sweep \/ Tick \/ Lag
             \/ \E f \in Filters : Subscribe(f)
             \/ Replay \/ GoLive \/ Send \/ Receive \/ Unsubscribe
      PROVE  MirrorInv'
  <2>1. UNCHANGED <<store, mirrorVars, boot, committed, created, writers>>
    BY <1>8, Zenon DEF vars, auditVars, BeginDispatch, Lookup, Sweep, Tick, Lag, Subscribe, Replay,
       GoLive, Send, Receive, Unsubscribe, SubStep
  <2> QED
    BY <2>1, MirrorUntouched
<1> QED
  BY <1>1, <1>2, <1>3, <1>4, <1>5, <1>6, <1>7, <1>8, <1>9, <1>10, <1>11 DEF Next

LEMMA InitMirror == Init => MirrorInv
<1> SUFFICES ASSUME Init PROVE MirrorInv
  OBVIOUS
<1>0. DOMAIN committed = {} /\ CommittedHere = {} /\ MirroredHere = {}
  BY DEF Init, CommittedHere, MirroredHere
<1>1. EntriesApart /\ MirrorApart
  BY <1>0 DEF Init, EntriesApart, MirrorApart, Unseen
<1>2. MirrorCounts
  BY <1>0, FS_EmptySet DEF Init, MirrorCounts
<1> QED
  BY <1>1, <1>2 DEF MirrorInv

LEMMA MirrorInvariant == Spec => []MirrorInv
BY AuditInvariant, InitMirror, MirrorStep, PTL DEF Spec

\* The SurrealDB mirror has no row that redb refused, no row twice and no number
\* twice within a process; every row committed under the fan-out is mirrored,
\* on its way, or counted as dropped, whatever fails or restarts, except for the
\* rows of the reconciliation at boot, those whose append was dropped before it
\* resumed, and those whose secondary panicked.
THEOREM MirrorIsFaithful == Spec => []MirrorFaithful
<1>1. ASSUME MirrorInv PROVE MirrorFaithful
  <2>1. {m.uid : m \in mirror} \cup {e.uid : e \in mirroring \cup resuming}
           \subseteq DOMAIN committed \ (orphaned \cup bypassed)
    BY <1>1 DEF MirrorInv, MirrorApart, Unseen
  <2>2. \A m, n \in mirror : m.uid = n.uid \/ (m.boot = n.boot /\ m.seq = n.seq) => m = n
    BY <1>1 DEF MirrorInv, MirrorApart
  <2> QED
    BY <1>1, <2>1, <2>2 DEF MirrorFaithful, MirrorInv, MirrorCounts, CommittedHere, MirroredHere, Unseen
<1> QED
  BY <1>1, MirrorInvariant, PTL

-----------------------------------------------------------------------------
(* The subscription.                                                       *)

Entry == [uid : Nat, run : RunIds \cup {None}, session : Sessions, namespace : Spaces,
          type : {"interaction", "lifecycle"}, valid_to : Nat \cup {None}, key : Keys \cup {None}]
Event == [seq : Nat, namespace : Spaces, type : {"interaction", "lifecycle"}]

SubTyped ==
    /\ now \in Nat
    /\ \A w \in writers : w.entry \in Entry /\ w.seq \in Nat \cup {None}
    /\ bus \in Seq(Event)
    /\ sub \in [pc : {"off", "replay", "sending", "live"}, filter : Filter,
                todo : Seq(Nat), got : SUBSET Nat]

\* Rows are committed entries.  Only rows that nobody announces expire, and such
\* a row was the newest entry of all when it was committed: a sweep that uncovers
\* an older row does not make that one the newest ever.
RowsTyped ==
    /\ \A w \in writers : w.entry.valid_to = None
    /\ \A i \in DOMAIN events :
          /\ events[i] \in Entry /\ events[i].uid \in DOMAIN committed
          /\ events[i].type = "interaction" => events[i].valid_to = None
          /\ events[i].valid_to # None =>
                \A j \in DOMAIN events : j < i => events[j].uid < events[i].uid

EventOf(i) == [seq |-> i, namespace |-> events[i].namespace, type |-> events[i].type]

\* The newest row, if it is wanted, was sent or is to be; or its event is on the
\* bus; or its writer has not announced it yet.
Pending(i) ==
    \/ events[i].uid \in sub.got
    \/ \E k \in DOMAIN sub.todo : sub.todo[k] = events[i].uid
    \/ \E k \in DOMAIN bus : bus[k] = EventOf(i)
    \/ \E w \in writers : w.seq = i /\ w.entry = events[i]

NothingBetween ==
    sub.pc \in {"sending", "live"} /\ ~missed /\ ReplayLimit > 0 =>
        \A i \in DOMAIN events : Wanted(i) => Pending(i)

SubInv == SubTyped /\ RowsTyped /\ NothingBetween

\* The steps that concern no row, no event and no subscription.
Elsewhere ==
    /\ UNCHANGED <<tables, committed, bus, missed, sub>>
    /\ now' \in Nat
    /\ \A w \in writers : w.seq # None => w \in writers'

\* A row is committed: one that its writer will announce, or the newest entry of all.
Appended(e) ==
    /\ AppendRow(e) /\ DOMAIN committed' = DOMAIN committed \cup {e.uid}
    /\ UNCHANGED <<now, bus, missed, sub>>
    /\ \/ e.valid_to = None /\ \E w \in writers' : w.seq = NextId /\ w.entry = e
       \/ e.type = "lifecycle" /\ \A u \in DOMAIN committed : u < e.uid

\* The subscription ends, or a new one begins.
Resubscribed ==
    /\ UNCHANGED <<tables, committed, now>>
    /\ bus' = <<>> /\ sub'.pc \in {"off", "replay"} /\ sub'.filter \in Filter
    /\ sub' = [pc |-> sub'.pc, filter |-> sub'.filter, todo |-> <<>>, got |-> {}]

\* A caller was dropped: its row is not announced.
Orphaned(e) ==
    /\ UNCHANGED <<tables, committed, now, bus, missed, sub>>
    /\ writers' = {w \in writers : w.entry # e}
    /\ orphaned' = orphaned \cup {e.uid}

\* A row is never taken for announced again.
LEMMA OrphansStay ==
    ASSUME [Next]_vars
    PROVE  orphaned \subseteq orphaned'
BY Zenon DEF Next, vars, auditVars, mirrorVars, BeginDispatch, Lookup, Invoke, NodeStarted,
   NodeCompleted, NodeFailed, ToolRetry, NodeEvent, Commit, Announce, Lifecycle, Expiring, AppendOnly,
   PassOn, CallerDropped, MirrorWrite, Reconcile, Sweep, Tick, Lag, CrashRestart, Subscribe, Replay,
   GoLive, Send, Receive, Unsubscribe, SubStep

\* Store, when it commits.
LEMMA StoreAppends ==
    ASSUME NEW e, Store(e, TRUE)
    PROVE  AppendRow(e) /\ DOMAIN committed' = DOMAIN committed \cup {e.uid}
BY DEF Store, Transaction

LEMMA CommitKind ==
    ASSUME AuditInv, MirrorInv, SubTyped, RowsTyped, NEW w \in writers, Commit(w)
    PROVE  Elsewhere \/ \E e \in Entry : Appended(e)
<1>0. w.seq = None /\ UNCHANGED <<now, bus, missed, sub>> /\ now \in Nat
  BY DEF Commit, busVars, SubTyped
<1>1. CASE Store(w.entry, TRUE) /\ writers' = (writers \ {w}) \cup {[w EXCEPT !.seq = NextId]}
  <2> DEFINE v == [w EXCEPT !.seq = NextId]
  <2>1. w = [entry |-> w.entry, seq |-> w.seq]
    BY DEF MirrorInv, EntriesApart
  <2>2. v = [entry |-> w.entry, seq |-> NextId]
    BY <2>1
  <2>3. v.entry = w.entry /\ v.seq = NextId
    <3> HIDE DEF NextId
    <3> QED
      BY <2>2
  <2>4. v \in writers'
    BY <1>1
  <2> HIDE DEF v, NextId
  <2>5. w.entry \in Entry /\ w.entry.valid_to = None
    BY DEF SubTyped, RowsTyped
  <2>6. AppendRow(w.entry) /\ DOMAIN committed' = DOMAIN committed \cup {w.entry.uid}
    BY <1>1, StoreAppends
  <2>7. Appended(w.entry)
    BY <1>0, <2>3, <2>4, <2>5, <2>6 DEF Appended
  <2> QED
    BY <2>5, <2>7
<1>2. CASE Store(w.entry, FALSE) /\ writers' = writers \ {w}
  BY <1>0, <1>2 DEF Store, Elsewhere
<1> QED
  BY <1>1, <1>2 DEF Commit

LEMMA AppendOnlyKind ==
    ASSUME MirrorInv, SubTyped, NEW run \in RunIds \cup {None}, NEW valid_to \in Nat \cup {None},
           NEW s \in Sessions, NEW ns \in Spaces, AppendOnly(run, "lifecycle", valid_to, s, ns)
    PROVE  Elsewhere \/ \E e \in Entry : Appended(e)
<1> DEFINE e == NewEntry(run, None, "lifecycle", valid_to, s, ns)
<1>0. /\ UNCHANGED <<now, bus, missed, sub, writers>> /\ now \in Nat
      /\ Store(e, TRUE) \/ Store(e, FALSE)
  BY DEF AppendOnly, busVars, SubTyped
<1>1. created \in Nat /\ \A u \in DOMAIN committed : u \in Nat /\ u < created + 1
  BY DEF MirrorInv, EntriesApart
<1>2. e \in Entry /\ e.uid = created + 1 /\ e.type = "lifecycle"
  BY <1>1 DEF NewEntry, Entry
<1> HIDE DEF e
<1>3. CASE Store(e, TRUE)
  <2>1. AppendRow(e) /\ DOMAIN committed' = DOMAIN committed \cup {e.uid}
    BY <1>3, StoreAppends
  <2>2. Appended(e)
    BY <1>0, <1>1, <1>2, <2>1 DEF Appended
  <2> QED
    BY <1>2, <2>2
<1>4. CASE Store(e, FALSE)
  BY <1>0, <1>4 DEF Store, Elsewhere
<1> QED
  BY <1>0, <1>3, <1>4

LEMMA ReconcileKind ==
    ASSUME AuditInv, MirrorInv, SubTyped, RowsTyped, NEW r \in zombies, Reconcile(r)
    PROVE  \E e \in Entry : Appended(e)
<1>1. PICK i \in Unfinished(r) :
         Transaction(NewEntry(r, None, "lifecycle", None, events[i].session, events[i].namespace))
  BY DEF Reconcile
<1> DEFINE e == NewEntry(r, None, "lifecycle", None, events[i].session, events[i].namespace)
<1>2. UNCHANGED <<now, bus, missed, sub>>
  BY DEF Reconcile, busVars
<1>3. created \in Nat /\ \A u \in DOMAIN committed : u \in Nat /\ u < created + 1
  BY DEF MirrorInv, EntriesApart
<1>4. events[i] \in Entry /\ events[i].run = r
  BY <1>1 DEF Unfinished, RowsTyped
<1>5. e \in Entry /\ e.uid = created + 1 /\ e.type = "lifecycle"
  BY <1>3, <1>4 DEF NewEntry, Entry
<1>6. Transaction(e)
  BY <1>1
<1> HIDE DEF e
<1>7. AppendRow(e) /\ DOMAIN committed' = DOMAIN committed \cup {e.uid}
  BY <1>6 DEF Transaction
<1> QED
  BY <1>2, <1>3, <1>5, <1>7 DEF Appended

\* Every step, as the subscription and the rows see it.
LEMMA SubKinds ==
    ASSUME AuditInv, MirrorInv, SubTyped, RowsTyped, [Next]_vars
    PROVE  \/ Elsewhere
           \/ \E e \in Entry : Appended(e)
           \/ Sweep
           \/ (\E w \in writers : Announce(w)) \/ \E e : Orphaned(e)
           \/ Lag \/ Resubscribed \/ Replay \/ GoLive \/ Send \/ Receive
<1> DEFINE Kinds == \/ Elsewhere
                    \/ \E e \in Entry : Appended(e)
                    \/ Sweep
                    \/ (\E w \in writers : Announce(w)) \/ \E e : Orphaned(e)
                    \/ Lag \/ Resubscribed \/ Replay \/ GoLive \/ Send \/ Receive
<1> SUFFICES Kinds
  OBVIOUS
<1> HIDE DEF Kinds
<1>0. now \in Nat /\ MaxTime \in Nat
  BY JournalAssumption DEF SubTyped
<1>1. ASSUME UNCHANGED <<tables, committed, busVars, sub, now>>, writers \subseteq writers' PROVE Kinds
  BY <1>0, <1>1 DEF Kinds, Elsewhere, busVars
<1>2. ASSUME NEW c \in Calls, Invoke(c) PROVE Kinds
  BY <1>1, <1>2, Zenon DEF Invoke, StartWriter
<1>3. ASSUME NEW n \in Nodes, NodeStarted(n) \/ NodeCompleted(n) \/ NodeFailed(n) \/ ToolRetry(n)
      PROVE  Kinds
  BY <1>1, <1>3, Zenon DEF NodeStarted, NodeCompleted, NodeFailed, ToolRetry, NodeEvent, StartWriter
<1>4. ASSUME NEW w \in writers, Commit(w) PROVE Kinds
  BY <1>4, CommitKind DEF Kinds
<1>5. CASE Lifecycle
  BY <1>5, AppendOnlyKind DEF Kinds, Lifecycle
<1>6. CASE Expiring
  <2>1. PICK s \in Sessions, ns \in Spaces, t \in now .. MaxTime :
           AppendOnly(None, "lifecycle", t, s, ns)
    BY <1>6 DEF Expiring
  <2>2. t \in Nat
    BY <1>0
  <2> QED
    BY <2>1, <2>2, AppendOnlyKind DEF Kinds
<1>7. CASE Tick
  BY <1>0, <1>7 DEF Tick, auditVars, busVars, Kinds, Elsewhere
<1>8. CASE CrashRestart
  <2>1. AnyRow \in Filter
    BY DEF AnyRow, Filter
  <2> QED
    BY <1>8, <2>1 DEF CrashRestart, NoSub, Kinds, Resubscribed
<1>9. ASSUME NEW f \in Filters, Subscribe(f) PROVE Kinds
  BY <1>9, AuditAssumption DEF Subscribe, Kinds, Resubscribed
<1>10. CASE Unsubscribe
  <2>1. AnyRow \in Filter
    BY DEF AnyRow, Filter
  <2> QED
    BY <1>10, <2>1 DEF Unsubscribe, SubStep, NoSub, Kinds, Resubscribed
<1>11. ASSUME \/ UNCHANGED vars
              \/ \E c \in Calls : (\E k \in Keys \cup {None} : BeginDispatch(c, k)) \/ Lookup(c)
              \/ \E e \in mirroring : MirrorWrite(e)
              \/ \E e \in resuming : PassOn(e)
       PROVE  UNCHANGED <<tables, committed, busVars, sub, now, writers>>
  BY <1>11, Zenon DEF vars, auditVars, BeginDispatch, Lookup, MirrorWrite, PassOn
<1>13. ASSUME NEW e \in resuming \cup {w.entry : w \in writers}, CallerDropped(e) PROVE Kinds
  <2>1. Orphaned(e)
    BY <1>13 DEF CallerDropped, Orphaned, busVars
  <2> QED
    BY <2>1 DEF Kinds
<1>14. ASSUME NEW r \in zombies, Reconcile(r) PROVE Kinds
  BY <1>14, ReconcileKind DEF Kinds
<1>12. ASSUME \/ Sweep \/ \E w \in writers : Announce(w)
              \/ Lag \/ Replay \/ GoLive \/ Send \/ Receive
       PROVE  Kinds
  BY <1>12 DEF Kinds
<1> QED
  BY <1>1, <1>2, <1>3, <1>4, <1>5, <1>6, <1>7, <1>8, <1>9, <1>10, <1>11, <1>12, <1>13, <1>14 DEF Next

\* Writers append entries that do not expire.
LEMMA WritersTyped ==
    ASSUME AuditInv, MirrorInv, SubTyped, RowsTyped, [Next]_vars
    PROVE  \A w \in writers' : w.entry \in Entry /\ w.seq \in Nat \cup {None} /\ w.entry.valid_to = None
<1> DEFINE Typed == \A w \in writers' : w.entry \in Entry /\ w.seq \in Nat \cup {None} /\ w.entry.valid_to = None
<1>0. created \in Nat /\ NextId \in Nat
  BY NextIdIsFree DEF MirrorInv, EntriesApart, AuditInv, IndexInv
<1>1. ASSUME writers' \subseteq writers PROVE Typed
  BY <1>1 DEF SubTyped, RowsTyped
<1>2. ASSUME NEW e \in Entry, StartWriter(e), e.valid_to = None PROVE Typed
  BY <1>2 DEF StartWriter, SubTyped, RowsTyped
<1>3. ASSUME NEW c \in Calls, Invoke(c) PROVE Typed
  <2>1. PICK s \in Sessions, ns \in Spaces :
           StartWriter(NewEntry(None, calls[c].key, "interaction", None, s, ns))
    BY <1>3 DEF Invoke
  <2>2. calls[c].key \in Keys \cup {None}
    BY DEF AuditInv, CallsTyped
  <2> DEFINE e == NewEntry(None, calls[c].key, "interaction", None, s, ns)
  <2>3. e \in Entry /\ e.valid_to = None
    BY <1>0, <2>2 DEF NewEntry, Entry
  <2> HIDE DEF e
  <2> QED
    BY <1>2, <2>1, <2>3 DEF e
<1>4. ASSUME NEW n \in Nodes, NodeStarted(n) \/ NodeCompleted(n) \/ NodeFailed(n) \/ ToolRetry(n)
      PROVE  Typed
  <2>1. PICK r \in RunIds, s \in Sessions, ns \in Spaces :
           StartWriter(NewEntry(r, None, "interaction", None, s, ns))
    BY <1>4 DEF NodeStarted, NodeCompleted, NodeFailed, ToolRetry, NodeEvent
  <2> DEFINE e == NewEntry(r, None, "interaction", None, s, ns)
  <2>2. e \in Entry /\ e.valid_to = None
    BY <1>0 DEF NewEntry, Entry
  <2> HIDE DEF e
  <2> QED
    BY <1>2, <2>1, <2>2 DEF e
<1>5. ASSUME NEW w \in writers, Commit(w) PROVE Typed
  <2>1. CASE writers' = writers \ {w}
    BY <1>1, <2>1
  <2>2. CASE writers' = (writers \ {w}) \cup {[w EXCEPT !.seq = NextId]}
    <3> DEFINE v == [w EXCEPT !.seq = NextId]
    <3>1. w = [entry |-> w.entry, seq |-> w.seq]
      BY DEF MirrorInv, EntriesApart
    <3>2. v.entry = w.entry /\ v.seq = NextId
      <4> HIDE DEF NextId
      <4> QED
        BY <3>1
    <3> HIDE DEF v, NextId
    <3>3. writers' = (writers \ {w}) \cup {v}
      BY <2>2 DEF v, NextId
    <3> QED
      BY <1>0, <3>2, <3>3 DEF SubTyped, RowsTyped
  <2> QED
    BY <1>5, <2>1, <2>2 DEF Commit
<1>6. ASSUME \/ UNCHANGED vars
             \/ \E c \in Calls : (\E k \in Keys \cup {None} : BeginDispatch(c, k)) \/ Lookup(c)
             \/ Lifecycle \/ Expiring
             \/ \E e \in mirroring : MirrorWrite(e)
             \/ \E e \in resuming : PassOn(e)
             \/ \E r \in zombies : Reconcile(r)
             \/ Sweep \/ Tick \/ Lag
             \/ \E f \in Filters : Subscribe(f)
             \/ Replay \/ GoLive \/ Send \/ Receive \/ Unsubscribe
      PROVE  UNCHANGED writers
  BY <1>6, Zenon DEF vars, auditVars, BeginDispatch, Lookup, Lifecycle, Expiring, AppendOnly, MirrorWrite,
     PassOn, Reconcile,
     Sweep, Tick, Lag, Subscribe, Replay, GoLive, Send, Receive, Unsubscribe, SubStep
<1>7. ASSUME NEW w \in writers, Announce(w) PROVE writers' \subseteq writers
  BY <1>7 DEF Announce
<1>8. ASSUME CrashRestart PROVE writers' \subseteq writers
  BY <1>8 DEF CrashRestart
<1>9. ASSUME UNCHANGED writers PROVE Typed
  BY <1>1, <1>9
<1>11. ASSUME NEW e, CallerDropped(e) PROVE writers' \subseteq writers
  BY <1>11 DEF CallerDropped
<1> HIDE DEF Typed
<1>10. Typed
  BY <1>1, <1>3, <1>4, <1>5, <1>6, <1>7, <1>8, <1>9, <1>11 DEF Next
<1> QED
  BY <1>10 DEF Typed

LEMMA NewestRow ==
    ASSUME Numbered, NEW j \in DOMAIN events
    PROVE  /\ Max(DOMAIN events) \in DOMAIN events /\ Max(DOMAIN events) \in Nat
           /\ j \in Nat /\ j <= Max(DOMAIN events)
<1>1. PICK n \in Nat : \A i \in DOMAIN events : i <= n
  BY DEF Numbered
<1>2. DOMAIN events \subseteq Nat
  BY DEF Numbered
<1>3. Max(DOMAIN events) \in DOMAIN events /\ \A i \in DOMAIN events : Max(DOMAIN events) >= i
  BY <1>1, <1>2, MaxOfBounded
<1> QED
  BY <1>2, <1>3

\* A row newer than all others of a set comes first.
LEMMA NewestComesFirst ==
    ASSUME Numbered, NEW S, S \subseteq DOMAIN events, NEW i \in S, \A j \in S : j <= i
    PROVE  1 \in 1 .. Cardinality(S) /\ NewestFirst(S)[1] = i
<1> DEFINE n == Cardinality(S)
           s == NewestFirst(S)
<1>1. S \subseteq Nat /\ IsFiniteSet(S) /\ n \in Nat
  BY RowsFinite
<1>2. /\ s \in [1 .. n -> S] /\ Descending(s)
      /\ \A x \in S : \E k \in 1 .. n : s[k] = x
  BY <1>1, NewestFirstHolds, Zenon
<1> HIDE DEF n, s
<1>3. PICK p \in 1 .. n : s[p] = i
  BY <1>2
<1>4. 1 \in 1 .. n /\ p \in Nat /\ p >= 1
  BY <1>1, <1>3
<1>5. s[1] \in S
  BY <1>2, <1>4
<1>6. s[1] \in Nat /\ i \in Nat /\ s[1] <= i
  BY <1>1, <1>5
<1>7. p = 1
  <2> SUFFICES ASSUME p # 1 PROVE FALSE
    OBVIOUS
  <2>1. 1 < p
    BY <1>4
  <2>2. s[1] > s[p]
    BY <1>2, <1>3, <1>4, <2>1 DEF Descending
  <2> QED
    BY <1>3, <1>6, <2>2
<1> QED
  BY <1>3, <1>4, <1>7 DEF n, s

LEMMA RowsOfHas ==
    ASSUME RowsTyped, NEW l \in Nat, NEW ids \in [1 .. l -> DOMAIN events]
    PROVE  /\ RowsOf(ids) \in Seq(Nat) /\ DOMAIN RowsOf(ids) = 1 .. l
           /\ \A k \in 1 .. l : RowsOf(ids)[k] = events[ids[k]].uid
<1>1. Len(ids) = l
  OBVIOUS
<1>2. \A k \in 1 .. l : ids[k] \in DOMAIN events
  OBVIOUS
<1>3. \A k \in 1 .. l : events[ids[k]].uid \in Nat
  BY <1>2 DEF RowsTyped, Entry
<1> DEFINE t == RowsOf(ids)
<1>4. t = [k \in 1 .. l |-> events[ids[k]].uid]
  BY <1>1 DEF RowsOf
<1> HIDE DEF t
<1>5. DOMAIN t = 1 .. l /\ \A k \in 1 .. l : t[k] = events[ids[k]].uid
  BY <1>4
<1>6. t \in [1 .. l -> Nat]
  BY <1>3, <1>4
<1>7. t \in Seq(Nat)
  BY <1>6
<1> QED
  BY <1>5, <1>7 DEF t

\* Phase 1 reads rows, the newest of the wanted among them.
LEMMA ReplayReads ==
    ASSUME Numbered, RowsTyped, NEW f
    PROVE  /\ RowsOf(Query(f, ReplayLimit)) \in Seq(Nat)
           /\ ReplayLimit > 0 => \A i \in DOMAIN events : i = Max(DOMAIN events) /\ Matches(f, i) =>
                 \E k \in DOMAIN RowsOf(Query(f, ReplayLimit)) :
                    RowsOf(Query(f, ReplayLimit))[k] = events[i].uid
<1> DEFINE S == {i \in DOMAIN events : Matches(f, i)}
           n == Cardinality(S)
           ids == Take(NewestFirst(S), ReplayLimit)
           l == Least(ReplayLimit, n)
<1>0. ReplayLimit \in Nat
  BY AuditAssumption
<1>1. Query(f, ReplayLimit) = ids
  BY DEF Query
<1>2. S \subseteq DOMAIN events
  OBVIOUS
<1>2a. \A i \in DOMAIN events : Matches(f, i) => i \in S
  OBVIOUS
<1> HIDE DEF S
<1>3. S \subseteq Nat /\ IsFiniteSet(S) /\ n \in Nat
  BY <1>2, RowsFinite
<1>4. NewestFirst(S) \in [1 .. n -> S]
  BY <1>3, NewestFirstIs
<1>5. ids \in [1 .. l -> S] /\ l \in Nat
  BY <1>0, <1>3, <1>4, TakeIs
<1>6. \A k \in 1 .. l : ids[k] = NewestFirst(S)[k]
  BY <1>0, <1>3, <1>4, TakeAt
<1>7. ReplayLimit > 0 /\ 1 \in 1 .. n => 1 \in 1 .. l
  BY <1>0, <1>3 DEF Least
<1> HIDE DEF n, ids, l
<1>8. ids \in [1 .. l -> DOMAIN events]
  BY <1>2, <1>5
<1>9. /\ RowsOf(ids) \in Seq(Nat) /\ DOMAIN RowsOf(ids) = 1 .. l
      /\ \A k \in 1 .. l : RowsOf(ids)[k] = events[ids[k]].uid
  BY <1>5, <1>8, RowsOfHas
<1>10. ASSUME ReplayLimit > 0, NEW i \in DOMAIN events, i = Max(DOMAIN events), Matches(f, i)
       PROVE  \E k \in DOMAIN RowsOf(ids) : RowsOf(ids)[k] = events[i].uid
  <2>1. i \in S /\ \A j \in S : j <= i
    BY <1>2, <1>2a, <1>10, NewestRow
  <2>2. 1 \in 1 .. n /\ NewestFirst(S)[1] = i
    BY <1>2, <2>1, NewestComesFirst DEF n
  <2>3. 1 \in 1 .. l /\ ids[1] = i
    BY <1>6, <1>7, <1>10, <2>2
  <2> QED
    BY <1>9, <2>3
<1> QED
  BY <1>1, <1>9, <1>10

\* What phase 2 reads for an event.
Found(f, q) == NewestFirst({j \in ToSet(Recent(1)) : j = q /\ Matches(f, j)})

\* Phase 2 finds the announced row if that one is still the newest and has not expired.
LEMMA ReceiveReads ==
    ASSUME Numbered, RowsTyped, NEW f, NEW q, NEW found, found = Found(f, q)
    PROVE  /\ RowsOf(found) \in Seq(Nat)
           /\ \A i \in DOMAIN events :
                 i = Max(DOMAIN events) /\ i = q /\ ~IsExpired(i) /\ Matches(f, i) =>
                    \E k \in DOMAIN RowsOf(found) : RowsOf(found)[k] = events[i].uid
<1> DEFINE D == DOMAIN events
           n == Cardinality(D)
           d == NewestFirst(D)
           top == ToSet(Take(d, 1))
           X == {j \in top : ~IsExpired(j)}
           F == {j \in ToSet(Recent(1)) : j = q /\ Matches(f, j)}
           m == Cardinality(F)
<1>0. found = NewestFirst(F)
  BY DEF Found
<1>1. D \subseteq Nat /\ IsFiniteSet(D) /\ n \in Nat
  <2>1. D \subseteq DOMAIN events
    OBVIOUS
  <2> QED
    BY <2>1, RowsFinite
<1>2. NewestFirst(D) \in [1 .. n -> D]
  BY <1>1, NewestFirstIs
<1>2a. /\ \A x \in top : \E k \in 1 .. Least(1, n) : d[k] = x
       /\ \A k \in 1 .. Least(1, n) : d[k] \in top
  <2>1. 1 \in Nat /\ n \in Nat /\ d \in [1 .. n -> D]
    BY <1>1, <1>2
  <2> HIDE DEF D, n, d
  <2> QED
    BY <2>1, TakeHolds
<1>3. top \subseteq D
  <2>1. \A x \in top : \E k \in 1 .. Least(1, n) : NewestFirst(D)[k] = x
    BY <1>2a
  <2>2. \A k \in 1 .. Least(1, n) : k \in 1 .. n
    BY <1>1 DEF Least
  <2> HIDE DEF D, n, top
  <2> QED
    BY <1>2, <2>1, <2>2
<1>4. Recent(1) = NewestFirst(X)
  BY DEF Recent
<1>5. X \subseteq D
  BY <1>3
<1>6. ToSet(Recent(1)) = X
  <2> HIDE DEF X
  <2>1. X \subseteq Nat /\ IsFiniteSet(X)
    BY <1>5, RowsFinite
  <2> QED
    BY <1>4, <2>1, NewestFirstHolds
<1>7. F \subseteq D
  BY <1>5, <1>6
<1>8. \A i \in D : i = Max(D) /\ i = q /\ ~IsExpired(i) /\ Matches(f, i) => i \in F /\ \A j \in F : j = i
  <2> SUFFICES ASSUME NEW i \in D, i = Max(D), i = q, ~IsExpired(i), Matches(f, i)
               PROVE  i \in F /\ \A j \in F : j = i
    OBVIOUS
  <2>1. \A j \in D : j <= i
    BY NewestRow
  <2>2. 1 \in 1 .. n /\ NewestFirst(D)[1] = i
    BY <2>1, NewestComesFirst
  <2>3. 1 \in 1 .. Least(1, n)
    BY <1>1, <2>2 DEF Least
  <2>4. i \in top
    BY <1>2a, <2>2, <2>3
  <2> QED
    BY <1>6, <2>4
<1> HIDE DEF F
<1>9. F \subseteq Nat /\ IsFiniteSet(F) /\ m \in Nat
  BY <1>7, RowsFinite
<1>10. found \in [1 .. m -> F]
  BY <1>0, <1>9, NewestFirstIs
<1> HIDE DEF m
<1>11. found \in [1 .. m -> DOMAIN events]
  BY <1>7, <1>10
<1>12. /\ RowsOf(found) \in Seq(Nat) /\ DOMAIN RowsOf(found) = 1 .. m
       /\ \A k \in 1 .. m : RowsOf(found)[k] = events[found[k]].uid
  BY <1>9, <1>11, RowsOfHas
<1>13. ASSUME NEW i \in D, i = Max(D), i = q, ~IsExpired(i), Matches(f, i)
       PROVE  \E k \in DOMAIN RowsOf(found) : RowsOf(found)[k] = events[i].uid
  <2>1. i \in F /\ \A j \in F : j <= i
    <3>1. i \in F /\ \A j \in F : j = i
      BY <1>8, <1>13
    <3>2. i \in Nat
      BY <1>1
    <3> QED
      BY <3>1, <3>2
  <2>2. 1 \in 1 .. m /\ found[1] = i
    BY <1>0, <1>7, <2>1, NewestComesFirst DEF m
  <2> QED
    BY <1>12, <2>2
<1> QED
  BY <1>12, <1>13

\* What an append does to the rows.
LEMMA AppendedRows ==
    ASSUME Numbered, NEW e, Appended(e)
    PROVE  /\ NextId \in Nat /\ NextId \in DOMAIN events' /\ events'[NextId] = e
           /\ \A i \in DOMAIN events : i \in DOMAIN events' /\ events'[i] = events[i] /\ i \in Nat /\ i < NextId
           /\ \A i \in DOMAIN events' : i = NextId \/ i \in DOMAIN events
<1>1. NextId \in Nat /\ NextId \notin DOMAIN events /\ \A i \in DOMAIN events : i <= NextId
  BY NextIdIsFree
<1>2. \A i \in DOMAIN events : i \in Nat
  BY DEF Numbered
<1> DEFINE id == NextId
<1>3. events' = [i \in DOMAIN events \cup {id} |-> IF i = id THEN e ELSE events[i]]
  BY DEF Appended, AppendRow
<1> HIDE DEF id
<1>4. id \in Nat /\ id \notin DOMAIN events /\ \A i \in DOMAIN events : i <= id
  BY <1>1 DEF id
<1>5. \A i \in DOMAIN events : i < id
  BY <1>2, <1>4
<1>6. DOMAIN events' = DOMAIN events \cup {id}
  BY <1>3
<1>7. events'[id] = e /\ \A i \in DOMAIN events : events'[i] = events[i]
  BY <1>3, <1>4
<1>8. /\ id \in Nat /\ id \in DOMAIN events' /\ events'[id] = e
      /\ \A i \in DOMAIN events : i \in DOMAIN events' /\ events'[i] = events[i] /\ i \in Nat /\ i < id
      /\ \A i \in DOMAIN events' : i = id \/ i \in DOMAIN events
  BY <1>2, <1>4, <1>5, <1>6, <1>7
<1> QED
  BY <1>8 DEF id

\* What a sweep does: it takes rows that expire.
LEMMA SweptRows ==
    ASSUME DeleteExpired
    PROVE  /\ \A i \in DOMAIN events' : i \in DOMAIN events /\ events'[i] = events[i]
           /\ \A i \in DOMAIN events : i \in DOMAIN events' \/ events[i].valid_to # None
<1>1. events' = [i \in DOMAIN events \ Swept |-> events[i]]
  BY DEF DeleteExpired
<1> QED
  BY <1>1 DEF Swept

LEMMA RowsStep ==
    ASSUME AuditInv, MirrorInv, SubTyped, RowsTyped, [Next]_vars
    PROVE  RowsTyped'
<1>0. \A w \in writers' : w.entry.valid_to = None
  BY WritersTyped
<1>1. ASSUME UNCHANGED <<tables, committed>> PROVE RowsTyped'
  BY <1>0, <1>1 DEF tables, RowsTyped
<1>2. ASSUME Sweep PROVE RowsTyped'
  <2>1. DeleteExpired /\ committed' = committed
    BY <1>2 DEF Sweep, auditVars
  <2>2. \A i \in DOMAIN events' : i \in DOMAIN events /\ events'[i] = events[i]
    BY <2>1, SweptRows
  <2> QED
    BY <1>0, <2>1, <2>2 DEF RowsTyped
<1>3. ASSUME NEW e \in Entry, Appended(e) PROVE RowsTyped'
  <2> DEFINE id == NextId
  <2>1. Numbered
    BY DEF AuditInv, IndexInv
  <2>2. /\ id \in Nat /\ id \in DOMAIN events' /\ events'[id] = e
        /\ \A i \in DOMAIN events : i \in DOMAIN events' /\ events'[i] = events[i] /\ i \in Nat /\ i < id
        /\ \A i \in DOMAIN events' : i = id \/ i \in DOMAIN events
    BY <1>3, <2>1, AppendedRows
  <2>3. /\ DOMAIN committed' = DOMAIN committed \cup {e.uid}
        /\ \/ e.valid_to = None
           \/ e.type = "lifecycle" /\ \A u \in DOMAIN committed : u < e.uid
    BY <1>3 DEF Appended
  <2> HIDE DEF id
  <2>4. \A i \in DOMAIN events' :
          /\ events'[i] \in Entry /\ events'[i].uid \in DOMAIN committed'
          /\ events'[i].type = "interaction" => events'[i].valid_to = None
    BY <2>2, <2>3 DEF RowsTyped
  <2>5. ASSUME NEW i \in DOMAIN events', events'[i].valid_to # None, NEW j \in DOMAIN events', j < i
        PROVE  events'[j].uid < events'[i].uid
    <3>1. CASE i = id
      <4>1. j \in DOMAIN events
        BY <2>2, <2>5, <3>1
      <4>2. events[j].uid \in DOMAIN committed /\ events'[j] = events[j]
        BY <2>2, <4>1 DEF RowsTyped
      <4> QED
        BY <2>2, <2>3, <2>5, <3>1, <4>2
    <3>2. CASE i \in DOMAIN events
      <4>1. j \in DOMAIN events
        BY <2>2, <2>5, <3>2
      <4> QED
        BY <2>2, <2>5, <3>2, <4>1 DEF RowsTyped
    <3> QED
      BY <2>2, <3>1, <3>2
  <2> QED
    BY <1>0, <2>4, <2>5 DEF RowsTyped
<1>4. ASSUME Elsewhere \/ (\E w \in writers : Announce(w)) \/ (\E e : Orphaned(e)) \/ Lag \/ Resubscribed \/ Replay \/ GoLive \/ Send \/ Receive
      PROVE  UNCHANGED <<tables, committed>>
  BY <1>4, Zenon DEF Elsewhere, Announce, Orphaned, Lag, Resubscribed, Replay, GoLive, Send, Receive, SubStep
<1> QED
  BY <1>1, <1>2, <1>3, <1>4, SubKinds

LEMMA SubFields ==
    ASSUME SubTyped
    PROVE  sub = [pc |-> sub.pc, filter |-> sub.filter, todo |-> sub.todo, got |-> sub.got]
BY DEF SubTyped

LEMMA ReceiveKinds ==
    ASSUME Receive
    PROVE  \E found :
             /\ found = Found(sub.filter, Head(bus).seq)
             /\ \/ /\ missed' = missed
                   /\ sub' = [sub EXCEPT !.todo = IF Prefilter(sub.filter, Head(bus)) THEN RowsOf(found) ELSE <<>>]
                \/ missed' = TRUE /\ sub' = sub
BY Zenon DEF Receive, Found

LEMMA SubTypedStep ==
    ASSUME AuditInv, MirrorInv, SubTyped, RowsTyped, [Next]_vars
    PROVE  SubTyped'
<1> DEFINE SubType == [pc : {"off", "replay", "sending", "live"}, filter : Filter,
                       todo : Seq(Nat), got : SUBSET Nat]
<1> DEFINE Goal == now' \in Nat /\ bus' \in Seq(Event) /\ sub' \in SubType
<1>w. \A w \in writers' : w.entry \in Entry /\ w.seq \in Nat \cup {None}
  BY WritersTyped
<1> SUFFICES Goal
  BY <1>w DEF SubTyped
<1>0. /\ now \in Nat /\ bus \in Seq(Event) /\ sub \in SubType
      /\ sub.pc \in {"off", "replay", "sending", "live"} /\ sub.filter \in Filter
      /\ sub.todo \in Seq(Nat) /\ sub.got \in SUBSET Nat
  BY DEF SubTyped
<1>n. Numbered
  BY DEF AuditInv, IndexInv
<1>s. sub = [pc |-> sub.pc, filter |-> sub.filter, todo |-> sub.todo, got |-> sub.got]
  BY SubFields
<1>t. <<>> \in Seq(Nat) /\ <<>> \in Seq(Event)
  OBVIOUS
<1>1. ASSUME UNCHANGED <<bus, sub>>, now' \in Nat PROVE Goal
  BY <1>0, <1>1
<1>2. ASSUME Elsewhere \/ Sweep \/ (\E e \in Entry : Appended(e)) \/ \E e : Orphaned(e)
      PROVE  UNCHANGED <<bus, sub>> /\ now' \in Nat
  BY <1>0, <1>2 DEF Elsewhere, Sweep, auditVars, busVars, Appended, Orphaned
<1>3. ASSUME NEW w \in writers, Announce(w) PROVE Goal
  <2> DEFINE ev == [seq |-> w.seq, namespace |-> w.entry.namespace, type |-> w.entry.type]
  <2>1. ev \in Event
    BY <1>3 DEF SubTyped, Announce, Entry, Event
  <2>2. (bus' = bus \/ bus' = Append(bus, ev)) /\ UNCHANGED <<now, sub>>
    BY <1>3 DEF Announce, Emit
  <2> HIDE DEF ev
  <2> QED
    BY <1>0, <2>1, <2>2
<1>4. CASE Lag
  BY <1>0, <1>4 DEF Lag
<1>5. CASE Resubscribed
  <2>1. sub' = [pc |-> sub'.pc, filter |-> sub'.filter, todo |-> <<>>, got |-> {}]
    BY <1>5 DEF Resubscribed
  <2>2. sub'.pc \in {"off", "replay"} /\ sub'.filter \in Filter /\ bus' = <<>> /\ now' = now
    BY <1>5 DEF Resubscribed
  <2> DEFINE p == sub'.pc
             f == sub'.filter
  <2>3. p \in {"off", "replay", "sending", "live"} /\ f \in Filter
    BY <2>2
  <2> HIDE DEF p, f
  <2>4. [pc |-> p, filter |-> f, todo |-> <<>>, got |-> {}] \in SubType
    BY <1>t, <2>3
  <2> QED
    BY <1>0, <1>t, <2>1, <2>2, <2>4 DEF p, f
<1>6. CASE Replay
  <2>0. now' = now /\ bus' = bus
    BY <1>6 DEF Replay, SubStep
  <2> DEFINE rows == RowsOf(Query(sub.filter, ReplayLimit))
  <2>1. rows \in Seq(Nat)
    BY <1>n, ReplayReads
  <2>2. sub' = [sub EXCEPT !.pc = "sending", !.todo = rows] \/ sub' = [sub EXCEPT !.pc = "sending"]
    BY <1>6 DEF Replay
  <2> HIDE DEF rows
  <2> QED
    BY <1>0, <2>0, <2>1, <2>2
<1>7. CASE GoLive
  BY <1>0, <1>7 DEF GoLive, busVars, SubStep
<1>8. CASE Send
  <2>1. Head(sub.todo) \in Nat /\ Tail(sub.todo) \in Seq(Nat)
    BY <1>0, <1>8 DEF Send
  <2>2. sub' = [sub EXCEPT !.todo = Tail(@), !.got = @ \cup {Head(sub.todo)}] /\ UNCHANGED <<bus, now>>
    BY <1>8 DEF Send, busVars, SubStep
  <2>3. sub' = [pc |-> sub.pc, filter |-> sub.filter, todo |-> Tail(sub.todo), got |-> sub.got \cup {Head(sub.todo)}]
    BY <1>s, <2>2
  <2>4. sub.got \cup {Head(sub.todo)} \in SUBSET Nat
    BY <1>0, <2>1
  <2> DEFINE t == Tail(sub.todo)
             g == sub.got \cup {Head(sub.todo)}
  <2> HIDE DEF t, g
  <2>5. sub' = [pc |-> sub.pc, filter |-> sub.filter, todo |-> t, got |-> g]
    BY <2>3 DEF t, g
  <2>6. t \in Seq(Nat) /\ g \in SUBSET Nat
    BY <2>1, <2>4 DEF t, g
  <2>7. sub' \in SubType
    BY <1>0, <2>5, <2>6
  <2> QED
    BY <1>0, <2>2, <2>7
<1>9. CASE Receive
  <2>0. now' = now /\ bus' = Tail(bus) /\ bus # <<>>
    BY <1>9 DEF Receive, SubStep
  <2>1. PICK found :
             /\ found = Found(sub.filter, Head(bus).seq)
             /\ \/ /\ missed' = missed
                   /\ sub' = [sub EXCEPT !.todo = IF Prefilter(sub.filter, Head(bus)) THEN RowsOf(found) ELSE <<>>]
                \/ missed' = TRUE /\ sub' = sub
    BY <1>9, ReceiveKinds
  <2>2. RowsOf(found) \in Seq(Nat)
    BY <1>n, <2>1, ReceiveReads
  <2> HIDE DEF Prefilter
  <2>3. PICK todo \in Seq(Nat) : sub' = [sub EXCEPT !.todo = todo] \/ sub' = sub
    BY <1>t, <2>1, <2>2
  <2>4. sub' \in SubType
    BY <1>0, <2>3
  <2>5. Tail(bus) \in Seq(Event)
    BY <1>0, <2>0
  <2> QED
    BY <1>0, <2>0, <2>4, <2>5
<1> HIDE DEF Goal
<1> QED
  BY <1>1, <1>2, <1>3, <1>4, <1>5, <1>6, <1>7, <1>8, <1>9, SubKinds

\* A row that is wanted after a step was so before it, if it was the newest already.
LEMMA WantedBefore ==
    ASSUME RowsTyped, NEW i \in DOMAIN events, events'[i] = events[i], Wanted(i)',
           sub'.filter = sub.filter, i = Max(DOMAIN events), DOMAIN committed \subseteq DOMAIN committed',
           orphaned \subseteq orphaned'
    PROVE  Wanted(i)
<1>1. events[i].type = "interaction" /\ events[i].uid \notin orphaned /\ \A u \in DOMAIN committed : u <= events[i].uid
  BY DEF Wanted
<1>2. events[i].valid_to = None
  BY <1>1 DEF RowsTyped
<1>3. ~IsExpired(i)
  BY <1>2 DEF IsExpired
<1>4. Matches(sub.filter, i)
  <2>1. Matches(sub.filter, i)'
    BY DEF Wanted
  <2> QED
    BY <1>3, <2>1 DEF Matches
<1> QED
  BY <1>1, <1>4 DEF Wanted

LEMMA NewestRowNext ==
    ASSUME Numbered'
    PROVE  \A j \in DOMAIN events' : j \in Nat /\ j <= Max(DOMAIN events')
<1> SUFFICES ASSUME NEW j \in DOMAIN events' PROVE j \in Nat /\ j <= Max(DOMAIN events')
  OBVIOUS
<1>1. PICK n \in Nat : \A i \in DOMAIN events' : i <= n
  BY DEF Numbered
<1>2. DOMAIN events' \subseteq Nat
  BY DEF Numbered
<1>3. Max(DOMAIN events') \in DOMAIN events' /\ \A i \in DOMAIN events' : Max(DOMAIN events') >= i
  BY <1>1, <1>2, MaxOfBounded
<1> QED
  BY <1>2, <1>3

LEMMA AppendPending ==
    ASSUME Numbered, Numbered', NEW e, Appended(e), NEW i \in DOMAIN events', Wanted(i)'
    PROVE  Pending(i)'
<1> DEFINE id == NextId
<1>1. /\ id \in Nat /\ id \in DOMAIN events' /\ events'[id] = e
      /\ \A j \in DOMAIN events : j \in DOMAIN events' /\ events'[j] = events[j] /\ j \in Nat /\ j < id
      /\ \A j \in DOMAIN events' : j = id \/ j \in DOMAIN events
  BY AppendedRows
<1>2. \/ e.valid_to = None /\ \E w \in writers' : w.seq = id /\ w.entry = e
      \/ e.type = "lifecycle"
  BY DEF Appended
<1> HIDE DEF id
<1>3. \A j \in DOMAIN events' : j \in Nat /\ j <= Max(DOMAIN events')
  BY NewestRowNext
<1>4. i = Max(DOMAIN events') /\ events'[i].type = "interaction"
  BY DEF Wanted
<1>5. i = id
  BY <1>1, <1>3, <1>4
<1> QED
  BY <1>1, <1>2, <1>4, <1>5 DEF Pending

LEMMA SweepPending ==
    ASSUME Numbered, Numbered', MirrorInv, RowsTyped, NothingBetween, Sweep, sub.pc \in {"sending", "live"}, ~missed,
           ReplayLimit > 0, NEW i \in DOMAIN events', Wanted(i)'
    PROVE  Pending(i)'
<1>0. DeleteExpired /\ UNCHANGED <<now, writers, bus, sub, orphaned, committed>>
  BY DEF Sweep, auditVars, mirrorVars, busVars
<1>1. /\ \A j \in DOMAIN events' : j \in DOMAIN events /\ events'[j] = events[j]
      /\ \A j \in DOMAIN events : j \in DOMAIN events' \/ events[j].valid_to # None
  BY <1>0, SweptRows
<1> DEFINE m == Max(DOMAIN events)
<1>2. i \in DOMAIN events /\ events'[i] = events[i]
  BY <1>1
<1>3. m \in DOMAIN events /\ m \in Nat /\ i \in Nat /\ i <= m
  BY <1>2, NewestRow
<1>4. i = Max(DOMAIN events') /\ \A u \in DOMAIN committed : u <= events[i].uid
  BY <1>0, <1>2 DEF Wanted
<1> HIDE DEF m
<1>5. m = i
  <2>1. CASE m \in DOMAIN events'
    <3>1. m <= Max(DOMAIN events')
      BY <2>1, NewestRowNext
    <3> QED
      BY <1>3, <1>4, <3>1
  <2>2. CASE m \notin DOMAIN events' /\ m # i
    <3>1. i < m /\ events[m].valid_to # None
      BY <1>1, <1>3, <2>2
    <3>2. events[i].uid < events[m].uid /\ events[m].uid \in DOMAIN committed
      BY <1>2, <1>3, <3>1 DEF RowsTyped
    <3>3. events[i].uid \in Nat /\ events[m].uid \in Nat
      BY <1>2, <1>3 DEF RowsTyped, Entry
    <3> QED
      BY <1>4, <3>2, <3>3
  <2> QED
    BY <2>1, <2>2
<1>6. Wanted(i)
  <2>1. i = Max(DOMAIN events)
    BY <1>5 DEF m
  <2> QED
    BY <1>0, <1>2, <2>1, WantedBefore
<1>7. Pending(i)
  BY <1>2, <1>6 DEF NothingBetween
<1> QED
  BY <1>0, <1>2, <1>7 DEF Pending, EventOf

LEMMA AnnouncePending ==
    ASSUME SubTyped, NEW w \in writers, Announce(w), sub.pc # "off", NEW i \in DOMAIN events, Pending(i)
    PROVE  Pending(i)'
<1> DEFINE ev == [seq |-> w.seq, namespace |-> w.entry.namespace, type |-> w.entry.type]
<1>0. /\ bus' = Append(bus, ev) /\ events' = events /\ sub' = sub /\ writers' = writers \ {w}
      /\ EventOf(i)' = EventOf(i)
  BY DEF Announce, Emit, tables, EventOf
<1>1. CASE events[i].uid \in sub.got \/ \E k \in DOMAIN sub.todo : sub.todo[k] = events[i].uid
  BY <1>0, <1>1 DEF Pending
<1>2. ASSUME NEW k \in DOMAIN bus, bus[k] = EventOf(i) PROVE Pending(i)'
  <2> HIDE DEF ev
  <2>1. bus \in Seq(Event)
    BY DEF SubTyped
  <2>2. k \in DOMAIN bus' /\ bus'[k] = bus[k]
    BY <1>0, <2>1
  <2> QED
    BY <1>0, <1>2, <2>2 DEF Pending
<1>3. ASSUME NEW v \in writers, v.seq = i, v.entry = events[i] PROVE Pending(i)'
  <2>1. CASE v # w
    BY <1>0, <1>3, <2>1 DEF Pending
  <2>2. CASE v = w
    <3>1. ev = EventOf(i)
      BY <1>3, <2>2 DEF EventOf
    <3> HIDE DEF ev
    <3>2. bus \in Seq(Event)
      BY DEF SubTyped
    <3>3. Len(bus) + 1 \in DOMAIN bus' /\ bus'[Len(bus) + 1] = ev
      BY <1>0, <3>2
    <3> QED
      BY <1>0, <3>1, <3>3 DEF Pending
  <2> QED
    BY <2>1, <2>2
<1> QED
  BY <1>1, <1>2, <1>3 DEF Pending

LEMMA TailHas ==
    ASSUME NEW S, NEW s \in Seq(S), s # <<>>, NEW k \in DOMAIN s
    PROVE  s[k] = Head(s) \/ \E l \in DOMAIN Tail(s) : Tail(s)[l] = s[k]
<1>1. k \in Nat /\ k >= 1 /\ k <= Len(s)
  OBVIOUS
<1>2. CASE k = 1
  BY <1>2
<1>3. CASE k # 1
  <2>1. k - 1 \in 1 .. Len(Tail(s)) /\ Tail(s)[k - 1] = s[(k - 1) + 1]
    BY <1>1, <1>3
  <2>2. k - 1 \in DOMAIN Tail(s) /\ (k - 1) + 1 = k
    BY <1>1, <2>1
  <2> QED
    BY <2>1, <2>2
<1> QED
  BY <1>2, <1>3

LEMMA ReplayPending ==
    ASSUME Numbered, RowsTyped, SubTyped, Replay, ~missed', ReplayLimit > 0, NEW i \in DOMAIN events', Wanted(i)'
    PROVE  Pending(i)'
<1> DEFINE rows == RowsOf(Query(sub.filter, ReplayLimit))
<1>0. /\ events' = events /\ now' = now
      /\ sub' = [sub EXCEPT !.pc = "sending", !.todo = rows]
  BY DEF Replay, SubStep, tables
<1> HIDE DEF rows
<1>1. sub'.filter = sub.filter /\ sub'.todo = rows
  BY <1>0, SubFields
<1>2. i \in DOMAIN events /\ i = Max(DOMAIN events) /\ Matches(sub.filter, i)
  BY <1>0, <1>1 DEF Wanted, Matches, IsExpired
<1>3. \E k \in DOMAIN rows : rows[k] = events[i].uid
  BY <1>2, ReplayReads DEF rows
<1> QED
  BY <1>0, <1>1, <1>3 DEF Pending

LEMMA SendPending ==
    ASSUME SubTyped, Send, NEW i \in DOMAIN events, Pending(i)
    PROVE  Pending(i)'
<1>0. /\ events' = events /\ bus' = bus /\ writers' = writers /\ EventOf(i)' = EventOf(i)
      /\ sub.todo # <<>> /\ sub.todo \in Seq(Nat)
      /\ sub' = [sub EXCEPT !.todo = Tail(@), !.got = @ \cup {Head(sub.todo)}]
  BY DEF Send, SubStep, busVars, tables, EventOf, SubTyped
<1>1. sub'.todo = Tail(sub.todo) /\ sub'.got = sub.got \cup {Head(sub.todo)}
  BY <1>0, SubFields
<1>2. ASSUME NEW k \in DOMAIN sub.todo, sub.todo[k] = events[i].uid PROVE Pending(i)'
  <2>1. events[i].uid = Head(sub.todo) \/ \E l \in DOMAIN Tail(sub.todo) : Tail(sub.todo)[l] = events[i].uid
    BY <1>0, <1>2, TailHas
  <2> QED
    BY <1>0, <1>1, <2>1 DEF Pending
<1>3. CASE \/ events[i].uid \in sub.got \/ \E k \in DOMAIN bus : bus[k] = EventOf(i)
           \/ \E w \in writers : w.seq = i /\ w.entry = events[i]
  BY <1>0, <1>1, <1>3 DEF Pending
<1> QED
  BY <1>2, <1>3 DEF Pending

LEMMA ReceivePending ==
    ASSUME Numbered, RowsTyped, SubTyped, Receive, ~missed', NEW i \in DOMAIN events, Wanted(i), Pending(i)
    PROVE  Pending(i)'
<1>0. /\ events' = events /\ writers' = writers /\ EventOf(i)' = EventOf(i)
      /\ sub.todo = <<>> /\ bus # <<>> /\ bus \in Seq(Event) /\ bus' = Tail(bus)
  BY DEF Receive, SubStep, tables, EventOf, SubTyped
<1>1. PICK found :
             /\ found = Found(sub.filter, Head(bus).seq)
             /\ \/ /\ missed' = missed
                   /\ sub' = [sub EXCEPT !.todo = IF Prefilter(sub.filter, Head(bus)) THEN RowsOf(found) ELSE <<>>]
                \/ missed' = TRUE /\ sub' = sub
  BY ReceiveKinds
<1>2. sub'.got = sub.got /\ sub'.todo = IF Prefilter(sub.filter, Head(bus)) THEN RowsOf(found) ELSE <<>>
  BY <1>1, SubFields
<1>3. ASSUME NEW k \in DOMAIN bus, bus[k] = EventOf(i) PROVE Pending(i)'
  <2>1. CASE Head(bus) = EventOf(i)
    <3>1. Head(bus).seq = i /\ Prefilter(sub.filter, Head(bus))
      BY <2>1 DEF EventOf, Prefilter, Wanted, Matches
    <3>2. ~IsExpired(i)
      BY DEF RowsTyped, IsExpired, Wanted
    <3>3. i = Max(DOMAIN events) /\ Matches(sub.filter, i)
      BY DEF Wanted
    <3>4. \E l \in DOMAIN RowsOf(found) : RowsOf(found)[l] = events[i].uid
      <4>1. found = Found(sub.filter, Head(bus).seq)
        BY <1>1
      <4> QED
        BY <3>1, <3>2, <3>3, <4>1, ReceiveReads
    <3>5. sub'.todo = RowsOf(found)
      BY <1>2, <3>1
    <3> QED
      BY <1>0, <3>4, <3>5 DEF Pending
  <2>2. CASE \E l \in DOMAIN Tail(bus) : Tail(bus)[l] = bus[k]
    BY <1>0, <1>3, <2>2 DEF Pending
  <2> QED
    BY <1>0, <1>3, <2>1, <2>2, TailHas
<1>4. CASE \/ events[i].uid \in sub.got \/ \E w \in writers : w.seq = i /\ w.entry = events[i]
  BY <1>0, <1>2, <1>4 DEF Pending
<1> QED
  BY <1>0, <1>3, <1>4 DEF Pending

LEMMA NothingBetweenStep ==
    ASSUME AuditInv, MirrorInv, SubInv, [Next]_vars
    PROVE  NothingBetween'
<1>0. SubTyped /\ RowsTyped /\ NothingBetween /\ Numbered
  BY DEF SubInv, AuditInv, IndexInv
<1>1. Numbered'
  BY RowsStay DEF IndexInv
<1> SUFFICES ASSUME sub'.pc \in {"sending", "live"}, ~missed', ReplayLimit > 0,
                    NEW i \in DOMAIN events', Wanted(i)'
             PROVE  Pending(i)'
  BY DEF NothingBetween
<1>2. ASSUME UNCHANGED <<tables, committed, missed>>, sub'.filter = sub.filter,
             sub.pc \in {"sending", "live"}
      PROVE  i \in DOMAIN events /\ Wanted(i) /\ Pending(i)
  <2>1. events' = events /\ i \in DOMAIN events /\ i = Max(DOMAIN events)
    BY <1>2 DEF tables, Wanted
  <2>2. /\ events'[i] = events[i] /\ DOMAIN committed \subseteq DOMAIN committed'
        /\ orphaned \subseteq orphaned'
    BY <1>2, <2>1, OrphansStay
  <2>3. Wanted(i)
    BY <1>0, <1>2, <2>1, <2>2, WantedBefore
  <2> QED
    BY <1>0, <1>2, <2>1, <2>3 DEF NothingBetween
<1>3. CASE Elsewhere
  <2>1. UNCHANGED <<tables, committed, bus, missed, sub>> /\ \A w \in writers : w.seq # None => w \in writers'
    BY <1>3 DEF Elsewhere
  <2>2. i \in DOMAIN events /\ Wanted(i) /\ Pending(i)
    BY <1>2, <2>1
  <2>3. i # None
    BY <1>0, <2>2, JournalAssumption DEF Numbered
  <2>4. events' = events /\ EventOf(i)' = EventOf(i)
    BY <2>1 DEF tables, EventOf
  <2> QED
    BY <2>1, <2>2, <2>3, <2>4 DEF Pending
<1>4. ASSUME NEW e \in Entry, Appended(e) PROVE Pending(i)'
  BY <1>0, <1>1, <1>4, AppendPending
<1>5. CASE Sweep
  <2>1. UNCHANGED <<sub, missed>>
    BY <1>5 DEF Sweep, auditVars, busVars
  <2> QED
    BY <1>0, <1>1, <1>5, <2>1, SweepPending
<1>6. ASSUME NEW w \in writers, Announce(w) PROVE Pending(i)'
  <2>1. UNCHANGED <<tables, committed, missed, sub>>
    BY <1>6 DEF Announce, Emit
  <2>2. i \in DOMAIN events /\ Pending(i) /\ sub.pc # "off"
    BY <1>2, <2>1
  <2> QED
    BY <1>0, <1>6, <2>2, AnnouncePending
<1>12. ASSUME NEW e, Orphaned(e) PROVE Pending(i)'
  <2>1. /\ UNCHANGED <<tables, committed, bus, missed, sub>> /\ writers' = {w \in writers : w.entry # e}
        /\ e.uid \in orphaned'
    BY <1>12 DEF Orphaned
  <2>2. i \in DOMAIN events /\ Pending(i)
    BY <1>2, <2>1
  <2>3. events' = events /\ EventOf(i)' = EventOf(i)
    BY <2>1 DEF tables, EventOf
  <2>4. events[i].uid # e.uid
    BY <2>1, <2>3 DEF Wanted
  <2> QED
    BY <2>1, <2>2, <2>3, <2>4 DEF Pending
<1>7. CASE Lag \/ Resubscribed
  BY <1>7 DEF Lag, Resubscribed
<1>8. CASE Replay
  BY <1>0, <1>8, ReplayPending
<1>9. CASE GoLive
  <2>1. /\ UNCHANGED <<tables, committed, missed, bus, writers>> /\ sub.pc = "sending"
        /\ sub' = [sub EXCEPT !.pc = "live"]
    BY <1>9 DEF GoLive, busVars, SubStep
  <2>2. sub'.filter = sub.filter /\ sub'.todo = sub.todo /\ sub'.got = sub.got
    BY <1>0, <2>1, SubFields
  <2>3. Pending(i)
    BY <1>2, <2>1, <2>2
  <2>4. events' = events /\ EventOf(i)' = EventOf(i)
    BY <2>1 DEF tables, EventOf
  <2> QED
    BY <2>1, <2>2, <2>3, <2>4 DEF Pending
<1>10. CASE Send
  <2>1. /\ UNCHANGED <<tables, committed, missed>>
        /\ sub' = [sub EXCEPT !.todo = Tail(@), !.got = @ \cup {Head(sub.todo)}]
    BY <1>10 DEF Send, busVars, SubStep
  <2>2. sub'.filter = sub.filter /\ sub'.pc = sub.pc
    BY <1>0, <2>1, SubFields
  <2>3. i \in DOMAIN events /\ Pending(i)
    BY <1>2, <2>1, <2>2
  <2> QED
    BY <1>0, <1>10, <2>3, SendPending
<1>11. CASE Receive
  <2>0. UNCHANGED <<tables, committed>>
    BY <1>11 DEF Receive, SubStep
  <2>1. PICK found : \/ /\ missed' = missed
                        /\ sub' = [sub EXCEPT !.todo = IF Prefilter(sub.filter, Head(bus)) THEN RowsOf(found) ELSE <<>>]
                     \/ missed' = TRUE /\ sub' = sub
    BY <1>11, ReceiveKinds
  <2>2. sub'.filter = sub.filter /\ sub'.pc = sub.pc /\ missed' = missed
    BY <1>0, <2>1, SubFields
  <2>3. i \in DOMAIN events /\ Wanted(i) /\ Pending(i)
    BY <1>2, <2>0, <2>2
  <2> QED
    BY <1>0, <1>11, <2>3, ReceivePending
<1> QED
  BY <1>0, <1>3, <1>4, <1>5, <1>6, <1>7, <1>8, <1>9, <1>10, <1>11, <1>12, SubKinds

LEMMA InitSub == Init => SubInv
<1> SUFFICES ASSUME Init PROVE SubInv
  OBVIOUS
<1>1. AnyRow \in Filter
  BY DEF AnyRow, Filter
<1>2. <<>> \in Seq(Nat) /\ <<>> \in Seq(Event)
  OBVIOUS
<1>3. SubTyped
  BY <1>1, <1>2 DEF Init, NoSub, SubTyped
<1>4. RowsTyped /\ NothingBetween
  BY DEF Init, EmptyTables, NoSub, RowsTyped, NothingBetween
<1> QED
  BY <1>3, <1>4 DEF SubInv

LEMMA SubInvariant == Spec => []SubInv
<1>1. ASSUME AuditInv, MirrorInv, SubInv, [Next]_vars PROVE SubInv'
  BY <1>1, RowsStep, SubTypedStep, NothingBetweenStep DEF SubInv
<1> QED
  BY <1>1, InitSub, AuditInvariant, MirrorInvariant, PTL DEF Spec

\* A subscription that did not lag and has nothing left to do has passed on the
\* newest row, if that one was announced: nothing falls between its replay and its
\* live phase, whatever is appended, swept or announced in between.
THEOREM SubscriptionCatchesUp == Spec => []CaughtUp
<1>1. ASSUME AuditInv, SubInv PROVE CaughtUp
  <2> SUFFICES ASSUME sub.pc = "live", sub.todo = <<>>, bus = <<>>, ~missed, ReplayLimit > 0,
                      \A w \in writers : w.seq = None, NEW i \in DOMAIN events, Wanted(i)
               PROVE  events[i].uid \in sub.got
    BY DEF CaughtUp
  <2>1. Pending(i)
    BY <1>1 DEF SubInv, NothingBetween
  <2>2. i # None
    BY <1>1, JournalAssumption DEF AuditInv, IndexInv, Numbered
  <2>3. DOMAIN bus = {} /\ DOMAIN sub.todo = {}
    OBVIOUS
  <2> QED
    BY <2>1, <2>2, <2>3 DEF Pending
<1> QED
  BY <1>1, SubInvariant, AuditInvariant, PTL

=============================================================================
