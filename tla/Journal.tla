------------------------------ MODULE Journal ------------------------------
(***************************************************************************)
(* The redb journal (crates/konf-runtime/src/journal/redb.rs): the table   *)
(* of events and its four multimap indexes, the two transactions that      *)
(* write them, and the read paths, some over an index and some over a      *)
(* scan of the table.  Module Audit has the processes that use it.         *)
(*                                                                         *)
(* An entry's payload is reduced to its identity, uid.                     *)
(***************************************************************************)
EXTENDS Integers, Sequences, FiniteSets, FiniteSetsExt, SequencesExt

CONSTANTS
    RunIds,    \* run ids that rows may carry
    Sessions,  \* session ids
    Spaces,    \* namespaces
    Keys,      \* scoped idempotency keys ("tool:key")
    None,      \* Option::None
    MaxTime    \* bound on the clock

ASSUME JournalAssumption ==
    /\ MaxTime \in Nat
    /\ None \notin RunIds \cup Keys \cup Sessions \cup Spaces \cup Nat

VARIABLES
    events,     \* EVENTS: sequence number -> stored entry
    by_run,     \* BY_RUN, a multimap: <<run, sequence number>>
    by_session, \* BY_SESSION
    by_expiry,  \* BY_EXPIRY
    by_idem,    \* BY_IDEMPOTENCY
    now         \* Utc::now()

tables == <<events, by_run, by_session, by_expiry, by_idem>>

Times == 0 .. MaxTime

\* from_database: the tables of a new database.
EmptyTables ==
    /\ events = <<>>
    /\ by_run = {} /\ by_session = {} /\ by_expiry = {} /\ by_idem = {}

-----------------------------------------------------------------------------
(* Writing.                                                                *)

\* One more than the last key; not one more than the last key ever used.
NextId == IF DOMAIN events = {} THEN 1 ELSE Max(DOMAIN events) + 1

\* The index row of an optional field.
IndexRow(value, id) == IF value = None THEN {} ELSE {<<value, id>>}

\* Mutant: an entry without a run is not indexed by its key.
AppendRow_KeyNeedsRun(e) ==
    /\ events' = [i \in DOMAIN events \cup {NextId} |-> IF i = NextId THEN e ELSE events[i]]
    /\ by_run' = by_run \cup IndexRow(e.run, NextId)
    /\ by_session' = by_session \cup {<<e.session, NextId>>}
    /\ by_expiry' = by_expiry \cup IndexRow(e.valid_to, NextId)
    /\ by_idem' = by_idem \cup IndexRow(IF e.run = None THEN None ELSE e.key, NextId)

\* append: the row and its index rows in one transaction.
AppendRow(e) ==
    /\ events' = [i \in DOMAIN events \cup {NextId} |-> IF i = NextId THEN e ELSE events[i]]
    /\ by_run' = by_run \cup IndexRow(e.run, NextId)
    /\ by_session' = by_session \cup {<<e.session, NextId>>}
    /\ by_expiry' = by_expiry \cup IndexRow(e.valid_to, NextId)
    /\ by_idem' = by_idem \cup IndexRow(e.key, NextId)

\* The sweep takes what expires at this very instant, too; IsExpired does not.
Swept == {i \in DOMAIN events : events[i].valid_to # None /\ events[i].valid_to <= now}

\* Mutant: the sweep removes no BY_SESSION row.
DeleteExpired_KeepsSession ==
    /\ events' = [i \in DOMAIN events \ Swept |-> events[i]]
    /\ by_run' = by_run \ {<<events[i].run, i>> : i \in Swept}
    /\ by_expiry' = by_expiry \ {<<events[i].valid_to, i>> : i \in Swept}
    /\ by_idem' = by_idem \ {<<events[i].key, i>> : i \in Swept}
    /\ UNCHANGED by_session

\* delete_expired: collect, then delete by the collected keys, in one transaction.
DeleteExpired ==
    /\ events' = [i \in DOMAIN events \ Swept |-> events[i]]
    /\ by_run' = by_run \ {<<events[i].run, i>> : i \in Swept}
    /\ by_session' = by_session \ {<<events[i].session, i>> : i \in Swept}
    /\ by_expiry' = by_expiry \ {<<events[i].valid_to, i>> : i \in Swept}
    /\ by_idem' = by_idem \ {<<events[i].key, i>> : i \in Swept}

-----------------------------------------------------------------------------
(* Reading.  A row list is a sequence of sequence numbers.                 *)

IsExpired(i) == events[i].valid_to # None /\ events[i].valid_to < now

OldestFirst(ids) ==
    CHOOSE s \in [1 .. Cardinality(ids) -> ids] : \A i, j \in DOMAIN s : i < j => s[i] < s[j]
NewestFirst(ids) ==
    CHOOSE s \in [1 .. Cardinality(ids) -> ids] : \A i, j \in DOMAIN s : i < j => s[i] > s[j]
Take(rows, limit) == SubSeq(rows, 1, IF limit < Len(rows) THEN limit ELSE Len(rows))

\* query_by_run: the index, then the rows that are there and not expired.
QueryByRun(r) ==
    OldestFirst({i \in DOMAIN events : <<r, i>> \in by_run /\ ~IsExpired(i)})

\* Mutant: the limit is applied before expired rows are dropped.
QueryBySession_LimitFirst(s, limit) ==
    NewestFirst({i \in ToSet(Take(NewestFirst({j \in DOMAIN events : <<s, j>> \in by_session}), limit)) :
                    ~IsExpired(i)})

\* query_by_session: expired rows do not use up the limit.
QueryBySession(s, limit) ==
    Take(NewestFirst({i \in DOMAIN events : <<s, i>> \in by_session /\ ~IsExpired(i)}), limit)

\* recent: here they do, the limit comes first.
Recent(limit) ==
    NewestFirst({i \in ToSet(Take(NewestFirst(DOMAIN events), limit)) : ~IsExpired(i)})

\* JournalFilter; trace_id is part of the payload and left out.
Filter == [namespace : Spaces \cup {None}, type : {"interaction", "lifecycle", None},
           run : RunIds \cup {None}, session : Sessions \cup {None},
           include_expired : BOOLEAN]

AnyRow == [namespace |-> None, type |-> None, run |-> None, session |-> None,
           include_expired |-> FALSE]

\* JournalFilter::matches
Matches(f, i) ==
    /\ f.namespace # None => events[i].namespace = f.namespace
    /\ f.type # None => events[i].type = f.type
    /\ f.run # None => events[i].run = f.run
    /\ f.session # None => events[i].session = f.session
    /\ ~f.include_expired => ~IsExpired(i)

\* query: a scan, newest first.
Query(f, limit) == Take(NewestFirst({i \in DOMAIN events : Matches(f, i)}), limit)

\* aggregate(Count): another scan.
Count(f) == Cardinality({i \in DOMAIN events : Matches(f, i)})

\* get_by_idempotency_key: the newest row of the key, unless that one has expired.
GetByIdempotencyKey(k) ==
    LET ids == {i \in DOMAIN events : <<k, i>> \in by_idem} IN
    IF ids = {} THEN None ELSE IF IsExpired(Max(ids)) THEN None ELSE Max(ids)

-----------------------------------------------------------------------------

\* Each index holds exactly the rows of the table, under the value they carry: what the
\* transactions of append and delete_expired keep, whatever they interleave with.
IndexesAgree ==
    /\ by_run = {<<events[i].run, i>> : i \in {j \in DOMAIN events : events[j].run # None}}
    /\ by_session = {<<events[i].session, i>> : i \in DOMAIN events}
    /\ by_expiry = {<<events[i].valid_to, i>> : i \in {j \in DOMAIN events : events[j].valid_to # None}}
    /\ by_idem = {<<events[i].key, i>> : i \in {j \in DOMAIN events : events[j].key # None}}

\* The read paths of redb.rs agree: what is read over an index is what a scan with the
\* corresponding filter finds, in the order the path promises, for every limit; counting
\* agrees with listing; and a key is answered with a live row that carries it.
ReadPathsAgree ==
    LET all == Cardinality(DOMAIN events) IN
    /\ \A r \in RunIds :
          QueryByRun(r) = Reverse(Query([AnyRow EXCEPT !.run = r], all))
    /\ \A s \in Sessions : \A n \in 0 .. all :
          QueryBySession(s, n) = Query([AnyRow EXCEPT !.session = s], n)
    /\ \A s \in Spaces :
          Count([AnyRow EXCEPT !.namespace = s]) = Len(Query([AnyRow EXCEPT !.namespace = s], all))
    /\ \A n \in 0 .. all : ToSet(Recent(n)) \subseteq ToSet(Query(AnyRow, n))
    /\ \A k \in Keys : LET i == GetByIdempotencyKey(k) IN
          i # None => events[i].key = k /\ ~IsExpired(i)
=============================================================================
