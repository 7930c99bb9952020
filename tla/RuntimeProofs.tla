--------------------------- MODULE RuntimeProofs ---------------------------
(***************************************************************************)
(* Proofs about Runtime: the process table, the zombie reconciliation and  *)
(* the refinement of RunRecord, run by run.                                *)
(*                                                                         *)
(* RuntimeInv is inductive.  Phases says how far the caller of start, the  *)
(* supervisor and the entry of one run can be apart; Requested that only a *)
(* fired token cancels an executor; RecordOnce that nobody has written a   *)
(* terminal row yet who may still write one; BootFacts what a boot finds.  *)
(***************************************************************************)
EXTENDS Runtime, TLAPS

TypeInv ==
    /\ boot \in {"scan", "append", "up"} /\ zombies \subseteq Runs
    /\ starter \in [Runs -> {"none", "insert", "journal", "left", "gone", "spawn", "returned"}]
    /\ table \in [Runs -> {"absent", "running"} \cup Terminal]
    /\ token \in [Runs -> BOOLEAN]
    /\ exec \in [Runs -> {"none", "working", "quoted"} \cup Terminal]
    /\ sup \in [Runs -> {"none", "wait", "emit", "journal", "end"}]
    /\ result \in [Runs -> {"none", "lost"} \cup Terminal]
    /\ stream \in [Runs -> {"none", "open", "dropped"}]
    /\ started \subseteq Runs
    /\ closed \in [Runs -> Seq(Terminal)]
    /\ used \subseteq Runs /\ died \subseteq used

\* Before the supervisor is spawned nothing else has begun; while it waits the
\* entry is there and Running; only then does it have a result.
Phases ==
    \A r \in Runs :
        /\ starter[r] \in {"none", "insert"} => table[r] = "absent"
        /\ starter[r] \in {"journal", "left", "gone", "spawn"} => table[r] = "running"
        /\ starter[r] # "returned" => sup[r] = "none" /\ exec[r] = "none"
        /\ sup[r] \in {"none", "wait"} => result[r] = "none"
        /\ sup[r] = "wait" => table[r] = "running" /\ exec[r] # "none"
        /\ sup[r] \in {"emit", "journal"} => result[r] # "none"
        /\ sup[r] = "journal" => result[r] # "lost"

\* Ids are used once, and by runs of this process unless the run died.
Ids ==
    \A r \in Runs :
        /\ starter[r] = "insert" => r \notin used
        /\ starter[r] \in {"journal", "left", "gone", "spawn", "returned"} => r \in used \ died
        /\ r \in refused => r \in used /\ starter[r] \in {"none", "returned"}
        /\ r \notin used => ~token[r] /\ closed[r] = <<>> /\ r \notin started

\* An executor ends as cancelled only if its token has fired.
Requested == \A r \in Runs : exec[r] = "cancelled" => token[r]

\* Whoever may still write a terminal row finds none.
RecordOnce ==
    \A r \in Runs :
        /\ closed[r] # <<>> => r \in died \/ sup[r] = "end"
        /\ r \in zombies => closed[r] = <<>> /\ r \in died

\* Until the boot is over every run is one of an earlier process, and those that
\* never ended are listed.
BootFacts ==
    /\ boot # "up" => used = died /\ \A r \in Runs : starter[r] = "none"
    /\ boot # "append" => zombies = {}
    /\ boot = "append" => \A r \in started \cap died : closed[r] # <<>> \/ r \in zombies

RuntimeInv ==
    /\ TypeInv
    /\ Phases /\ RunningIsWatched /\ CancelledIsStopped
    /\ Ids /\ Requested /\ RecordOnce
    /\ BootFacts /\ ZombieFree

-----------------------------------------------------------------------------
(* Steps.                                                                  *)

\* A journal with a row appended is not empty.
LEMMA AppendNotEmpty ==
    ASSUME NEW s \in Seq(Terminal), NEW x \in Terminal
    PROVE  Append(s, x) # <<>>
<1>1. Len(Append(s, x)) = Len(s) + 1 /\ Len(s) \in Nat
  OBVIOUS
<1> QED
  BY <1>1

\* Every step keeps the types.
LEMMA TypeStep ==
    ASSUME TypeInv, Phases, [Next]_vars
    PROVE  TypeInv'
<1> USE DEF TypeInv, Phases, Terminal, journal, history
<1>1. CASE ReconcileScan
  BY <1>1 DEF ReconcileScan
<1>2. ASSUME NEW r \in Runs, ReconcileAppend(r)
      PROVE  TypeInv'
  BY <1>2 DEF ReconcileAppend
<1>3. CASE BootDone
  BY <1>3 DEF BootDone
<1>4. CASE BootFails
  BY <1>4 DEF BootFails
<1>5. CASE CrashRestart
  BY <1>5 DEF CrashRestart
<1>6. ASSUME NEW r \in Runs, Validate(r)
      PROVE  TypeInv'
  BY <1>6 DEF Validate
<1>7. ASSUME NEW r \in Runs, Insert(r)
      PROVE  TypeInv'
  BY <1>7 DEF Insert
<1>8. ASSUME NEW r \in Runs, JournalStarted(r)
      PROVE  TypeInv'
  BY <1>8 DEF JournalStarted, AfterJournal
<1>9. ASSUME NEW r \in Runs, JournalStartedFails(r)
      PROVE  TypeInv'
  BY <1>9 DEF JournalStartedFails, AfterJournal
<1>10. ASSUME NEW r \in Runs, Spawn(r)
      PROVE  TypeInv'
  BY <1>10 DEF Spawn, StreamOf
<1>11. ASSUME NEW r \in Runs, SpawnDenied(r)
      PROVE  TypeInv'
  BY <1>11, ZenonT(30) DEF SpawnDenied
<1>12. ASSUME NEW r \in Runs, ExecEnd(r)
      PROVE  TypeInv'
  BY <1>12 DEF ExecEnd
<1>13. ASSUME NEW r \in Runs, ExecCancelled(r)
      PROVE  TypeInv'
  BY <1>13 DEF ExecCancelled
<1>14. ASSUME NEW r \in Runs, RunReturns(r)
      PROVE  TypeInv'
  BY <1>14 DEF RunReturns, Conclude, PlainStatus
<1>15. ASSUME NEW r \in Runs, RunTimesOut(r)
      PROVE  TypeInv'
  BY <1>15 DEF RunTimesOut, Conclude
<1>16. ASSUME NEW r \in Runs, StreamEnds(r)
      PROVE  TypeInv'
  BY <1>16 DEF StreamEnds, Conclude, StreamStatus
<1>17. ASSUME NEW r \in Runs, StreamBreaks(r)
      PROVE  TypeInv'
  BY <1>17 DEF StreamBreaks, Conclude
<1>18. ASSUME NEW r \in Runs, Announce(r)
      PROVE  TypeInv'
  BY <1>18 DEF Announce
<1>19. ASSUME NEW r \in Runs, JournalEnded(r)
      PROVE  TypeInv'
  BY <1>19 DEF JournalEnded
<1>20. ASSUME NEW r \in Runs, JournalEndedFails(r)
      PROVE  TypeInv'
  BY <1>20 DEF JournalEndedFails
<1>21. ASSUME NEW r \in Runs, DropStream(r)
      PROVE  TypeInv'
  BY <1>21 DEF DropStream
<1>22. ASSUME NEW r \in Runs, CancelCheck(r)
      PROVE  TypeInv'
  BY <1>22 DEF CancelCheck
<1>23. ASSUME NEW r \in Runs, CancelFire(r)
      PROVE  TypeInv'
  BY <1>23 DEF CancelFire
<1>24. ASSUME NEW r \in Runs, Gc(r)
      PROVE  TypeInv'
  BY <1>24 DEF Gc
<1>25. CASE UNCHANGED vars
  BY <1>25 DEF vars
<1>26. ASSUME NEW r \in Runs, StarterDropped(r)
      PROVE  TypeInv'
  BY <1>26 DEF StarterDropped
<1> HIDE DEF TypeInv, Phases, Terminal, journal, history
<1> QED
  BY <1>1, <1>2, <1>3, <1>4, <1>5, <1>6, <1>7, <1>8, <1>9, <1>10, <1>11, <1>12, <1>13, <1>14,
     <1>15, <1>16, <1>17, <1>18, <1>19, <1>20, <1>21, <1>22, <1>23, <1>24, <1>25, <1>26
  DEF Next, BootStep, StarterStep, SupStep

\* Caller, supervisor and entry of a run move on together.
LEMMA PhaseStep ==
    ASSUME TypeInv, Phases, [Next]_vars
    PROVE  Phases'
<1> USE DEF TypeInv, Phases, Terminal, journal, history
<1>1. CASE ReconcileScan
  BY <1>1 DEF ReconcileScan
<1>2. ASSUME NEW r \in Runs, ReconcileAppend(r)
      PROVE  Phases'
  BY <1>2 DEF ReconcileAppend
<1>3. CASE BootDone
  BY <1>3 DEF BootDone
<1>4. CASE BootFails
  BY <1>4 DEF BootFails
<1>5. CASE CrashRestart
  BY <1>5 DEF CrashRestart
<1>6. ASSUME NEW r \in Runs, Validate(r)
      PROVE  Phases'
  BY <1>6 DEF Validate
<1>7. ASSUME NEW r \in Runs, Insert(r)
      PROVE  Phases'
  BY <1>7 DEF Insert
<1>8. ASSUME NEW r \in Runs, JournalStarted(r)
      PROVE  Phases'
  BY <1>8 DEF JournalStarted, AfterJournal
<1>9. ASSUME NEW r \in Runs, JournalStartedFails(r)
      PROVE  Phases'
  BY <1>9 DEF JournalStartedFails, AfterJournal
<1>10. ASSUME NEW r \in Runs, Spawn(r)
      PROVE  Phases'
  BY <1>10 DEF Spawn, StreamOf
<1>11. ASSUME NEW r \in Runs, SpawnDenied(r)
      PROVE  Phases'
  BY <1>11 DEF SpawnDenied
<1>12. ASSUME NEW r \in Runs, ExecEnd(r)
      PROVE  Phases'
  BY <1>12 DEF ExecEnd
<1>13. ASSUME NEW r \in Runs, ExecCancelled(r)
      PROVE  Phases'
  BY <1>13 DEF ExecCancelled
<1>14. ASSUME NEW r \in Runs, RunReturns(r)
      PROVE  Phases'
  BY <1>14 DEF RunReturns, Conclude, PlainStatus
<1>15. ASSUME NEW r \in Runs, RunTimesOut(r)
      PROVE  Phases'
  BY <1>15 DEF RunTimesOut, Conclude
<1>16. ASSUME NEW r \in Runs, StreamEnds(r)
      PROVE  Phases'
  BY <1>16 DEF StreamEnds, Conclude, StreamStatus
<1>17. ASSUME NEW r \in Runs, StreamBreaks(r)
      PROVE  Phases'
  BY <1>17 DEF StreamBreaks, Conclude
<1>18. ASSUME NEW r \in Runs, Announce(r)
      PROVE  Phases'
  BY <1>18 DEF Announce
<1>19. ASSUME NEW r \in Runs, JournalEnded(r)
      PROVE  Phases'
  BY <1>19 DEF JournalEnded
<1>20. ASSUME NEW r \in Runs, JournalEndedFails(r)
      PROVE  Phases'
  BY <1>20 DEF JournalEndedFails
<1>21. ASSUME NEW r \in Runs, DropStream(r)
      PROVE  Phases'
  BY <1>21 DEF DropStream
<1>22. ASSUME NEW r \in Runs, CancelCheck(r)
      PROVE  Phases'
  BY <1>22 DEF CancelCheck
<1>23. ASSUME NEW r \in Runs, CancelFire(r)
      PROVE  Phases'
  BY <1>23 DEF CancelFire
<1>24. ASSUME NEW r \in Runs, Gc(r)
      PROVE  Phases'
  BY <1>24 DEF Gc
<1>25. CASE UNCHANGED vars
  BY <1>25 DEF vars
<1>26. ASSUME NEW r \in Runs, StarterDropped(r)
      PROVE  Phases'
  BY <1>26 DEF StarterDropped
<1> HIDE DEF TypeInv, Phases, Terminal, journal, history
<1> QED
  BY <1>1, <1>2, <1>3, <1>4, <1>5, <1>6, <1>7, <1>8, <1>9, <1>10, <1>11, <1>12, <1>13, <1>14,
     <1>15, <1>16, <1>17, <1>18, <1>19, <1>20, <1>21, <1>22, <1>23, <1>24, <1>25, <1>26
  DEF Next, BootStep, StarterStep, SupStep

\* A Running entry is watched, a cancelled run has no executor.
LEMMA TableStep ==
    ASSUME TypeInv, Phases, Ids, RunningIsWatched, CancelledIsStopped, [Next]_vars
    PROVE  RunningIsWatched' /\ CancelledIsStopped'
<1> USE DEF TypeInv, Phases, Ids, RunningIsWatched, CancelledIsStopped, LeftBehind, Dropped,
            Terminal, journal, history
<1>1. CASE ReconcileScan
  BY <1>1 DEF ReconcileScan
<1>2. ASSUME NEW r \in Runs, ReconcileAppend(r)
      PROVE  RunningIsWatched' /\ CancelledIsStopped'
  BY <1>2 DEF ReconcileAppend
<1>3. CASE BootDone
  BY <1>3 DEF BootDone
<1>4. CASE BootFails
  BY <1>4 DEF BootFails
<1>5. CASE CrashRestart
  BY <1>5 DEF CrashRestart
<1>6. ASSUME NEW r \in Runs, Validate(r)
      PROVE  RunningIsWatched' /\ CancelledIsStopped'
  BY <1>6 DEF Validate
<1>7. ASSUME NEW r \in Runs, Insert(r)
      PROVE  RunningIsWatched' /\ CancelledIsStopped'
  BY <1>7 DEF Insert
<1>8. ASSUME NEW r \in Runs, JournalStarted(r)
      PROVE  RunningIsWatched' /\ CancelledIsStopped'
  BY <1>8 DEF JournalStarted, AfterJournal
<1>9. ASSUME NEW r \in Runs, JournalStartedFails(r)
      PROVE  RunningIsWatched' /\ CancelledIsStopped'
  BY <1>9 DEF JournalStartedFails, AfterJournal
<1>10. ASSUME NEW r \in Runs, Spawn(r)
      PROVE  RunningIsWatched' /\ CancelledIsStopped'
  BY <1>10 DEF Spawn, StreamOf
<1>11. ASSUME NEW r \in Runs, SpawnDenied(r)
      PROVE  RunningIsWatched' /\ CancelledIsStopped'
  BY <1>11 DEF SpawnDenied
<1>12. ASSUME NEW r \in Runs, ExecEnd(r)
      PROVE  RunningIsWatched' /\ CancelledIsStopped'
  BY <1>12 DEF ExecEnd
<1>13. ASSUME NEW r \in Runs, ExecCancelled(r)
      PROVE  RunningIsWatched' /\ CancelledIsStopped'
  BY <1>13 DEF ExecCancelled
<1>14. ASSUME NEW r \in Runs, RunReturns(r)
      PROVE  RunningIsWatched' /\ CancelledIsStopped'
  BY <1>14 DEF RunReturns, Conclude, PlainStatus
<1>15. ASSUME NEW r \in Runs, RunTimesOut(r)
      PROVE  RunningIsWatched' /\ CancelledIsStopped'
  BY <1>15 DEF RunTimesOut, Conclude
<1>16. ASSUME NEW r \in Runs, StreamEnds(r)
      PROVE  RunningIsWatched' /\ CancelledIsStopped'
  BY <1>16, SMTT(30) DEF StreamEnds, Conclude, StreamStatus
<1>17. ASSUME NEW r \in Runs, StreamBreaks(r)
      PROVE  RunningIsWatched' /\ CancelledIsStopped'
  BY <1>17 DEF StreamBreaks, Conclude
<1>18. ASSUME NEW r \in Runs, Announce(r)
      PROVE  RunningIsWatched' /\ CancelledIsStopped'
  BY <1>18 DEF Announce
<1>19. ASSUME NEW r \in Runs, JournalEnded(r)
      PROVE  RunningIsWatched' /\ CancelledIsStopped'
  BY <1>19 DEF JournalEnded
<1>20. ASSUME NEW r \in Runs, JournalEndedFails(r)
      PROVE  RunningIsWatched' /\ CancelledIsStopped'
  BY <1>20 DEF JournalEndedFails
<1>21. ASSUME NEW r \in Runs, DropStream(r)
      PROVE  RunningIsWatched' /\ CancelledIsStopped'
  BY <1>21 DEF DropStream
<1>22. ASSUME NEW r \in Runs, CancelCheck(r)
      PROVE  RunningIsWatched' /\ CancelledIsStopped'
  BY <1>22 DEF CancelCheck
<1>23. ASSUME NEW r \in Runs, CancelFire(r)
      PROVE  RunningIsWatched' /\ CancelledIsStopped'
  BY <1>23 DEF CancelFire
<1>24. ASSUME NEW r \in Runs, Gc(r)
      PROVE  RunningIsWatched' /\ CancelledIsStopped'
  BY <1>24 DEF Gc
<1>25. CASE UNCHANGED vars
  BY <1>25 DEF vars
<1>26. ASSUME NEW r \in Runs, StarterDropped(r)
      PROVE  RunningIsWatched' /\ CancelledIsStopped'
  BY <1>26 DEF StarterDropped
<1> HIDE DEF TypeInv, Phases, Ids, RunningIsWatched, CancelledIsStopped, LeftBehind, Dropped,
             Terminal, journal, history
<1> QED
  BY <1>1, <1>2, <1>3, <1>4, <1>5, <1>6, <1>7, <1>8, <1>9, <1>10, <1>11, <1>12, <1>13, <1>14,
     <1>15, <1>16, <1>17, <1>18, <1>19, <1>20, <1>21, <1>22, <1>23, <1>24, <1>25, <1>26
  DEF Next, BootStep, StarterStep, SupStep

\* An id is used once, and its rows are written after it was used.
LEMMA IdStep ==
    ASSUME TypeInv, Phases, Ids, RecordOnce, BootFacts, [Next]_vars
    PROVE  Ids'
<1> USE DEF TypeInv, Phases, Ids, RecordOnce, BootFacts, Terminal, journal, history
<1>1. CASE ReconcileScan
  BY <1>1 DEF ReconcileScan
<1>2. ASSUME NEW r \in Runs, ReconcileAppend(r)
      PROVE  Ids'
  BY <1>2 DEF ReconcileAppend
<1>3. CASE BootDone
  BY <1>3 DEF BootDone
<1>4. CASE BootFails
  BY <1>4 DEF BootFails
<1>5. CASE CrashRestart
  BY <1>5 DEF CrashRestart
<1>6. ASSUME NEW r \in Runs, Validate(r)
      PROVE  Ids'
  BY <1>6 DEF Validate
<1>7. ASSUME NEW r \in Runs, Insert(r)
      PROVE  Ids'
  BY <1>7 DEF Insert
<1>8. ASSUME NEW r \in Runs, JournalStarted(r)
      PROVE  Ids'
  BY <1>8 DEF JournalStarted, AfterJournal
<1>9. ASSUME NEW r \in Runs, JournalStartedFails(r)
      PROVE  Ids'
  BY <1>9 DEF JournalStartedFails, AfterJournal
<1>10. ASSUME NEW r \in Runs, Spawn(r)
      PROVE  Ids'
  BY <1>10 DEF Spawn, StreamOf
<1>11. ASSUME NEW r \in Runs, SpawnDenied(r)
      PROVE  Ids'
  BY <1>11 DEF SpawnDenied
<1>12. ASSUME NEW r \in Runs, ExecEnd(r)
      PROVE  Ids'
  BY <1>12 DEF ExecEnd
<1>13. ASSUME NEW r \in Runs, ExecCancelled(r)
      PROVE  Ids'
  BY <1>13 DEF ExecCancelled
<1>14. ASSUME NEW r \in Runs, RunReturns(r)
      PROVE  Ids'
  BY <1>14 DEF RunReturns, Conclude, PlainStatus
<1>15. ASSUME NEW r \in Runs, RunTimesOut(r)
      PROVE  Ids'
  BY <1>15 DEF RunTimesOut, Conclude
<1>16. ASSUME NEW r \in Runs, StreamEnds(r)
      PROVE  Ids'
  BY <1>16 DEF StreamEnds, Conclude, StreamStatus
<1>17. ASSUME NEW r \in Runs, StreamBreaks(r)
      PROVE  Ids'
  BY <1>17 DEF StreamBreaks, Conclude
<1>18. ASSUME NEW r \in Runs, Announce(r)
      PROVE  Ids'
  BY <1>18 DEF Announce
<1>19. ASSUME NEW r \in Runs, JournalEnded(r)
      PROVE  Ids'
  BY <1>19 DEF JournalEnded
<1>20. ASSUME NEW r \in Runs, JournalEndedFails(r)
      PROVE  Ids'
  BY <1>20 DEF JournalEndedFails
<1>21. ASSUME NEW r \in Runs, DropStream(r)
      PROVE  Ids'
  BY <1>21 DEF DropStream
<1>22. ASSUME NEW r \in Runs, CancelCheck(r)
      PROVE  Ids'
  BY <1>22 DEF CancelCheck
<1>23. ASSUME NEW r \in Runs, CancelFire(r)
      PROVE  Ids'
  BY <1>23 DEF CancelFire
<1>24. ASSUME NEW r \in Runs, Gc(r)
      PROVE  Ids'
  BY <1>24 DEF Gc
<1>25. CASE UNCHANGED vars
  BY <1>25 DEF vars
<1>26. ASSUME NEW r \in Runs, StarterDropped(r)
      PROVE  Ids'
  BY <1>26 DEF StarterDropped
<1> HIDE DEF TypeInv, Phases, Ids, RecordOnce, BootFacts, Terminal, journal, history
<1> QED
  BY <1>1, <1>2, <1>3, <1>4, <1>5, <1>6, <1>7, <1>8, <1>9, <1>10, <1>11, <1>12, <1>13, <1>14,
     <1>15, <1>16, <1>17, <1>18, <1>19, <1>20, <1>21, <1>22, <1>23, <1>24, <1>25, <1>26
  DEF Next, BootStep, StarterStep, SupStep

\* A token that has fired stays fired.
LEMMA RequestStep ==
    ASSUME TypeInv, Phases, Requested, [Next]_vars
    PROVE  Requested'
<1> USE DEF TypeInv, Phases, Requested, Terminal, journal, history
<1>1. CASE ReconcileScan
  BY <1>1 DEF ReconcileScan
<1>2. ASSUME NEW r \in Runs, ReconcileAppend(r)
      PROVE  Requested'
  BY <1>2 DEF ReconcileAppend
<1>3. CASE BootDone
  BY <1>3 DEF BootDone
<1>4. CASE BootFails
  BY <1>4 DEF BootFails
<1>5. CASE CrashRestart
  BY <1>5 DEF CrashRestart
<1>6. ASSUME NEW r \in Runs, Validate(r)
      PROVE  Requested'
  BY <1>6 DEF Validate
<1>7. ASSUME NEW r \in Runs, Insert(r)
      PROVE  Requested'
  BY <1>7 DEF Insert
<1>8. ASSUME NEW r \in Runs, JournalStarted(r)
      PROVE  Requested'
  BY <1>8 DEF JournalStarted, AfterJournal
<1>9. ASSUME NEW r \in Runs, JournalStartedFails(r)
      PROVE  Requested'
  BY <1>9 DEF JournalStartedFails, AfterJournal
<1>10. ASSUME NEW r \in Runs, Spawn(r)
      PROVE  Requested'
  BY <1>10 DEF Spawn, StreamOf
<1>11. ASSUME NEW r \in Runs, SpawnDenied(r)
      PROVE  Requested'
  BY <1>11 DEF SpawnDenied
<1>12. ASSUME NEW r \in Runs, ExecEnd(r)
      PROVE  Requested'
  BY <1>12 DEF ExecEnd
<1>13. ASSUME NEW r \in Runs, ExecCancelled(r)
      PROVE  Requested'
  BY <1>13 DEF ExecCancelled
<1>14. ASSUME NEW r \in Runs, RunReturns(r)
      PROVE  Requested'
  BY <1>14 DEF RunReturns, Conclude, PlainStatus
<1>15. ASSUME NEW r \in Runs, RunTimesOut(r)
      PROVE  Requested'
  BY <1>15 DEF RunTimesOut, Conclude
<1>16. ASSUME NEW r \in Runs, StreamEnds(r)
      PROVE  Requested'
  BY <1>16 DEF StreamEnds, Conclude, StreamStatus
<1>17. ASSUME NEW r \in Runs, StreamBreaks(r)
      PROVE  Requested'
  BY <1>17 DEF StreamBreaks, Conclude
<1>18. ASSUME NEW r \in Runs, Announce(r)
      PROVE  Requested'
  BY <1>18 DEF Announce
<1>19. ASSUME NEW r \in Runs, JournalEnded(r)
      PROVE  Requested'
  BY <1>19 DEF JournalEnded
<1>20. ASSUME NEW r \in Runs, JournalEndedFails(r)
      PROVE  Requested'
  BY <1>20 DEF JournalEndedFails
<1>21. ASSUME NEW r \in Runs, DropStream(r)
      PROVE  Requested'
  BY <1>21 DEF DropStream
<1>22. ASSUME NEW r \in Runs, CancelCheck(r)
      PROVE  Requested'
  BY <1>22 DEF CancelCheck
<1>23. ASSUME NEW r \in Runs, CancelFire(r)
      PROVE  Requested'
  BY <1>23 DEF CancelFire
<1>24. ASSUME NEW r \in Runs, Gc(r)
      PROVE  Requested'
  BY <1>24 DEF Gc
<1>25. CASE UNCHANGED vars
  BY <1>25 DEF vars
<1>26. ASSUME NEW r \in Runs, StarterDropped(r)
      PROVE  Requested'
  BY <1>26 DEF StarterDropped
<1> HIDE DEF TypeInv, Phases, Requested, Terminal, journal, history
<1> QED
  BY <1>1, <1>2, <1>3, <1>4, <1>5, <1>6, <1>7, <1>8, <1>9, <1>10, <1>11, <1>12, <1>13, <1>14,
     <1>15, <1>16, <1>17, <1>18, <1>19, <1>20, <1>21, <1>22, <1>23, <1>24, <1>25, <1>26
  DEF Next, BootStep, StarterStep, SupStep

\* A supervisor and the reconciliation never both have a row to write.
LEMMA RecordStep ==
    ASSUME TypeInv, Phases, Ids, RecordOnce, BootFacts, [Next]_vars
    PROVE  RecordOnce'
<1> USE DEF TypeInv, Phases, Ids, RecordOnce, BootFacts, Terminal, journal, history
<1>1. CASE ReconcileScan
  BY <1>1 DEF ReconcileScan
<1>2. ASSUME NEW r \in Runs, ReconcileAppend(r)
      PROVE  RecordOnce'
  BY <1>2 DEF ReconcileAppend
<1>3. CASE BootDone
  BY <1>3 DEF BootDone
<1>4. CASE BootFails
  BY <1>4 DEF BootFails
<1>5. CASE CrashRestart
  BY <1>5 DEF CrashRestart
<1>6. ASSUME NEW r \in Runs, Validate(r)
      PROVE  RecordOnce'
  BY <1>6 DEF Validate
<1>7. ASSUME NEW r \in Runs, Insert(r)
      PROVE  RecordOnce'
  BY <1>7 DEF Insert
<1>8. ASSUME NEW r \in Runs, JournalStarted(r)
      PROVE  RecordOnce'
  BY <1>8 DEF JournalStarted, AfterJournal
<1>9. ASSUME NEW r \in Runs, JournalStartedFails(r)
      PROVE  RecordOnce'
  BY <1>9 DEF JournalStartedFails, AfterJournal
<1>10. ASSUME NEW r \in Runs, Spawn(r)
      PROVE  RecordOnce'
  BY <1>10, SMTT(30) DEF Spawn, StreamOf
<1>11. ASSUME NEW r \in Runs, SpawnDenied(r)
      PROVE  RecordOnce'
  <2>1. closed[r] = <<>> /\ r \notin died
    BY <1>11 DEF SpawnDenied
  <2>2. \A x \in Runs \ {r} : sup'[x] = sup[x]
    BY <1>11 DEF SpawnDenied
  <2>3. UNCHANGED <<closed, died, zombies>>
    BY <1>11 DEF SpawnDenied
  <2> QED
    BY <2>1, <2>2, <2>3
<1>12. ASSUME NEW r \in Runs, ExecEnd(r)
      PROVE  RecordOnce'
  BY <1>12 DEF ExecEnd
<1>13. ASSUME NEW r \in Runs, ExecCancelled(r)
      PROVE  RecordOnce'
  BY <1>13 DEF ExecCancelled
<1>14. ASSUME NEW r \in Runs, RunReturns(r)
      PROVE  RecordOnce'
  BY <1>14 DEF RunReturns, Conclude, PlainStatus
<1>15. ASSUME NEW r \in Runs, RunTimesOut(r)
      PROVE  RecordOnce'
  BY <1>15 DEF RunTimesOut, Conclude
<1>16. ASSUME NEW r \in Runs, StreamEnds(r)
      PROVE  RecordOnce'
  BY <1>16 DEF StreamEnds, Conclude, StreamStatus
<1>17. ASSUME NEW r \in Runs, StreamBreaks(r)
      PROVE  RecordOnce'
  BY <1>17 DEF StreamBreaks, Conclude
<1>18. ASSUME NEW r \in Runs, Announce(r)
      PROVE  RecordOnce'
  BY <1>18 DEF Announce
<1>19. ASSUME NEW r \in Runs, JournalEnded(r)
      PROVE  RecordOnce'
  BY <1>19 DEF JournalEnded
<1>20. ASSUME NEW r \in Runs, JournalEndedFails(r)
      PROVE  RecordOnce'
  BY <1>20 DEF JournalEndedFails
<1>21. ASSUME NEW r \in Runs, DropStream(r)
      PROVE  RecordOnce'
  BY <1>21 DEF DropStream
<1>22. ASSUME NEW r \in Runs, CancelCheck(r)
      PROVE  RecordOnce'
  BY <1>22 DEF CancelCheck
<1>23. ASSUME NEW r \in Runs, CancelFire(r)
      PROVE  RecordOnce'
  BY <1>23 DEF CancelFire
<1>24. ASSUME NEW r \in Runs, Gc(r)
      PROVE  RecordOnce'
  BY <1>24 DEF Gc
<1>25. CASE UNCHANGED vars
  BY <1>25 DEF vars
<1>26. ASSUME NEW r \in Runs, StarterDropped(r)
      PROVE  RecordOnce'
  BY <1>26 DEF StarterDropped
<1> HIDE DEF TypeInv, Phases, Ids, RecordOnce, BootFacts, Terminal, journal, history
<1> QED
  BY <1>1, <1>2, <1>3, <1>4, <1>5, <1>6, <1>7, <1>8, <1>9, <1>10, <1>11, <1>12, <1>13, <1>14,
     <1>15, <1>16, <1>17, <1>18, <1>19, <1>20, <1>21, <1>22, <1>23, <1>24, <1>25, <1>26
  DEF Next, BootStep, StarterStep, SupStep

\* What a boot lists, it closes before the runtime is up.
LEMMA BootFactsStep ==
    ASSUME TypeInv, Phases, Ids, BootFacts, ZombieFree, [Next]_vars
    PROVE  BootFacts' /\ ZombieFree'
<1> USE DEF TypeInv, Phases, Ids, BootFacts, ZombieFree, Terminal, journal, history
<1>1. CASE ReconcileScan
  BY <1>1 DEF ReconcileScan
<1>2. ASSUME NEW r \in Runs, ReconcileAppend(r)
      PROVE  BootFacts' /\ ZombieFree'
  <2>1. \A x \in Runs : closed[x] # <<>> \/ x = r => closed'[x] # <<>>
    BY <1>2, AppendNotEmpty DEF ReconcileAppend
  <2> QED
    BY <1>2, <2>1 DEF ReconcileAppend
<1>3. CASE BootDone
  BY <1>3 DEF BootDone
<1>4. CASE BootFails
  BY <1>4 DEF BootFails
<1>5. CASE CrashRestart
  BY <1>5 DEF CrashRestart
<1>6. ASSUME NEW r \in Runs, Validate(r)
      PROVE  BootFacts' /\ ZombieFree'
  BY <1>6 DEF Validate
<1>7. ASSUME NEW r \in Runs, Insert(r)
      PROVE  BootFacts' /\ ZombieFree'
  BY <1>7 DEF Insert
<1>8. ASSUME NEW r \in Runs, JournalStarted(r)
      PROVE  BootFacts' /\ ZombieFree'
  BY <1>8 DEF JournalStarted, AfterJournal
<1>9. ASSUME NEW r \in Runs, JournalStartedFails(r)
      PROVE  BootFacts' /\ ZombieFree'
  BY <1>9 DEF JournalStartedFails, AfterJournal
<1>10. ASSUME NEW r \in Runs, Spawn(r)
      PROVE  BootFacts' /\ ZombieFree'
  BY <1>10 DEF Spawn, StreamOf
<1>11. ASSUME NEW r \in Runs, SpawnDenied(r)
      PROVE  BootFacts' /\ ZombieFree'
  BY <1>11 DEF SpawnDenied
<1>12. ASSUME NEW r \in Runs, ExecEnd(r)
      PROVE  BootFacts' /\ ZombieFree'
  BY <1>12 DEF ExecEnd
<1>13. ASSUME NEW r \in Runs, ExecCancelled(r)
      PROVE  BootFacts' /\ ZombieFree'
  BY <1>13 DEF ExecCancelled
<1>14. ASSUME NEW r \in Runs, RunReturns(r)
      PROVE  BootFacts' /\ ZombieFree'
  BY <1>14 DEF RunReturns, Conclude, PlainStatus
<1>15. ASSUME NEW r \in Runs, RunTimesOut(r)
      PROVE  BootFacts' /\ ZombieFree'
  BY <1>15 DEF RunTimesOut, Conclude
<1>16. ASSUME NEW r \in Runs, StreamEnds(r)
      PROVE  BootFacts' /\ ZombieFree'
  BY <1>16 DEF StreamEnds, Conclude, StreamStatus
<1>17. ASSUME NEW r \in Runs, StreamBreaks(r)
      PROVE  BootFacts' /\ ZombieFree'
  BY <1>17 DEF StreamBreaks, Conclude
<1>18. ASSUME NEW r \in Runs, Announce(r)
      PROVE  BootFacts' /\ ZombieFree'
  BY <1>18 DEF Announce
<1>19. ASSUME NEW r \in Runs, JournalEnded(r)
      PROVE  BootFacts' /\ ZombieFree'
  <2>1. result[r] \in Terminal
    BY <1>19 DEF JournalEnded
  <2>2. \A x \in Runs : closed[x] # <<>> \/ x = r => closed'[x] # <<>>
    BY <1>19, <2>1, AppendNotEmpty DEF JournalEnded
  <2> QED
    BY <1>19, <2>2 DEF JournalEnded
<1>20. ASSUME NEW r \in Runs, JournalEndedFails(r)
      PROVE  BootFacts' /\ ZombieFree'
  BY <1>20 DEF JournalEndedFails
<1>21. ASSUME NEW r \in Runs, DropStream(r)
      PROVE  BootFacts' /\ ZombieFree'
  BY <1>21 DEF DropStream
<1>22. ASSUME NEW r \in Runs, CancelCheck(r)
      PROVE  BootFacts' /\ ZombieFree'
  BY <1>22 DEF CancelCheck
<1>23. ASSUME NEW r \in Runs, CancelFire(r)
      PROVE  BootFacts' /\ ZombieFree'
  BY <1>23 DEF CancelFire
<1>24. ASSUME NEW r \in Runs, Gc(r)
      PROVE  BootFacts' /\ ZombieFree'
  BY <1>24 DEF Gc
<1>25. CASE UNCHANGED vars
  BY <1>25 DEF vars
<1>26. ASSUME NEW r \in Runs, StarterDropped(r)
      PROVE  BootFacts' /\ ZombieFree'
  BY <1>26 DEF StarterDropped
<1> HIDE DEF TypeInv, Phases, Ids, BootFacts, ZombieFree, Terminal, journal, history
<1> QED
  BY <1>1, <1>2, <1>3, <1>4, <1>5, <1>6, <1>7, <1>8, <1>9, <1>10, <1>11, <1>12, <1>13, <1>14,
     <1>15, <1>16, <1>17, <1>18, <1>19, <1>20, <1>21, <1>22, <1>23, <1>24, <1>25, <1>26
  DEF Next, BootStep, StarterStep, SupStep

-----------------------------------------------------------------------------
(* The invariants.                                                         *)

LEMMA InitRuntime == Init => RuntimeInv
<1> SUFFICES ASSUME Init PROVE RuntimeInv
  OBVIOUS
<1> USE DEF Init
<1>1. TypeInv
  BY DEF TypeInv
<1>2. Phases /\ Ids /\ Requested /\ RecordOnce
  BY DEF Phases, Ids, Requested, RecordOnce
<1>3. RunningIsWatched /\ CancelledIsStopped
  BY DEF RunningIsWatched, CancelledIsStopped
<1>4. BootFacts /\ ZombieFree
  BY DEF BootFacts, ZombieFree
<1> QED
  BY <1>1, <1>2, <1>3, <1>4 DEF RuntimeInv

LEMMA NextRuntime == RuntimeInv /\ [Next]_vars => RuntimeInv'
BY TypeStep, PhaseStep, TableStep, IdStep, RequestStep, RecordStep, BootFactsStep DEF RuntimeInv

LEMMA RuntimeInvariant == Spec => []RuntimeInv
BY InitRuntime, NextRuntime, PTL DEF Spec

\* The process table never shows a run as Running that nobody will ever end.
THEOREM RunningAlwaysWatched == Spec => []RunningIsWatched
<1>1. RuntimeInv => RunningIsWatched
  BY DEF RuntimeInv
<1> QED
  BY <1>1, RuntimeInvariant, PTL

\* A run that is called cancelled has stopped.
THEOREM CancelledHasStopped == Spec => []CancelledIsStopped
<1>1. RuntimeInv => CancelledIsStopped
  BY DEF RuntimeInv
<1> QED
  BY <1>1, RuntimeInvariant, PTL

\* Once reconcile_zombies is through, no run of an earlier process is open in
\* the journal, however often the boot itself was interrupted.
THEOREM NoZombieSurvivesBoot == Spec => []ZombieFree
<1>1. RuntimeInv => ZombieFree
  BY DEF RuntimeInv
<1> QED
  BY <1>1, RuntimeInvariant, PTL

-----------------------------------------------------------------------------
(* The refinement.                                                         *)

\* What the abstract record sees of run r.
LifeOf(known, status) ==
    CASE ~known -> "unborn"
      [] status = "running" -> "running"
      [] status \in Terminal -> "ended"
      [] OTHER -> "forgotten"
RowOf(rows) == IF rows = <<>> THEN "none" ELSE IF Len(rows) = 1 THEN rows[1] ELSE "several"

Life(r)    == LifeOf(r \in used, table[r])
Verdict(r) == IF result[r] = "lost" THEN "failed" ELSE result[r]
Row(r)     == RowOf(closed[r])

\* The cases of the mapping exclude one another where they are used.
LEMMA LifeFacts ==
    ASSUME NEW known, NEW status
    PROVE  /\ ~known /\ status = "absent" => LifeOf(known, status) = "unborn"
           /\ known /\ status = "running" => LifeOf(known, status) = "running"
           /\ known /\ status \in Terminal => LifeOf(known, status) = "ended"
           /\ known /\ status = "absent" => LifeOf(known, status) = "forgotten"
<1>0. "running" \notin Terminal /\ "absent" \notin Terminal /\ "absent" # "running"
  BY DEF Terminal
<1>1. ~known /\ status = "absent" => LifeOf(known, status) = "unborn"
  BY <1>0, Zenon DEF LifeOf
<1>2. known /\ status = "running" => LifeOf(known, status) = "running"
  BY <1>0, Zenon DEF LifeOf
<1>3. known /\ status \in Terminal => LifeOf(known, status) = "ended"
  BY <1>0, Zenon DEF LifeOf
<1>4. known /\ status = "absent" => LifeOf(known, status) = "forgotten"
  BY <1>0, Zenon DEF LifeOf
<1> QED
  BY <1>1, <1>2, <1>3, <1>4

\* The journal of a run before and after its only terminal row.
LEMMA RowFacts ==
    /\ RowOf(<<>>) = "none"
    /\ \A x : RowOf(Append(<<>>, x)) = x
BY DEF RowOf

\* The initial predicate, the actions and the variables of RunRecord for run r.
LEMMA RecInitIs ==
    ASSUME NEW r \in Runs
    PROVE  Rec(r)!Init <=> /\ Life(r) = "unborn" /\ Verdict(r) = "none" /\ Row(r) = "none"
                           /\ token[r] = FALSE /\ (r \in died) = FALSE
BY DEF Rec!Init, Life, LifeOf, Verdict, Row, RowOf

LEMMA RecSame ==
    ASSUME NEW r \in Runs,
           UNCHANGED <<Life(r), Verdict(r), Row(r), token[r], r \in died>>
    PROVE  UNCHANGED Rec(r)!vars
BY DEF Rec!vars, Life, LifeOf, Verdict, Row, RowOf

LEMMA RecBegin ==
    ASSUME NEW r \in Runs, Life(r) = "unborn", Life(r)' = "running",
           UNCHANGED <<Verdict(r), Row(r), token[r], r \in died>>
    PROVE  Rec(r)!Next
<1>1. Rec(r)!Begin
  BY DEF Rec!Begin, Life, LifeOf, Verdict, Row, RowOf
<1> QED
  BY <1>1 DEF Rec!Next

LEMMA RecRequest ==
    ASSUME NEW r \in Runs, Life(r) # "unborn", r \notin died, token[r]' = TRUE,
           UNCHANGED <<Life(r), Verdict(r), Row(r), r \in died>>
    PROVE  Rec(r)!Next
<1>1. Rec(r)!Request
  BY DEF Rec!Request, Life, LifeOf, Verdict, Row, RowOf
<1> QED
  BY <1>1 DEF Rec!Next

LEMMA RecEnd ==
    ASSUME NEW r \in Runs, NEW v \in Terminal, Life(r) = "running", Life(r)' = "ended",
           v = "cancelled" => token[r] \/ r \in Streaming, Verdict(r)' = v,
           UNCHANGED <<Row(r), token[r], r \in died>>
    PROVE  Rec(r)!Next
<1>1. Rec(r)!End(v)
  BY DEF Rec!End, Life, LifeOf, Verdict, Row, RowOf
<1>2. v \in Rec(r)!Verdicts
  BY DEF Rec!Verdicts, Terminal
<1> QED
  BY <1>1, <1>2 DEF Rec!Next

LEMMA RecForget ==
    ASSUME NEW r \in Runs, Life(r) = "ended", Life(r)' = "forgotten",
           UNCHANGED <<Verdict(r), Row(r), token[r], r \in died>>
    PROVE  Rec(r)!Next
<1>1. Rec(r)!Forget
  BY DEF Rec!Forget, Life, LifeOf, Verdict, Row, RowOf
<1> QED
  BY <1>1 DEF Rec!Next

LEMMA RecDie ==
    ASSUME NEW r \in Runs, Life(r) # "unborn", Life(r)' = "forgotten", Verdict(r)' = "none",
           token[r]' = FALSE, r \in died', UNCHANGED Row(r)
    PROVE  Rec(r)!Next
<1>0. (r \in died)' = TRUE
  OBVIOUS
<1>1. Rec(r)!Die
  BY <1>0 DEF Rec!Die, Life, LifeOf, Verdict, Row, RowOf
<1> QED
  BY <1>1 DEF Rec!Next

LEMMA RecRecord ==
    ASSUME NEW r \in Runs, Row(r) = "none",
           \/ r \notin died /\ Verdict(r) # "none" /\ Row(r)' = Verdict(r)
           \/ r \in died /\ Row(r)' = "failed",
           UNCHANGED <<Life(r), Verdict(r), token[r], r \in died>>
    PROVE  Rec(r)!Next
<1>1. Rec(r)!Record
  BY DEF Rec!Record, Life, LifeOf, Verdict, Row, RowOf
<1> QED
  BY <1>1 DEF Rec!Next

\* A step that leaves what run r shows alone.
LEMMA Unseen ==
    ASSUME NEW r \in Runs,
           UNCHANGED <<table[r], result[r], closed[r], token[r], r \in used, r \in died>>
    PROVE  UNCHANGED Rec(r)!vars
<1>1. UNCHANGED <<Life(r), Verdict(r), Row(r), token[r], r \in died>>
  BY Zenon DEF Life, Verdict, Row
<1> QED
  BY <1>1, RecSame

\* The supervisor of run r gets its result.
LEMMA ConcludeEnds ==
    ASSUME TypeInv, Phases, Ids, NEW r \in Runs, NEW res \in Terminal \cup {"lost"},
           NEW status \in Terminal, sup[r] = "wait", Conclude(r, res, status),
           res = "cancelled" => token[r] \/ r \in Streaming,
           UNCHANGED <<closed, token, used, died>>
    PROVE  Rec(r)!Next
<1> DEFINE v == IF res = "lost" THEN "failed" ELSE res
<1>1. v \in Terminal /\ (v = "cancelled" => token[r] \/ r \in Streaming)
  BY DEF Terminal
<1>2. table[r] = "running" /\ r \in used /\ r \in used'
  BY DEF TypeInv, Phases, Ids
<1>3. table'[r] = status /\ result'[r] = res
  BY <1>2 DEF TypeInv, Conclude
<1>4. Life(r) = "running"
  BY <1>2, LifeFacts, Zenon DEF Life
<1>5. Life(r)' = "ended"
  BY <1>2, <1>3, LifeFacts, Zenon DEF Life
<1>6. Verdict(r)' = v
  BY <1>3 DEF Verdict
<1>7. UNCHANGED <<Row(r), token[r], r \in died>>
  BY DEF Row
<1> HIDE DEF v
<1> QED
  BY <1>1, <1>4, <1>5, <1>6, <1>7, RecEnd

\* Every step of the runtime is, for every run, a step of its record or none.
LEMMA RecStep ==
    ASSUME RuntimeInv, [Next]_vars, NEW r \in Runs
    PROVE  Rec(r)!Next \/ UNCHANGED Rec(r)!vars
<1> DEFINE Goal == Rec(r)!Next \/ UNCHANGED Rec(r)!vars
           Quiet == UNCHANGED <<table[r], result[r], closed[r], token[r], r \in used, r \in died>>
<1>0. /\ TypeInv /\ Phases /\ Ids /\ Requested /\ RecordOnce /\ BootFacts
  BY DEF RuntimeInv
<1>q. Quiet => Goal
  BY Unseen
<1> SUFFICES Goal
  OBVIOUS
<1> HIDE DEF Goal, Quiet
<1>1. CASE ReconcileScan \/ BootDone \/ BootFails \/ UNCHANGED vars
  <2>1. Quiet
    BY <1>1 DEF Quiet, ReconcileScan, BootDone, BootFails, vars, journal, history
  <2> QED
    BY <2>1, <1>q
<1>2. ASSUME NEW x \in Runs, ReconcileAppend(x)
      PROVE  Goal
  <2>1. CASE x # r
    <3>1. Quiet
      BY <1>0, <1>2, <2>1 DEF Quiet, ReconcileAppend, history, TypeInv
    <3> QED
      BY <3>1, <1>q
  <2>2. CASE x = r
    <3>1. closed[r] = <<>> /\ r \in died
      BY <1>0, <1>2, <2>2 DEF ReconcileAppend, RecordOnce
    <3>2. closed'[r] = Append(<<>>, "failed")
      BY <1>0, <1>2, <2>2, <3>1 DEF ReconcileAppend, TypeInv
    <3>3. Row(r) = "none" /\ Row(r)' = "failed"
      BY <3>1, <3>2, RowFacts DEF Row
    <3>4. UNCHANGED <<Life(r), Verdict(r), token[r], r \in died>>
      BY <1>2 DEF ReconcileAppend, history, Life, Verdict
    <3> QED
      BY <3>1, <3>3, <3>4, RecRecord DEF Goal
  <2> QED
    BY <2>1, <2>2
<1>3. CASE CrashRestart
  <2>1. CASE r \in used
    <3>1. table'[r] = "absent" /\ r \in used' /\ r \in died' /\ result'[r] = "none" /\ token'[r] = FALSE
      BY <1>3, <2>1 DEF CrashRestart
    <3>2. Life(r) # "unborn"
      <4>1. table[r] \in {"absent", "running"} \cup Terminal
        BY <1>0 DEF TypeInv
      <4> QED
        BY <2>1, <4>1, LifeFacts DEF Life
    <3>3. Life(r)' = "forgotten"
      BY <3>1, LifeFacts, Zenon DEF Life
    <3>4. Verdict(r)' = "none"
      BY <3>1 DEF Verdict
    <3>5. UNCHANGED Row(r)
      BY <1>3 DEF CrashRestart, journal, Row
    <3> QED
      BY <3>1, <3>2, <3>3, <3>4, <3>5, RecDie DEF Goal
  <2>2. CASE r \notin used
    <3>1. starter[r] \in {"none", "insert"}
      BY <1>0, <2>2 DEF TypeInv, Ids
    <3>2. table[r] = "absent" /\ result[r] = "none" /\ token[r] = FALSE /\ r \notin died
      BY <1>0, <2>2, <3>1 DEF TypeInv, Phases, Ids
    <3>3. table'[r] = "absent" /\ result'[r] = "none" /\ token'[r] = FALSE /\ UNCHANGED <<closed, used>>
      BY <1>3 DEF CrashRestart, journal
    <3>4. r \notin died'
      BY <1>3, <2>2 DEF CrashRestart
    <3>5. UNCHANGED <<r \in used, r \in died>>
      BY <3>2, <3>3, <3>4
    <3>6. Quiet
      BY <3>2, <3>3, <3>5 DEF Quiet
    <3> QED
      BY <3>6, <1>q
  <2> QED
    BY <2>1, <2>2
<1>4. ASSUME NEW x \in Runs, Insert(x)
      PROVE  Goal
  <2>1. CASE x # r
    <3>1. Quiet
      BY <1>0, <1>4, <2>1 DEF Quiet, Insert, journal, TypeInv
    <3> QED
      BY <3>1, <1>q
  <2>2. CASE x = r
    <3>1. r \notin used /\ table[r] = "absent"
      BY <1>0, <1>4, <2>2 DEF Insert, Ids, Phases
    <3>2. r \in used' /\ table'[r] = "running"
      BY <1>0, <1>4, <2>2 DEF Insert, TypeInv
    <3>3. Life(r) = "unborn" /\ Life(r)' = "running"
      BY <3>1, <3>2, LifeFacts, Zenon DEF Life
    <3>4. UNCHANGED <<Verdict(r), Row(r), token[r], r \in died>>
      BY <1>4 DEF Insert, journal, Verdict, Row
    <3> QED
      BY <3>3, <3>4, RecBegin DEF Goal
  <2> QED
    BY <2>1, <2>2
<1>5. ASSUME NEW x \in Runs,
             \/ Validate(x) \/ StarterDropped(x) \/ JournalStarted(x) \/ JournalStartedFails(x) \/ Spawn(x)
             \/ SpawnDenied(x) \/ ExecEnd(x) \/ ExecCancelled(x) \/ Announce(x)
             \/ JournalEndedFails(x) \/ DropStream(x) \/ CancelCheck(x)
      PROVE  Goal
  <2>1. Quiet
    BY <1>5 DEF Quiet, Validate, StarterDropped, JournalStarted, JournalStartedFails, Spawn, SpawnDenied, ExecEnd,
                ExecCancelled, Announce, JournalEndedFails, DropStream, CancelCheck, journal, history
  <2> QED
    BY <2>1, <1>q
<1>6. ASSUME NEW x \in Runs, NEW res \in Terminal \cup {"lost"}, NEW status \in Terminal,
             sup[x] = "wait", Conclude(x, res, status),
             res = "cancelled" => token[x] \/ x \in Streaming,
             UNCHANGED <<closed, token, used, died>>
      PROVE  Goal
  <2>1. CASE x # r
    <3>1. Quiet
      BY <1>0, <1>6, <2>1 DEF Quiet, Conclude, TypeInv
    <3> QED
      BY <3>1, <1>q
  <2>2. CASE x = r
    BY <1>0, <1>6, <2>2, ConcludeEnds DEF Goal
  <2> QED
    BY <2>1, <2>2
<1>7. ASSUME NEW x \in Runs, RunReturns(x) \/ RunTimesOut(x) \/ StreamEnds(x) \/ StreamBreaks(x)
      PROVE  Goal
  <2>1. sup[x] = "wait" /\ UNCHANGED <<closed, token, used, died>>
    BY <1>7 DEF RunReturns, RunTimesOut, StreamEnds, StreamBreaks, journal, history
  <2>2. exec[x] \in {"working", "quoted"} \cup Terminal /\ (exec[x] = "cancelled" => token[x])
    BY <1>0, <2>1 DEF TypeInv, Phases, Requested
  <2>3. CASE RunReturns(x)
    <3> DEFINE e == PlainStatus(exec[x])
    <3>1. e \in Terminal /\ (e = "cancelled" => token[x])
      BY <2>2, <2>3 DEF RunReturns, PlainStatus, Terminal
    <3>2. Conclude(x, e, e)
      BY <2>3 DEF RunReturns
    <3> HIDE DEF e
    <3> QED
      BY <1>6, <2>1, <3>1, <3>2
  <2>4. CASE RunTimesOut(x)
    <3>1. "failed" \in Terminal /\ "failed" # "cancelled" /\ Conclude(x, "failed", "failed")
      BY <2>4 DEF RunTimesOut, Terminal
    <3> QED
      BY <1>6, <2>1, <3>1
  <2>5. CASE StreamEnds(x)
    <3> DEFINE e == StreamStatus(exec[x])
    <3>1. e \in Terminal /\ x \in Streaming
      BY <2>2, <2>5 DEF StreamEnds, StreamStatus, Terminal
    <3>2. Conclude(x, e, e)
      BY <2>5 DEF StreamEnds
    <3> HIDE DEF e
    <3> QED
      BY <1>6, <2>1, <3>1, <3>2
  <2>6. CASE StreamBreaks(x)
    <3>1. "failed" \in Terminal /\ "lost" # "cancelled" /\ Conclude(x, "lost", "failed")
      BY <2>6 DEF StreamBreaks, Terminal
    <3> QED
      BY <1>6, <2>1, <3>1
  <2> QED
    BY <1>7, <2>3, <2>4, <2>5, <2>6
<1>8. ASSUME NEW x \in Runs, JournalEnded(x)
      PROVE  Goal
  <2>1. CASE x # r
    <3>1. Quiet
      BY <1>0, <1>8, <2>1 DEF Quiet, JournalEnded, history, TypeInv
    <3> QED
      BY <3>1, <1>q
  <2>2. CASE x = r
    <3>1. sup[r] = "journal" /\ starter[r] = "returned"
      BY <1>0, <1>8, <2>2 DEF JournalEnded, Phases
    <3>2. r \notin died /\ closed[r] = <<>> /\ result[r] \in Terminal
      BY <1>0, <3>1 DEF TypeInv, Phases, Ids, RecordOnce
    <3>3. closed'[r] = Append(<<>>, result[r])
      BY <1>0, <1>8, <2>2, <3>2 DEF JournalEnded, TypeInv
    <3>4. Verdict(r) = result[r] /\ Verdict(r) # "none"
      BY <3>2 DEF Verdict, Terminal
    <3>5. Row(r) = "none" /\ Row(r)' = Verdict(r)
      BY <3>2, <3>3, <3>4, RowFacts DEF Row
    <3>6. UNCHANGED <<Life(r), Verdict(r), token[r], r \in died>>
      BY <1>8 DEF JournalEnded, history, Life, Verdict
    <3> QED
      BY <3>2, <3>4, <3>5, <3>6, RecRecord DEF Goal
  <2> QED
    BY <2>1, <2>2
<1>9. ASSUME NEW x \in Runs, CancelFire(x)
      PROVE  Goal
  <2>1. CASE x # r
    <3>1. Quiet
      BY <1>0, <1>9, <2>1 DEF Quiet, CancelFire, journal, history, TypeInv
    <3> QED
      BY <3>1, <1>q
  <2>2. CASE x = r /\ table[r] = "absent"
    <3>1. token'[r] = (token[r] \/ FALSE)
      BY <1>0, <1>9, <2>2, Zenon DEF CancelFire, TypeInv
    <3>2. token'[r] = token[r]
      BY <1>0, <3>1 DEF TypeInv
    <3>3. Quiet
      BY <1>9, <3>2 DEF Quiet, CancelFire, journal, history
    <3> QED
      BY <3>3, <1>q
  <2>3. CASE x = r /\ table[r] # "absent"
    <3>1. token'[r] = TRUE
      BY <1>0, <1>9, <2>3 DEF CancelFire, TypeInv
    <3>2. r \in used /\ r \notin died
      BY <1>0, <2>3 DEF TypeInv, Phases, Ids
    <3>3. Life(r) # "unborn"
      <4>1. table[r] \in {"absent", "running"} \cup Terminal
        BY <1>0 DEF TypeInv
      <4> QED
        BY <3>2, <4>1, LifeFacts DEF Life
    <3>4. UNCHANGED <<Life(r), Verdict(r), Row(r), r \in died>>
      BY <1>9 DEF CancelFire, journal, history, Life, Verdict, Row
    <3> QED
      BY <3>1, <3>2, <3>3, <3>4, RecRequest DEF Goal
  <2> QED
    BY <2>1, <2>2, <2>3
<1>10. ASSUME NEW x \in Runs, Gc(x)
       PROVE  Goal
  <2>1. CASE x # r
    <3>1. Quiet
      BY <1>0, <1>10, <2>1 DEF Quiet, Gc, journal, history, TypeInv
    <3> QED
      BY <3>1, <1>q
  <2>2. CASE x = r
    <3>0. table[r] \in Terminal /\ UNCHANGED used
      BY <1>10, <2>2 DEF Gc, history
    <3>1. table[r] \in Terminal /\ r \in used /\ r \in used'
      <4>1. starter[r] \in {"journal", "left", "gone", "spawn", "returned"}
        BY <1>0, <3>0, ZenonT(30) DEF TypeInv, Phases, Terminal
      <4> QED
        BY <1>0, <3>0, <4>1 DEF Ids
    <3>2. table'[r] = "absent"
      BY <1>0, <1>10, <2>2 DEF Gc, TypeInv
    <3>3. Life(r) = "ended" /\ Life(r)' = "forgotten"
      BY <3>1, <3>2, LifeFacts, Zenon DEF Life
    <3>4. UNCHANGED <<Verdict(r), Row(r), token[r], r \in died>>
      BY <1>10 DEF Gc, journal, history, Verdict, Row
    <3> QED
      BY <3>3, <3>4, RecForget DEF Goal
  <2> QED
    BY <2>1, <2>2
<1>11. ASSUME NEW x \in Runs, StarterStep(x) \/ SupStep(x)
       PROVE  Goal
  BY <1>4, <1>5, <1>7, <1>8, <1>11 DEF StarterStep, SupStep
<1> QED
  BY <1>1, <1>2, <1>3, <1>5, <1>9, <1>10, <1>11 DEF Next, BootStep

\* Initially no run has begun.
LEMMA RecStarts == Init => \A r \in Runs : Rec(r)!Init
<1> SUFFICES ASSUME Init, NEW r \in Runs PROVE Rec(r)!Init
  OBVIOUS
<1>1. r \notin used /\ table[r] = "absent" /\ result[r] = "none" /\ closed[r] = <<>>
      /\ token[r] = FALSE /\ (r \in died) = FALSE
  BY DEF Init
<1>2. Life(r) = "unborn"
  BY <1>1, LifeFacts, Zenon DEF Life
<1>3. Verdict(r) = "none" /\ Row(r) = "none"
  BY <1>1, RowFacts DEF Verdict, Row
<1> QED
  BY <1>1, <1>2, <1>3, RecInitIs

\* The runtime implements RunRecord for every run: one verdict, one terminal row
\* in the journal across crashes and reconciliations, cancelled only on request.
THEOREM RunsAreRecords == Spec => RunsKeepRecord
<1> DEFINE Step == \A r \in Runs : Rec(r)!Next \/ UNCHANGED Rec(r)!vars
<1>1. RuntimeInv /\ [Next]_vars => [Step]_vars
  BY RecStep
<1> QED
  BY <1>1, RecStarts, RuntimeInvariant, PTL DEF Spec, RunsKeepRecord

\* The same as an implementation of the abstract specification itself: the
\* runtime, seen through run r, is a behaviour of RunRecord.
THEOREM RuntimeImplementsRunRecord ==
    ASSUME NEW r \in Runs
    PROVE  Spec => Rec(r)!Spec
<1>1. Init => Rec(r)!Init
  BY RecStarts
<1>2. RuntimeInv /\ [Next]_vars => [Rec(r)!Next]_(Rec(r)!vars)
  BY RecStep
<1> QED
  BY <1>1, <1>2, RuntimeInvariant, PTL DEF Spec, Rec!Spec

=============================================================================
