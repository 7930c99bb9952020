--------------------------- MODULE RunnerProofs ---------------------------
(***************************************************************************)
(* Proofs about Runner: durable intents, the registry and boot's replay.   *)
(*                                                                         *)
(* RunnerInv is inductive.  Besides the properties it has: what a caller,  *)
(* a listed intent and a task that reports imply about the disk (OnDisk),  *)
(* that a boot lists counts that the crashes account for (CountsLag), that *)
(* nothing exists of an id that was not handed out (FreshIds), and what a  *)
(* spawn that stores its intent and a replay that is about to return imply *)
(* about the registry (Storing, Started).                                  *)
(***************************************************************************)
EXTENDS Runner, TLAPS

CallerStates == {"none", "lookup", "persist", "launch", "hook", "done", "left", "gone"}
TaskStates   == {"none", "start", "invoke", "get", "put", "end", "dead"}
Results      == {"succeeded", "failed"}

TypeInv ==
    /\ intents \in [Runs -> [status : {"absent", "open"} \cup Terminal, count : Nat]]
    /\ boot \in {"list", "replay", "up"}
    /\ queue \subseteq Runs \X Nat
    /\ slots \in [Runs -> [state : {"absent", "pending", "running"} \cup Terminal,
                           hook : {"none"} \cup Kinds]]
    /\ caller \in [Attempts -> CallerStates]
    /\ task \in [Attempts -> TaskStates]
    /\ outcome \in [Attempts -> {"none"} \cup Results]
    /\ crashes \in Nat /\ faults \in Nat

\* A caller past its insert has an intent on disk, or was told that the run is
\* volatile; a listed intent, and one that a replay works on, is on disk; a task
\* that closes an intent has a result to write.
OnDisk ==
    /\ \A r \in Runs : caller[<<r, "spawn">>] \in {"launch", "hook", "done", "gone"} =>
          r \in volatile \/ intents[r].status # "absent"
    /\ \A r \in Runs : caller[<<r, "replay">>] # "none" => intents[r].status # "absent"
    /\ \A q \in queue : intents[q[1]].status # "absent"
    /\ \A a \in Attempts : task[a] \in {"get", "put"} =>
          outcome[a] \in Results /\ a[1] \in invoked

\* The counts that a boot lists are at most the crashes so far.
CountsLag ==
    /\ boot = "list" => \A r \in Runs : intents[r].count <= crashes
    /\ \A q \in queue : q[2] <= crashes

\* Nothing in memory or on disk bears an id that was not handed out.
FreshIds ==
    \A r \in Runs : r \notin used =>
        /\ r \notin accepted
        /\ intents[r].status = "absent" /\ slots[r].state = "absent"
        /\ \A k \in Kinds : caller[<<r, k>>] = "none" /\ task[<<r, k>>] = "none"

\* A replay that is about to return has started a task, which is alive or has
\* reported.
Started ==
    \A r \in Runs : caller[<<r, "replay">>] = "hook" =>
        LiveTask(<<r, "replay">>) \/ slots[r].state \in Terminal

\* While runner:spawn stores an intent nothing but the new slot bears its id.
Storing ==
    \A r \in Runs : caller[<<r, "spawn">>] \in {"persist", "left"} =>
        /\ intents[r].status = "absent" /\ slots[r].state = "pending" /\ r \notin accepted
        /\ \A k \in Kinds : task[<<r, k>>] = "none"

\* NoStuckRun without what OnDisk says of an abandoned run.
SomebodyWorks ==
    \A r \in Runs : slots[r].state \in {"pending", "running"} =>
        \/ \E k \in Kinds : LiveTask(<<r, k>>) \/ InSpawn(<<r, k>>)
        \/ /\ slots[r].state = "pending" /\ r \notin accepted
           /\ caller[<<r, "spawn">>] \in {"left", "gone"}

\* What TerminalStands says of a step.
Stands ==
    \A r \in Runs : slots[r].state \in Terminal =>
        \/ slots'[r].state \in {slots[r].state, "absent"}
        \/ slots'[r].state = "pending" /\ caller'[<<r, "replay">>] = "persist"

RunnerInv ==
    /\ TypeInv
    /\ OnDisk /\ AtLeastOnce
    /\ SomebodyWorks /\ Started /\ Storing
    /\ CountsLag /\ GivesUpLate
    /\ FreshIds
-----------------------------------------------------------------------------
(* Preliminaries.                                                          *)

LEMMA AttemptFacts ==
    /\ \A a \in Attempts : a[1] \in Runs /\ a[2] \in Kinds /\ a = <<a[1], a[2]>>
    /\ \A r \in Runs, k \in Kinds : <<r, k>> \in Attempts
BY DEF Attempts

LEMMA QueueFacts ==
    ASSUME TypeInv, NEW q \in queue
    PROVE  q[1] \in Runs /\ q[2] \in Nat /\ <<q[1], "replay">> \in Attempts
BY DEF TypeInv, Attempts, Kinds

\* One field of a slot or of an intent changes.
LEMMA SlotFields ==
    ASSUME TypeInv, NEW r \in Runs, NEW x
    PROVE  /\ [slots EXCEPT ![r].state = x] =
                [slots EXCEPT ![r] = [state |-> x, hook |-> slots[r].hook]]
           /\ [slots EXCEPT ![r].hook = x] =
                [slots EXCEPT ![r] = [state |-> slots[r].state, hook |-> x]]
<1>1. slots[r] = [state |-> slots[r].state, hook |-> slots[r].hook]
  BY DEF TypeInv
<1>2. /\ [slots[r] EXCEPT !.state = x] = [state |-> x, hook |-> slots[r].hook]
      /\ [slots[r] EXCEPT !.hook = x] = [state |-> slots[r].state, hook |-> x]
  BY <1>1
<1> QED
  BY <1>2

LEMMA IntentFields ==
    ASSUME TypeInv, NEW r \in Runs, NEW x
    PROVE  [intents EXCEPT ![r].status = x] =
             [intents EXCEPT ![r] = [status |-> x, count |-> intents[r].count]]
<1>1. intents[r] = [status |-> intents[r].status, count |-> intents[r].count]
  BY DEF TypeInv
<1>2. [intents[r] EXCEPT !.status = x] = [status |-> x, count |-> intents[r].count]
  BY <1>1
<1> QED
  BY <1>2

\* The steps that change one field, as changes of the whole record.
LEMMA HookSlot ==
    ASSUME TypeInv, NEW a \in Attempts, RegisterHook(a)
    PROVE  slots' = [slots EXCEPT ![a[1]] = [state |-> slots[a[1]].state, hook |-> a[2]]]
BY AttemptFacts, SlotFields DEF RegisterHook

LEMMA StartSlot ==
    ASSUME TypeInv, NEW a \in Attempts, TaskStart(a)
    PROVE  slots' = [slots EXCEPT ![a[1]] =
                       [state |-> IF slots[a[1]].state = "pending" THEN "running" ELSE slots[a[1]].state,
                        hook |-> slots[a[1]].hook]]
<1> DEFINE x == IF slots[a[1]].state = "pending" THEN "running" ELSE slots[a[1]].state
<1>1. slots' = [slots EXCEPT ![a[1]].state = x]
  BY DEF TaskStart, MarkRunning
<1> HIDE DEF x
<1>2. slots' = [slots EXCEPT ![a[1]] = [state |-> x, hook |-> slots[a[1]].hook]]
  BY <1>1, AttemptFacts, SlotFields
<1> QED
  BY <1>2 DEF x

LEMMA FinishSlot ==
    ASSUME TypeInv, NEW a \in Attempts, NEW s, TaskFinish(a, s)
    PROVE  slots' = [slots EXCEPT ![a[1]] =
                       [state |-> TerminalState(slots[a[1]].state, s), hook |-> slots[a[1]].hook]]
<1> DEFINE x == TerminalState(slots[a[1]].state, s)
<1>1. slots' = [slots EXCEPT ![a[1]].state = x]
  BY DEF TaskFinish, MarkTerminal
<1> HIDE DEF x
<1>2. slots' = [slots EXCEPT ![a[1]] = [state |-> x, hook |-> slots[a[1]].hook]]
  BY <1>1, AttemptFacts, SlotFields
<1> QED
  BY <1>2 DEF x

LEMMA PutIntent ==
    ASSUME TypeInv, NEW a \in Attempts, IntentPut(a)
    PROVE  intents' = [intents EXCEPT ![a[1]] =
                         [status |-> outcome[a], count |-> intents[a[1]].count]]
BY AttemptFacts, IntentFields, ZenonT(30) DEF IntentPut

LEMMA GiveUpIntent ==
    ASSUME TypeInv, NEW q \in queue, ReplayGiveUp(q)
    PROVE  intents' = [intents EXCEPT ![q[1]] =
                         [status |-> "failed", count |-> intents[q[1]].count]]
BY QueueFacts, IntentFields DEF ReplayGiveUp

-----------------------------------------------------------------------------
(* Type correctness.                                                       *)

\* Every step keeps the types; intents.mark_terminal writes a result.
LEMMA TypeStep ==
    ASSUME TypeInv, OnDisk, [Next]_vars
    PROVE  TypeInv'
<1> USE AttemptFacts DEF TypeInv, CallerStates, TaskStates, Results, Terminal, Kinds, history
<1>1. ASSUME NEW r \in Runs, Spawn(r)
      PROVE  TypeInv'
  BY <1>1 DEF Spawn, InsertPending
<1>2. ASSUME NEW r \in Runs, Cancel(r)
      PROVE  TypeInv'
  BY <1>2 DEF Cancel, TerminalState
<1>3. ASSUME NEW a \in Attempts, Persist(a)
      PROVE  TypeInv'
  BY <1>3 DEF Persist, AfterPersist
<1>4. ASSUME NEW a \in Attempts, PersistFails(a)
      PROVE  TypeInv'
  BY <1>4 DEF PersistFails, AfterPersist
<1>5. ASSUME NEW a \in Attempts, Launch(a)
      PROVE  TypeInv'
  BY <1>5 DEF Launch
<1>6. ASSUME NEW a \in Attempts, RegisterHook(a)
      PROVE  TypeInv'
  <2>1. slots' \in [Runs -> [state : {"absent", "pending", "running"} \cup Terminal,
                              hook : {"none"} \cup Kinds]]
    <3>1. a[1] \in Runs /\ a[2] \in Kinds
      OBVIOUS
    <3>2. slots' = [slots EXCEPT ![a[1]] = [state |-> slots[a[1]].state, hook |-> a[2]]]
      BY <1>6, HookSlot
    <3> QED
      BY <3>1, <3>2
  <2> QED
    BY <1>6, <2>1 DEF RegisterHook
<1>7. ASSUME NEW a \in Attempts, TaskStart(a)
      PROVE  TypeInv'
  BY <1>7, StartSlot DEF TaskStart, MarkRunning
<1>8. ASSUME NEW a \in Attempts, NEW s \in Results, TaskFinish(a, s)
      PROVE  TypeInv'
  <2>1. slots' \in [Runs -> [state : {"absent", "pending", "running"} \cup Terminal,
                              hook : {"none"} \cup Kinds]]
    <3>1. a[1] \in Runs
      OBVIOUS
    <3>2. slots' = [slots EXCEPT ![a[1]] =
                      [state |-> TerminalState(slots[a[1]].state, s), hook |-> slots[a[1]].hook]]
      BY <1>8, FinishSlot
    <3> QED
      BY <3>1, <3>2 DEF TerminalState
  <2> QED
    BY <1>8, <2>1 DEF TaskFinish
<1>9. ASSUME NEW a \in Attempts, IntentGet(a)
      PROVE  TypeInv'
  BY <1>9 DEF IntentGet
<1>10. ASSUME NEW a \in Attempts, IntentPut(a)
      PROVE  TypeInv'
  <2>1. outcome[a] \in Results
    BY <1>10 DEF IntentPut, OnDisk
  <2>2. intents' \in [Runs -> [status : {"absent", "open"} \cup Terminal, count : Nat]]
    <3>1. a[1] \in Runs /\ intents[a[1]].count \in Nat
      OBVIOUS
    <3>2. intents' = [intents EXCEPT ![a[1]] = [status |-> outcome[a], count |-> intents[a[1]].count]]
      BY <1>10, PutIntent
    <3> QED
      BY <2>1, <3>1, <3>2
  <2> QED
    BY <1>10, <2>2 DEF IntentPut
<1>11. ASSUME NEW a \in Attempts, IntentFails(a)
      PROVE  TypeInv'
  BY <1>11 DEF IntentFails
<1>12. CASE ListUnterminated
  BY <1>12 DEF ListUnterminated
<1>13. CASE ListFails \/ BootDone
  BY <1>13 DEF ListFails, BootDone
<1>14. ASSUME NEW q \in queue, ReplayGiveUp(q)
      PROVE  TypeInv'
  <2>1. intents' \in [Runs -> [status : {"absent", "open"} \cup Terminal, count : Nat]]
    <3>1. q[1] \in Runs /\ intents[q[1]].count \in Nat
      BY QueueFacts
    <3>2. intents' = [intents EXCEPT ![q[1]] = [status |-> "failed", count |-> intents[q[1]].count]]
      BY <1>14, GiveUpIntent
    <3> QED
      BY <3>1, <3>2
  <2> QED
    BY <1>14, <2>1 DEF ReplayGiveUp
<1>15. ASSUME NEW q \in queue, ReplayGiveUpFails(q)
      PROVE  TypeInv'
  BY <1>15, QueueFacts DEF ReplayGiveUpFails
<1>16. ASSUME NEW q \in queue, ReplayCount(q)
      PROVE  TypeInv'
  BY <1>16, QueueFacts DEF ReplayCount
<1>17. ASSUME NEW q \in queue, ReplayCountFails(q)
      PROVE  TypeInv'
  BY <1>17, QueueFacts DEF ReplayCountFails
<1>18. ASSUME NEW r \in Runs, ReplayMissing(r)
      PROVE  TypeInv'
  BY <1>18 DEF ReplayMissing
<1>19. ASSUME NEW r \in Runs, ReplaySpawn(r)
      PROVE  TypeInv'
  BY <1>19 DEF ReplaySpawn, InsertPending
<1>20. ASSUME NEW present \in SUBSET Runs, CrashRestart(present)
      PROVE  TypeInv'
  BY <1>20 DEF CrashRestart, NoSlot
<1>21. ASSUME NEW r \in Runs, CallerDropped(r)
      PROVE  TypeInv'
  BY <1>21 DEF CallerDropped
<1>22. CASE UNCHANGED <<system, history>>
  BY <1>22 DEF system
<1> HIDE DEF TypeInv, CallerStates, TaskStates, Results, Terminal, Kinds, history
<1> QED
  BY <1>1, <1>2, <1>3, <1>4, <1>5, <1>6, <1>7, <1>8, <1>9, <1>10, <1>11, <1>12, <1>13, <1>14,
     <1>15, <1>16, <1>17, <1>18, <1>19, <1>20, <1>21, <1>22
  DEF Next, CallerStep, TaskStep, BootStep, WaitStep, WaitBegin, WaitCheck, WaitPark, WaitTimeout,
      Results, vars, system, history

-----------------------------------------------------------------------------
(* What is on disk.                                                        *)

\* No step takes an intent off the disk, and only a result or the replay limit
\* closes one.
LEMMA DiskStep ==
    ASSUME TypeInv, OnDisk, AtLeastOnce, [Next]_vars
    PROVE  OnDisk' /\ AtLeastOnce'
<1> USE AttemptFacts DEF TypeInv, OnDisk, AtLeastOnce, CallerStates, TaskStates, Results, Terminal, Kinds, history, NoIntent
<1>1. ASSUME NEW r \in Runs, Spawn(r)
      PROVE  OnDisk' /\ AtLeastOnce'
  BY <1>1 DEF Spawn, InsertPending
<1>2. ASSUME NEW r \in Runs, Cancel(r)
      PROVE  OnDisk' /\ AtLeastOnce'
  BY <1>2 DEF Cancel, TerminalState
<1>3. ASSUME NEW a \in Attempts, Persist(a)
      PROVE  OnDisk' /\ AtLeastOnce'
  BY <1>3 DEF Persist, AfterPersist
<1>4. ASSUME NEW a \in Attempts, PersistFails(a)
      PROVE  OnDisk' /\ AtLeastOnce'
  BY <1>4 DEF PersistFails, AfterPersist
<1>5. ASSUME NEW a \in Attempts, Launch(a)
      PROVE  OnDisk' /\ AtLeastOnce'
  BY <1>5 DEF Launch
<1>6. ASSUME NEW a \in Attempts, RegisterHook(a)
      PROVE  OnDisk' /\ AtLeastOnce'
  BY <1>6, HookSlot, SMTT(30) DEF RegisterHook
<1>7. ASSUME NEW a \in Attempts, TaskStart(a)
      PROVE  OnDisk' /\ AtLeastOnce'
  BY <1>7, StartSlot DEF TaskStart, MarkRunning
<1>8. ASSUME NEW a \in Attempts, NEW s \in Results, TaskFinish(a, s)
      PROVE  OnDisk' /\ AtLeastOnce'
  BY <1>8, FinishSlot DEF TaskFinish, MarkTerminal, TerminalState
<1>9. ASSUME NEW a \in Attempts, IntentGet(a)
      PROVE  OnDisk' /\ AtLeastOnce'
  BY <1>9 DEF IntentGet
<1>10. ASSUME NEW a \in Attempts, IntentPut(a)
      PROVE  OnDisk' /\ AtLeastOnce'
  BY <1>10, PutIntent DEF IntentPut
<1>11. ASSUME NEW a \in Attempts, IntentFails(a)
      PROVE  OnDisk' /\ AtLeastOnce'
  BY <1>11 DEF IntentFails
<1>12. CASE ListUnterminated
  BY <1>12 DEF ListUnterminated
<1>13. CASE ListFails \/ BootDone
  BY <1>13 DEF ListFails, BootDone
<1>14. ASSUME NEW q \in queue, ReplayGiveUp(q)
      PROVE  OnDisk' /\ AtLeastOnce'
  BY <1>14, GiveUpIntent, QueueFacts DEF ReplayGiveUp
<1>15. ASSUME NEW q \in queue, ReplayGiveUpFails(q)
      PROVE  OnDisk' /\ AtLeastOnce'
  BY <1>15, QueueFacts DEF ReplayGiveUpFails
<1>16. ASSUME NEW q \in queue, ReplayCount(q)
      PROVE  OnDisk' /\ AtLeastOnce'
  BY <1>16, QueueFacts DEF ReplayCount
<1>17. ASSUME NEW q \in queue, ReplayCountFails(q)
      PROVE  OnDisk' /\ AtLeastOnce'
  BY <1>17, QueueFacts DEF ReplayCountFails
<1>18. ASSUME NEW r \in Runs, ReplayMissing(r)
      PROVE  OnDisk' /\ AtLeastOnce'
  BY <1>18 DEF ReplayMissing
<1>19. ASSUME NEW r \in Runs, ReplaySpawn(r)
      PROVE  OnDisk' /\ AtLeastOnce'
  BY <1>19 DEF ReplaySpawn, InsertPending
<1>20. ASSUME NEW present \in SUBSET Runs, CrashRestart(present)
      PROVE  OnDisk' /\ AtLeastOnce'
  BY <1>20 DEF CrashRestart, NoSlot
<1>21. ASSUME NEW r \in Runs, CallerDropped(r)
      PROVE  OnDisk' /\ AtLeastOnce'
  BY <1>21 DEF CallerDropped
<1>22. CASE UNCHANGED <<system, history>>
  BY <1>22 DEF system
<1> HIDE DEF TypeInv, OnDisk, AtLeastOnce, CallerStates, TaskStates, Results, Terminal, Kinds, history, NoIntent
<1> QED
  BY <1>1, <1>2, <1>3, <1>4, <1>5, <1>6, <1>7, <1>8, <1>9, <1>10, <1>11, <1>12, <1>13, <1>14,
     <1>15, <1>16, <1>17, <1>18, <1>19, <1>20, <1>21, <1>22
  DEF Next, CallerStep, TaskStep, BootStep, WaitStep, WaitBegin, WaitCheck, WaitPark, WaitTimeout,
      Results, vars, system, history

-----------------------------------------------------------------------------
(* The registry.                                                           *)

\* Replays and tasks are of intents that are on disk.
LEMMA StoringStep ==
    ASSUME TypeInv, OnDisk, FreshIds, Storing, [Next]_vars
    PROVE  Storing'
<1> USE AttemptFacts DEF TypeInv, OnDisk, FreshIds, Storing, CallerStates, TaskStates, Results, Terminal, Kinds, history
<1>1. ASSUME NEW r \in Runs, Spawn(r)
      PROVE  Storing'
  BY <1>1 DEF Spawn, InsertPending
<1>2. ASSUME NEW r \in Runs, Cancel(r)
      PROVE  Storing'
  BY <1>2 DEF Cancel, TerminalState, Known
<1>3. ASSUME NEW a \in Attempts, Persist(a)
      PROVE  Storing'
  BY <1>3 DEF Persist, AfterPersist
<1>4. ASSUME NEW a \in Attempts, PersistFails(a)
      PROVE  Storing'
  BY <1>4 DEF PersistFails, AfterPersist
<1>5. ASSUME NEW a \in Attempts, Launch(a)
      PROVE  Storing'
  BY <1>5 DEF Launch
<1>6. ASSUME NEW a \in Attempts, RegisterHook(a)
      PROVE  Storing'
  <2>1. a[1] \in Runs /\ <<a[1], "spawn">> \in Attempts /\ caller[a] = "hook"
    BY <1>6 DEF RegisterHook
  <2>2. caller[<<a[1], "spawn">>] \notin {"persist", "left"}
    <3>1. CASE a = <<a[1], "spawn">>
      BY <2>1, <3>1
    <3>2. CASE a = <<a[1], "replay">>
      BY <2>1, <3>2
    <3> QED
      BY <3>1, <3>2
  <2>3. /\ \A r \in Runs \ {a[1]} : slots'[r] = slots[r]
        /\ UNCHANGED <<intents, task>> /\ accepted' = accepted \cup {a[1]}
        /\ \A b \in Attempts : caller'[b] \in {"persist", "left"} => caller'[b] = caller[b]
    BY <1>6, <2>1 DEF RegisterHook
  <2>4. ASSUME NEW r \in Runs, caller'[<<r, "spawn">>] \in {"persist", "left"}
        PROVE  r # a[1] /\ caller[<<r, "spawn">>] \in {"persist", "left"}
    <3>1. <<r, "spawn">> \in Attempts
      OBVIOUS
    <3>2. caller[<<r, "spawn">>] \in {"persist", "left"}
      BY <2>3, <2>4, <3>1
    <3> QED
      BY <2>2, <3>2
  <2> QED
    BY <2>3, <2>4
<1>7. ASSUME NEW a \in Attempts, TaskStart(a)
      PROVE  Storing'
  <2>1. a[1] \in Runs /\ task[a] # "none" /\ a = <<a[1], a[2]>> /\ a[2] \in Kinds
    BY <1>7 DEF TaskStart
  <2>2. caller[<<a[1], "spawn">>] \notin {"persist", "left"}
    <3> SUFFICES ASSUME caller[<<a[1], "spawn">>] \in {"persist", "left"} PROVE FALSE
      OBVIOUS
    <3>1. task[<<a[1], a[2]>>] = "none"
      BY <2>1
    <3> QED
      BY <2>1, <3>1
  <2>3. /\ \A r \in Runs \ {a[1]} : slots'[r] = slots[r] /\ intents'[r] = intents[r]
        /\ UNCHANGED <<caller, accepted>>
        /\ \A b \in Attempts : task[b] = "none" => task'[b] = "none"
    BY <1>7, <2>1 DEF TaskStart, MarkRunning
  <2>4. ASSUME NEW r \in Runs, caller'[<<r, "spawn">>] \in {"persist", "left"}
        PROVE  r # a[1] /\ caller[<<r, "spawn">>] \in {"persist", "left"}
    <3>1. <<r, "spawn">> \in Attempts
      OBVIOUS
    <3>2. caller[<<r, "spawn">>] \in {"persist", "left"}
      BY <2>3, <2>4, <3>1
    <3> QED
      BY <2>2, <3>2
  <2> QED
    BY <2>3, <2>4
<1>8. ASSUME NEW a \in Attempts, NEW s \in Results, TaskFinish(a, s)
      PROVE  Storing'
  <2>1. a[1] \in Runs /\ task[a] # "none" /\ a = <<a[1], a[2]>> /\ a[2] \in Kinds
    BY <1>8 DEF TaskFinish
  <2>2. caller[<<a[1], "spawn">>] \notin {"persist", "left"}
    <3> SUFFICES ASSUME caller[<<a[1], "spawn">>] \in {"persist", "left"} PROVE FALSE
      OBVIOUS
    <3>1. task[<<a[1], a[2]>>] = "none"
      BY <2>1
    <3> QED
      BY <2>1, <3>1
  <2>3. /\ \A r \in Runs \ {a[1]} : slots'[r] = slots[r] /\ intents'[r] = intents[r]
        /\ UNCHANGED <<caller, accepted>>
        /\ \A b \in Attempts : task[b] = "none" => task'[b] = "none"
    BY <1>8, <2>1 DEF TaskFinish, MarkTerminal
  <2>4. ASSUME NEW r \in Runs, caller'[<<r, "spawn">>] \in {"persist", "left"}
        PROVE  r # a[1] /\ caller[<<r, "spawn">>] \in {"persist", "left"}
    <3>1. <<r, "spawn">> \in Attempts
      OBVIOUS
    <3>2. caller[<<r, "spawn">>] \in {"persist", "left"}
      BY <2>3, <2>4, <3>1
    <3> QED
      BY <2>2, <3>2
  <2> QED
    BY <2>3, <2>4
<1>9. ASSUME NEW a \in Attempts, IntentGet(a)
      PROVE  Storing'
  BY <1>9 DEF IntentGet
<1>10. ASSUME NEW a \in Attempts, IntentPut(a)
      PROVE  Storing'
  <2>1. a[1] \in Runs /\ task[a] # "none" /\ a = <<a[1], a[2]>> /\ a[2] \in Kinds
    BY <1>10 DEF IntentPut
  <2>2. caller[<<a[1], "spawn">>] \notin {"persist", "left"}
    <3> SUFFICES ASSUME caller[<<a[1], "spawn">>] \in {"persist", "left"} PROVE FALSE
      OBVIOUS
    <3>1. task[<<a[1], a[2]>>] = "none"
      BY <2>1
    <3> QED
      BY <2>1, <3>1
  <2>3. /\ \A r \in Runs \ {a[1]} : slots'[r] = slots[r] /\ intents'[r] = intents[r]
        /\ UNCHANGED <<caller, accepted>>
        /\ \A b \in Attempts : task[b] = "none" => task'[b] = "none"
    BY <1>10, <2>1 DEF IntentPut
  <2>4. ASSUME NEW r \in Runs, caller'[<<r, "spawn">>] \in {"persist", "left"}
        PROVE  r # a[1] /\ caller[<<r, "spawn">>] \in {"persist", "left"}
    <3>1. <<r, "spawn">> \in Attempts
      OBVIOUS
    <3>2. caller[<<r, "spawn">>] \in {"persist", "left"}
      BY <2>3, <2>4, <3>1
    <3> QED
      BY <2>2, <3>2
  <2> QED
    BY <2>3, <2>4
<1>11. ASSUME NEW a \in Attempts, IntentFails(a)
      PROVE  Storing'
  BY <1>11 DEF IntentFails
<1>12. CASE ListUnterminated
  BY <1>12 DEF ListUnterminated
<1>13. CASE ListFails \/ BootDone
  BY <1>13 DEF ListFails, BootDone
<1>14. ASSUME NEW q \in queue, ReplayGiveUp(q)
      PROVE  Storing'
  BY <1>14, GiveUpIntent, QueueFacts DEF ReplayGiveUp
<1>15. ASSUME NEW q \in queue, ReplayGiveUpFails(q)
      PROVE  Storing'
  BY <1>15, QueueFacts DEF ReplayGiveUpFails
<1>16. ASSUME NEW q \in queue, ReplayCount(q)
      PROVE  Storing'
  BY <1>16, QueueFacts DEF ReplayCount, NoReplayInProgress
<1>17. ASSUME NEW q \in queue, ReplayCountFails(q)
      PROVE  Storing'
  BY <1>17, QueueFacts DEF ReplayCountFails, NoReplayInProgress
<1>18. ASSUME NEW r \in Runs, ReplayMissing(r)
      PROVE  Storing'
  BY <1>18 DEF ReplayMissing
<1>19. ASSUME NEW r \in Runs, ReplaySpawn(r)
      PROVE  Storing'
  BY <1>19 DEF ReplaySpawn, InsertPending
<1>20. ASSUME NEW present \in SUBSET Runs, CrashRestart(present)
      PROVE  Storing'
  BY <1>20 DEF CrashRestart, NoSlot
<1>21. ASSUME NEW r \in Runs, CallerDropped(r)
      PROVE  Storing'
  BY <1>21 DEF CallerDropped
<1>22. CASE UNCHANGED <<system, history>>
  BY <1>22 DEF system
<1> HIDE DEF TypeInv, OnDisk, FreshIds, Storing, CallerStates, TaskStates, Results, Terminal, Kinds, history
<1> QED
  BY <1>1, <1>2, <1>3, <1>4, <1>5, <1>6, <1>7, <1>8, <1>9, <1>10, <1>11, <1>12, <1>13, <1>14,
     <1>15, <1>16, <1>17, <1>18, <1>19, <1>20, <1>21, <1>22
  DEF Next, CallerStep, TaskStep, BootStep, WaitStep, WaitBegin, WaitCheck, WaitPark, WaitTimeout,
      Results, vars, system, history

\* The task of a caller that is about to return ends only with its record.
LEMMA StartedStep ==
    ASSUME TypeInv, FreshIds, Started, [Next]_vars
    PROVE  Started'
<1> USE AttemptFacts DEF TypeInv, FreshIds, Started, LiveTask, InSpawn, CallerStates, TaskStates, Results, Terminal, Kinds, history
<1>1. ASSUME NEW r \in Runs, Spawn(r)
      PROVE  Started'
  BY <1>1 DEF Spawn, InsertPending
<1>2. ASSUME NEW r \in Runs, Cancel(r)
      PROVE  Started'
  BY <1>2 DEF Cancel, TerminalState
<1>3. ASSUME NEW a \in Attempts, Persist(a)
      PROVE  Started'
  BY <1>3 DEF Persist, AfterPersist
<1>4. ASSUME NEW a \in Attempts, PersistFails(a)
      PROVE  Started'
  BY <1>4 DEF PersistFails, AfterPersist
<1>5. ASSUME NEW a \in Attempts, Launch(a)
      PROVE  Started'
  BY <1>5 DEF Launch
<1>6. ASSUME NEW a \in Attempts, RegisterHook(a)
      PROVE  Started'
  <2>1. \A r \in Runs : slots'[r].state = slots[r].state
    <3>1. a[1] \in Runs
      OBVIOUS
    <3>2. slots' = [slots EXCEPT ![a[1]] = [state |-> slots[a[1]].state, hook |-> a[2]]]
      BY <1>6, HookSlot
    <3> QED
      BY <3>1, <3>2
  <2>2. task' = task /\ \A b \in Attempts : caller'[b] = "hook" => caller[b] = "hook"
    BY <1>6 DEF RegisterHook
  <2> QED
    BY <2>1, <2>2
<1>7. ASSUME NEW a \in Attempts, TaskStart(a)
      PROVE  Started'
  BY <1>7, StartSlot DEF TaskStart, MarkRunning
<1>8. ASSUME NEW a \in Attempts, NEW s \in Results, TaskFinish(a, s)
      PROVE  Started'
  BY <1>8, FinishSlot DEF TaskFinish, MarkTerminal, TerminalState
<1>9. ASSUME NEW a \in Attempts, IntentGet(a)
      PROVE  Started'
  BY <1>9 DEF IntentGet
<1>10. ASSUME NEW a \in Attempts, IntentPut(a)
      PROVE  Started'
  BY <1>10, PutIntent DEF IntentPut
<1>11. ASSUME NEW a \in Attempts, IntentFails(a)
      PROVE  Started'
  BY <1>11 DEF IntentFails
<1>12. CASE ListUnterminated
  BY <1>12 DEF ListUnterminated
<1>13. CASE ListFails \/ BootDone
  BY <1>13 DEF ListFails, BootDone
<1>14. ASSUME NEW q \in queue, ReplayGiveUp(q)
      PROVE  Started'
  BY <1>14, GiveUpIntent, QueueFacts DEF ReplayGiveUp
<1>15. ASSUME NEW q \in queue, ReplayGiveUpFails(q)
      PROVE  Started'
  BY <1>15, QueueFacts DEF ReplayGiveUpFails
<1>16. ASSUME NEW q \in queue, ReplayCount(q)
      PROVE  Started'
  BY <1>16, QueueFacts DEF ReplayCount, NoReplayInProgress
<1>17. ASSUME NEW q \in queue, ReplayCountFails(q)
      PROVE  Started'
  BY <1>17, QueueFacts DEF ReplayCountFails, NoReplayInProgress
<1>18. ASSUME NEW r \in Runs, ReplayMissing(r)
      PROVE  Started'
  BY <1>18 DEF ReplayMissing
<1>19. ASSUME NEW r \in Runs, ReplaySpawn(r)
      PROVE  Started'
  BY <1>19 DEF ReplaySpawn, InsertPending
<1>20. ASSUME NEW present \in SUBSET Runs, CrashRestart(present)
      PROVE  Started'
  BY <1>20 DEF CrashRestart, NoSlot
<1>21. ASSUME NEW r \in Runs, CallerDropped(r)
      PROVE  Started'
  BY <1>21 DEF CallerDropped
<1>22. CASE UNCHANGED <<system, history>>
  BY <1>22 DEF system
<1> HIDE DEF TypeInv, FreshIds, Started, LiveTask, InSpawn, CallerStates, TaskStates, Results, Terminal, Kinds, history
<1> QED
  BY <1>1, <1>2, <1>3, <1>4, <1>5, <1>6, <1>7, <1>8, <1>9, <1>10, <1>11, <1>12, <1>13, <1>14,
     <1>15, <1>16, <1>17, <1>18, <1>19, <1>20, <1>21, <1>22
  DEF Next, CallerStep, TaskStep, BootStep, WaitStep, WaitBegin, WaitCheck, WaitPark, WaitTimeout,
      Results, vars, system, history

\* A step that ends the last task of a run also ends its record.
LEMMA StuckStep ==
    ASSUME TypeInv, FreshIds, Storing, SomebodyWorks, Started, [Next]_vars
    PROVE  SomebodyWorks'
<1> USE AttemptFacts DEF TypeInv, FreshIds, SomebodyWorks, Started, LiveTask, InSpawn, CallerStates, TaskStates, Results, Terminal, Kinds, history
<1>1. ASSUME NEW r \in Runs, Spawn(r)
      PROVE  SomebodyWorks'
  BY <1>1 DEF Spawn, InsertPending
<1>2. ASSUME NEW r \in Runs, Cancel(r)
      PROVE  SomebodyWorks'
  BY <1>2 DEF Cancel, TerminalState
<1>3. ASSUME NEW a \in Attempts, Persist(a)
      PROVE  SomebodyWorks'
  <2>1. UNCHANGED <<slots, task, accepted>>
    BY <1>3 DEF Persist
  <2>2. \A b \in Attempts : /\ InSpawn(b) => caller'[b] \in {"persist", "launch"}
                            /\ caller[b] \in {"left", "gone"} => caller'[b] \in {"left", "gone"}
    BY <1>3 DEF Persist, AfterPersist
  <2> QED
    BY <2>1, <2>2
<1>4. ASSUME NEW a \in Attempts, PersistFails(a)
      PROVE  SomebodyWorks'
  <2>1. UNCHANGED <<slots, task, accepted>>
    BY <1>4 DEF PersistFails
  <2>2. \A b \in Attempts : /\ InSpawn(b) => caller'[b] \in {"persist", "launch"}
                            /\ caller[b] \in {"left", "gone"} => caller'[b] \in {"left", "gone"}
    BY <1>4 DEF PersistFails, AfterPersist
  <2> QED
    BY <2>1, <2>2
<1>5. ASSUME NEW a \in Attempts, Launch(a)
      PROVE  SomebodyWorks'
  BY <1>5 DEF Launch
<1>6. ASSUME NEW a \in Attempts, RegisterHook(a)
      PROVE  SomebodyWorks'
  <2>1. \A r \in Runs : slots'[r].state = slots[r].state
    <3>1. a[1] \in Runs
      OBVIOUS
    <3>2. slots' = [slots EXCEPT ![a[1]] = [state |-> slots[a[1]].state, hook |-> a[2]]]
      BY <1>6, HookSlot
    <3> QED
      BY <3>1, <3>2
  <2>2. /\ task' = task /\ accepted' = accepted \cup {a[1]}
        /\ \A b \in Attempts : caller[b] \in {"persist", "launch", "left", "gone"} => caller'[b] = caller[b]
    BY <1>6 DEF RegisterHook
  <2>3. /\ a[1] \in Runs /\ caller[a] = "hook" /\ a \in {<<a[1], "spawn">>, <<a[1], "replay">>}
        /\ \A k \in Kinds : <<a[1], k>> \in Attempts
    BY <1>6 DEF RegisterHook
  <2>4. ASSUME NEW r \in Runs, slots[r].state \in {"pending", "running"}, r # a[1]
        PROVE  \/ \E k \in Kinds : LiveTask(<<r, k>>)' \/ InSpawn(<<r, k>>)'
               \/ slots'[r].state = "pending" /\ r \notin accepted' /\ caller'[<<r, "spawn">>] \in {"left", "gone"}
    BY <2>1, <2>2, <2>4
  <2>5. slots[a[1]].state \in {"pending", "running"} =>
           \E k \in Kinds : LiveTask(<<a[1], k>>) \/ InSpawn(<<a[1], k>>)
    <3>1. CASE a = <<a[1], "spawn">>
      BY <2>3, <3>1
    <3>2. CASE a = <<a[1], "replay">>
      <4>1. LiveTask(<<a[1], "replay">>) \/ slots[a[1]].state \in Terminal
        BY <2>3, <3>2 DEF Started
      <4> QED
        BY <4>1
    <3> QED
      BY <2>3, <3>1, <3>2
  <2>6. slots[a[1]].state \in {"pending", "running"} =>
           \E k \in Kinds : LiveTask(<<a[1], k>>)' \/ InSpawn(<<a[1], k>>)'
    BY <2>2, <2>3, <2>5
  <2> SUFFICES ASSUME NEW r \in Runs, slots'[r].state \in {"pending", "running"}
               PROVE  \/ \E k \in Kinds : LiveTask(<<r, k>>)' \/ InSpawn(<<r, k>>)'
                      \/ slots'[r].state = "pending" /\ r \notin accepted' /\ caller'[<<r, "spawn">>] \in {"left", "gone"}
    BY DEF SomebodyWorks
  <2>7. slots[r].state \in {"pending", "running"}
    BY <2>1
  <2>8. CASE r = a[1]
    BY <2>6, <2>7, <2>8
  <2> QED
    BY <2>4, <2>7, <2>8
<1>7. ASSUME NEW a \in Attempts, TaskStart(a)
      PROVE  SomebodyWorks'
  BY <1>7, StartSlot DEF TaskStart, MarkRunning
<1>8. ASSUME NEW a \in Attempts, NEW s \in Results, TaskFinish(a, s)
      PROVE  SomebodyWorks'
  BY <1>8, FinishSlot DEF TaskFinish, MarkTerminal, TerminalState
<1>9. ASSUME NEW a \in Attempts, IntentGet(a)
      PROVE  SomebodyWorks'
  <2>1. UNCHANGED <<slots, caller, accepted>>
    BY <1>9 DEF IntentGet
  <2>2. \A b \in Attempts : LiveTask(b) => task'[b] = task[b]
    BY <1>9 DEF IntentGet
  <2> QED
    BY <2>1, <2>2
<1>10. ASSUME NEW a \in Attempts, IntentPut(a)
      PROVE  SomebodyWorks'
  <2>1. UNCHANGED <<slots, caller, accepted>>
    BY <1>10 DEF IntentPut
  <2>2. \A b \in Attempts : LiveTask(b) => task'[b] = task[b]
    BY <1>10 DEF IntentPut
  <2> QED
    BY <2>1, <2>2
<1>11. ASSUME NEW a \in Attempts, IntentFails(a)
      PROVE  SomebodyWorks'
  <2>1. UNCHANGED <<slots, caller, accepted>>
    BY <1>11 DEF IntentFails
  <2>2. \A b \in Attempts : LiveTask(b) => task'[b] = task[b]
    BY <1>11 DEF IntentFails
  <2> QED
    BY <2>1, <2>2
<1>12. CASE ListUnterminated
  BY <1>12 DEF ListUnterminated
<1>13. CASE ListFails \/ BootDone
  BY <1>13 DEF ListFails, BootDone
<1>14. ASSUME NEW q \in queue, ReplayGiveUp(q)
      PROVE  SomebodyWorks'
  BY <1>14, GiveUpIntent, QueueFacts DEF ReplayGiveUp
<1>15. ASSUME NEW q \in queue, ReplayGiveUpFails(q)
      PROVE  SomebodyWorks'
  BY <1>15, QueueFacts DEF ReplayGiveUpFails
<1>16. ASSUME NEW q \in queue, ReplayCount(q)
      PROVE  SomebodyWorks'
  BY <1>16, QueueFacts DEF ReplayCount, NoReplayInProgress
<1>17. ASSUME NEW q \in queue, ReplayCountFails(q)
      PROVE  SomebodyWorks'
  BY <1>17, QueueFacts DEF ReplayCountFails, NoReplayInProgress
<1>18. ASSUME NEW r \in Runs, ReplayMissing(r)
      PROVE  SomebodyWorks'
  BY <1>18 DEF ReplayMissing
<1>19. ASSUME NEW r \in Runs, ReplaySpawn(r)
      PROVE  SomebodyWorks'
  BY <1>19 DEF ReplaySpawn, InsertPending
<1>20. ASSUME NEW present \in SUBSET Runs, CrashRestart(present)
      PROVE  SomebodyWorks'
  BY <1>20 DEF CrashRestart, NoSlot
<1>21. ASSUME NEW r \in Runs, CallerDropped(r)
      PROVE  SomebodyWorks'
  <2>1. UNCHANGED <<slots, task, accepted>> /\ caller[<<r, "spawn">>] = "persist"
    BY <1>21 DEF CallerDropped
  <2>2. /\ caller'[<<r, "spawn">>] = "left"
        /\ \A b \in Attempts \ {<<r, "spawn">>} : caller'[b] = caller[b]
    BY <1>21 DEF CallerDropped
  <2>3. slots[r].state = "pending" /\ r \notin accepted
    BY <2>1 DEF Storing
  <2>4. ASSUME NEW x \in Runs \ {r}, slots[x].state \in {"pending", "running"}
        PROVE  \/ \E k \in Kinds : LiveTask(<<x, k>>)' \/ InSpawn(<<x, k>>)'
               \/ slots'[x].state = "pending" /\ x \notin accepted' /\ caller'[<<x, "spawn">>] \in {"left", "gone"}
    BY <2>1, <2>2, <2>4
  <2> QED
    BY <2>1, <2>2, <2>3, <2>4
<1>22. CASE UNCHANGED <<system, history>>
  BY <1>22 DEF system
<1> HIDE DEF TypeInv, FreshIds, SomebodyWorks, Started, LiveTask, InSpawn, CallerStates, TaskStates, Results, Terminal, Kinds, history
<1> QED
  BY <1>1, <1>2, <1>3, <1>4, <1>5, <1>6, <1>7, <1>8, <1>9, <1>10, <1>11, <1>12, <1>13, <1>14,
     <1>15, <1>16, <1>17, <1>18, <1>19, <1>20, <1>21, <1>22
  DEF Next, CallerStep, TaskStep, BootStep, WaitStep, WaitBegin, WaitCheck, WaitPark, WaitTimeout,
      Results, vars, system, history

\* Counts rise only in a boot, by one over what it listed.
LEMMA CountStep ==
    ASSUME TypeInv, CountsLag, GivesUpLate, [Next]_vars
    PROVE  CountsLag' /\ GivesUpLate'
<1> USE AttemptFacts, RunnerAssumption DEF TypeInv, CountsLag, GivesUpLate, history
<1>1. ASSUME NEW r \in Runs, Spawn(r)
      PROVE  CountsLag' /\ GivesUpLate'
  BY <1>1 DEF Spawn, InsertPending
<1>2. ASSUME NEW r \in Runs, Cancel(r)
      PROVE  CountsLag' /\ GivesUpLate'
  BY <1>2 DEF Cancel, TerminalState
<1>3. ASSUME NEW a \in Attempts, Persist(a)
      PROVE  CountsLag' /\ GivesUpLate'
  BY <1>3 DEF Persist, AfterPersist
<1>4. ASSUME NEW a \in Attempts, PersistFails(a)
      PROVE  CountsLag' /\ GivesUpLate'
  BY <1>4 DEF PersistFails, AfterPersist
<1>5. ASSUME NEW a \in Attempts, Launch(a)
      PROVE  CountsLag' /\ GivesUpLate'
  BY <1>5 DEF Launch
<1>6. ASSUME NEW a \in Attempts, RegisterHook(a)
      PROVE  CountsLag' /\ GivesUpLate'
  BY <1>6, HookSlot DEF RegisterHook
<1>7. ASSUME NEW a \in Attempts, TaskStart(a)
      PROVE  CountsLag' /\ GivesUpLate'
  BY <1>7, StartSlot DEF TaskStart, MarkRunning
<1>8. ASSUME NEW a \in Attempts, NEW s \in Results, TaskFinish(a, s)
      PROVE  CountsLag' /\ GivesUpLate'
  BY <1>8, FinishSlot DEF TaskFinish, MarkTerminal, TerminalState
<1>9. ASSUME NEW a \in Attempts, IntentGet(a)
      PROVE  CountsLag' /\ GivesUpLate'
  BY <1>9 DEF IntentGet
<1>10. ASSUME NEW a \in Attempts, IntentPut(a)
      PROVE  CountsLag' /\ GivesUpLate'
  BY <1>10, PutIntent DEF IntentPut
<1>11. ASSUME NEW a \in Attempts, IntentFails(a)
      PROVE  CountsLag' /\ GivesUpLate'
  BY <1>11 DEF IntentFails
<1>12. CASE ListUnterminated
  BY <1>12 DEF ListUnterminated
<1>13. CASE ListFails \/ BootDone
  BY <1>13 DEF ListFails, BootDone
<1>14. ASSUME NEW q \in queue, ReplayGiveUp(q)
      PROVE  CountsLag' /\ GivesUpLate'
  BY <1>14, GiveUpIntent, QueueFacts DEF ReplayGiveUp
<1>15. ASSUME NEW q \in queue, ReplayGiveUpFails(q)
      PROVE  CountsLag' /\ GivesUpLate'
  BY <1>15, QueueFacts DEF ReplayGiveUpFails
<1>16. ASSUME NEW q \in queue, ReplayCount(q)
      PROVE  CountsLag' /\ GivesUpLate'
  BY <1>16, QueueFacts DEF ReplayCount
<1>17. ASSUME NEW q \in queue, ReplayCountFails(q)
      PROVE  CountsLag' /\ GivesUpLate'
  BY <1>17, QueueFacts DEF ReplayCountFails
<1>18. ASSUME NEW r \in Runs, ReplayMissing(r)
      PROVE  CountsLag' /\ GivesUpLate'
  BY <1>18 DEF ReplayMissing
<1>19. ASSUME NEW r \in Runs, ReplaySpawn(r)
      PROVE  CountsLag' /\ GivesUpLate'
  BY <1>19 DEF ReplaySpawn, InsertPending
<1>20. ASSUME NEW present \in SUBSET Runs, CrashRestart(present)
      PROVE  CountsLag' /\ GivesUpLate'
  BY <1>20 DEF CrashRestart, NoSlot
<1>21. ASSUME NEW r \in Runs, CallerDropped(r)
      PROVE  CountsLag' /\ GivesUpLate'
  BY <1>21 DEF CallerDropped
<1>22. CASE UNCHANGED <<system, history>>
  BY <1>22 DEF system
<1> HIDE DEF TypeInv, CountsLag, GivesUpLate, history
<1> QED
  BY <1>1, <1>2, <1>3, <1>4, <1>5, <1>6, <1>7, <1>8, <1>9, <1>10, <1>11, <1>12, <1>13, <1>14,
     <1>15, <1>16, <1>17, <1>18, <1>19, <1>20, <1>21, <1>22
  DEF Next, CallerStep, TaskStep, BootStep, WaitStep, WaitBegin, WaitCheck, WaitPark, WaitTimeout,
      Results, vars, system, history

\* Ids are handed out before anything is made of them.
LEMMA FreshStep ==
    ASSUME TypeInv, OnDisk, FreshIds, [Next]_vars
    PROVE  FreshIds'
<1> USE AttemptFacts DEF TypeInv, OnDisk, FreshIds, Kinds, history
<1>1. ASSUME NEW r \in Runs, Spawn(r)
      PROVE  FreshIds'
  BY <1>1 DEF Spawn, InsertPending
<1>2. ASSUME NEW r \in Runs, Cancel(r)
      PROVE  FreshIds'
  BY <1>2 DEF Cancel, TerminalState, Known
<1>3. ASSUME NEW a \in Attempts, Persist(a)
      PROVE  FreshIds'
  BY <1>3 DEF Persist, AfterPersist
<1>4. ASSUME NEW a \in Attempts, PersistFails(a)
      PROVE  FreshIds'
  BY <1>4 DEF PersistFails, AfterPersist
<1>5. ASSUME NEW a \in Attempts, Launch(a)
      PROVE  FreshIds'
  BY <1>5 DEF Launch
<1>6. ASSUME NEW a \in Attempts, RegisterHook(a)
      PROVE  FreshIds'
  BY <1>6, HookSlot DEF RegisterHook
<1>7. ASSUME NEW a \in Attempts, TaskStart(a)
      PROVE  FreshIds'
  BY <1>7, StartSlot DEF TaskStart, MarkRunning
<1>8. ASSUME NEW a \in Attempts, NEW s \in Results, TaskFinish(a, s)
      PROVE  FreshIds'
  BY <1>8, FinishSlot DEF TaskFinish, MarkTerminal, TerminalState
<1>9. ASSUME NEW a \in Attempts, IntentGet(a)
      PROVE  FreshIds'
  BY <1>9 DEF IntentGet
<1>10. ASSUME NEW a \in Attempts, IntentPut(a)
      PROVE  FreshIds'
  BY <1>10, PutIntent DEF IntentPut
<1>11. ASSUME NEW a \in Attempts, IntentFails(a)
      PROVE  FreshIds'
  BY <1>11 DEF IntentFails
<1>12. CASE ListUnterminated
  BY <1>12 DEF ListUnterminated
<1>13. CASE ListFails \/ BootDone
  BY <1>13 DEF ListFails, BootDone
<1>14. ASSUME NEW q \in queue, ReplayGiveUp(q)
      PROVE  FreshIds'
  BY <1>14, GiveUpIntent, QueueFacts DEF ReplayGiveUp
<1>15. ASSUME NEW q \in queue, ReplayGiveUpFails(q)
      PROVE  FreshIds'
  BY <1>15, QueueFacts DEF ReplayGiveUpFails
<1>16. ASSUME NEW q \in queue, ReplayCount(q)
      PROVE  FreshIds'
  BY <1>16, QueueFacts DEF ReplayCount
<1>17. ASSUME NEW q \in queue, ReplayCountFails(q)
      PROVE  FreshIds'
  BY <1>17, QueueFacts DEF ReplayCountFails
<1>18. ASSUME NEW r \in Runs, ReplayMissing(r)
      PROVE  FreshIds'
  BY <1>18 DEF ReplayMissing
<1>19. ASSUME NEW r \in Runs, ReplaySpawn(r)
      PROVE  FreshIds'
  BY <1>19 DEF ReplaySpawn, InsertPending
<1>20. ASSUME NEW present \in SUBSET Runs, CrashRestart(present)
      PROVE  FreshIds'
  BY <1>20 DEF CrashRestart, NoSlot
<1>21. ASSUME NEW r \in Runs, CallerDropped(r)
      PROVE  FreshIds'
  BY <1>21 DEF CallerDropped
<1>22. CASE UNCHANGED <<system, history>>
  BY <1>22 DEF system
<1> HIDE DEF TypeInv, OnDisk, FreshIds, Kinds, history
<1> QED
  BY <1>1, <1>2, <1>3, <1>4, <1>5, <1>6, <1>7, <1>8, <1>9, <1>10, <1>11, <1>12, <1>13, <1>14,
     <1>15, <1>16, <1>17, <1>18, <1>19, <1>20, <1>21, <1>22
  DEF Next, CallerStep, TaskStep, BootStep, WaitStep, WaitBegin, WaitCheck, WaitPark, WaitTimeout,
      Results, vars, system, history

-----------------------------------------------------------------------------
(* The theorems.                                                           *)

LEMMA InitRunner == Init => RunnerInv
<1> SUFFICES ASSUME Init PROVE RunnerInv
  OBVIOUS
<1>1. TypeInv
  BY DEF Init, TypeInv, NoSlot, NoIntent, CallerStates, TaskStates
<1>2. OnDisk /\ AtLeastOnce
  BY AttemptFacts DEF Init, OnDisk, AtLeastOnce, NoIntent, Terminal, Kinds
<1>3. SomebodyWorks /\ Started /\ Storing
  BY AttemptFacts DEF Init, SomebodyWorks, Started, Storing, NoSlot, Kinds
<1>4. CountsLag /\ GivesUpLate
  BY DEF Init, CountsLag, GivesUpLate, NoIntent
<1>5. FreshIds
  BY AttemptFacts DEF Init, FreshIds, NoSlot, NoIntent
<1> QED
  BY <1>1, <1>2, <1>3, <1>4, <1>5 DEF RunnerInv

LEMMA NextRunner == RunnerInv /\ [Next]_vars => RunnerInv'
BY TypeStep, DiskStep, StoringStep, StartedStep, StuckStep, CountStep, FreshStep DEF RunnerInv

LEMMA RunnerInvariant == Spec => []RunnerInv
BY InitRunner, NextRunner, PTL DEF Spec

\* Whatever crashes, cancellations, failed writes and replays come in between, an
\* accepted run that was stored is on disk, and its intent is closed only after
\* an invocation returned or the replay limit was reached.
THEOREM AtLeastOnceHolds == Spec => []AtLeastOnce
<1>1. RunnerInv => AtLeastOnce
  BY DEF RunnerInv
<1> QED
  BY <1>1, RunnerInvariant, PTL

\* The registry shows a run as pending or running only while somebody works on
\* it, or because the caller of its spawn was dropped before the task was started.
THEOREM NoRunIsStuck == Spec => []NoStuckRun
<1>1. RunnerInv => NoStuckRun
  BY DEF RunnerInv, SomebodyWorks, OnDisk, NoStuckRun, Abandoned
<1> QED
  BY <1>1, RunnerInvariant, PTL

\* replay_count never runs ahead of the boots, so a run is given up only after
\* as many crashes as the limit allows.
THEOREM GivesUpOnlyLate == Spec => []GivesUpLate
<1>1. RunnerInv => GivesUpLate
  BY DEF RunnerInv
<1> QED
  BY <1>1, RunnerInvariant, PTL

\* The first terminal state of a slot stands in every step.
LEMMA StandsStep ==
    ASSUME TypeInv, OnDisk, FreshIds, [Next]_vars
    PROVE  Stands
<1> USE AttemptFacts DEF TypeInv, OnDisk, FreshIds, CallerStates, TaskStates, Results, Terminal, Kinds, history, Stands
<1>1. ASSUME NEW r \in Runs, Spawn(r)
      PROVE  Stands
  BY <1>1 DEF Spawn, InsertPending
<1>2. ASSUME NEW r \in Runs, Cancel(r)
      PROVE  Stands
  BY <1>2 DEF Cancel, TerminalState, Known
<1>3. ASSUME NEW a \in Attempts, Persist(a)
      PROVE  Stands
  BY <1>3 DEF Persist, AfterPersist
<1>4. ASSUME NEW a \in Attempts, PersistFails(a)
      PROVE  Stands
  BY <1>4 DEF PersistFails, AfterPersist
<1>5. ASSUME NEW a \in Attempts, Launch(a)
      PROVE  Stands
  BY <1>5 DEF Launch
<1>6. ASSUME NEW a \in Attempts, RegisterHook(a)
      PROVE  Stands
  <2>1. a[1] \in Runs
    OBVIOUS
  <2>2. slots' = [slots EXCEPT ![a[1]] = [state |-> slots[a[1]].state, hook |-> a[2]]]
    BY <1>6, HookSlot
  <2> QED
    BY <2>1, <2>2
<1>7. ASSUME NEW a \in Attempts, TaskStart(a)
      PROVE  Stands
  BY <1>7, StartSlot DEF TaskStart, MarkRunning
<1>8. ASSUME NEW a \in Attempts, NEW s \in Results, TaskFinish(a, s)
      PROVE  Stands
  BY <1>8, FinishSlot DEF TaskFinish, MarkTerminal, TerminalState
<1>9. ASSUME NEW a \in Attempts, IntentGet(a)
      PROVE  Stands
  BY <1>9 DEF IntentGet
<1>10. ASSUME NEW a \in Attempts, IntentPut(a)
      PROVE  Stands
  BY <1>10, PutIntent DEF IntentPut
<1>11. ASSUME NEW a \in Attempts, IntentFails(a)
      PROVE  Stands
  BY <1>11 DEF IntentFails
<1>12. CASE ListUnterminated
  BY <1>12 DEF ListUnterminated
<1>13. CASE ListFails \/ BootDone
  BY <1>13 DEF ListFails, BootDone
<1>14. ASSUME NEW q \in queue, ReplayGiveUp(q)
      PROVE  Stands
  BY <1>14, GiveUpIntent, QueueFacts DEF ReplayGiveUp
<1>15. ASSUME NEW q \in queue, ReplayGiveUpFails(q)
      PROVE  Stands
  BY <1>15, QueueFacts DEF ReplayGiveUpFails
<1>16. ASSUME NEW q \in queue, ReplayCount(q)
      PROVE  Stands
  BY <1>16, QueueFacts DEF ReplayCount
<1>17. ASSUME NEW q \in queue, ReplayCountFails(q)
      PROVE  Stands
  BY <1>17, QueueFacts DEF ReplayCountFails
<1>18. ASSUME NEW r \in Runs, ReplayMissing(r)
      PROVE  Stands
  BY <1>18 DEF ReplayMissing
<1>19. ASSUME NEW r \in Runs, ReplaySpawn(r)
      PROVE  Stands
  BY <1>19 DEF ReplaySpawn, InsertPending
<1>20. ASSUME NEW present \in SUBSET Runs, CrashRestart(present)
      PROVE  Stands
  BY <1>20 DEF CrashRestart, NoSlot
<1>21. ASSUME NEW r \in Runs, CallerDropped(r)
      PROVE  Stands
  BY <1>21 DEF CallerDropped
<1>22. CASE UNCHANGED <<system, history>>
  BY <1>22 DEF system
<1> HIDE DEF TypeInv, OnDisk, FreshIds, CallerStates, TaskStates, Results, Terminal, Kinds, history, Stands
<1> QED
  BY <1>1, <1>2, <1>3, <1>4, <1>5, <1>6, <1>7, <1>8, <1>9, <1>10, <1>11, <1>12, <1>13, <1>14,
     <1>15, <1>16, <1>17, <1>18, <1>19, <1>20, <1>21, <1>22
  DEF Next, CallerStep, TaskStep, BootStep, WaitStep, WaitBegin, WaitCheck, WaitPark, WaitTimeout,
      Results, vars, system, history

\* mark_terminal is first-writer-wins: a cancellation and a result that race
\* cannot overwrite each other; only a replay starts a record afresh.
THEOREM TerminalStateStands == Spec => TerminalStands
<1>1. RunnerInv /\ [Next]_vars => Stands
  BY StandsStep DEF RunnerInv
<1>2. RunnerInv /\ [Next]_vars => [Stands]_vars
  BY <1>1
<1> QED
  BY <1>2, RunnerInvariant, PTL DEF Spec, TerminalStands, Stands

=============================================================================
