-------------------------- MODULE SchedulerProofs --------------------------
(***************************************************************************)
(* Theorems about Scheduler, for any set of jobs, any schedules.yaml and   *)
(* any number of crashes and failed transactions.                          *)
(***************************************************************************)
EXTENDS Scheduler, TLAPS, WellFoundedInduction

\* The first match after t is an instant of the expression after t.
LEMMA CronAfterType ==
    ASSUME NEW x \in Exprs, NEW t \in Nat, CronAfter(x, t) # NoTime
    PROVE  CronAfter(x, t) \in CronTimes[x] /\ CronAfter(x, t) \in Nat /\ CronAfter(x, t) > t
<1> DEFINE later == {c \in CronTimes[x] : c > t}
<1>1. later \subseteq Nat
  BY SchedulerAssumption
<1>2. later # {}
  BY DEF CronAfter
<1>3. OpToRel(<, Nat) = {ss \in Nat \X Nat : ss[1] < ss[2]}
  BY Zenon DEF OpToRel
<1>4. IsWellFoundedOn({ss \in Nat \X Nat : ss[1] < ss[2]}, Nat)
  BY <1>3, NatLessThanWellFounded, Zenon
<1>5. PICK m \in later : \A d \in later : <<d, m>> \notin {ss \in Nat \X Nat : ss[1] < ss[2]}
  BY <1>1, <1>2, <1>4, WFMin, Zenon
<1>5a. \A d \in later : m <= d
  <2> SUFFICES ASSUME NEW d \in later PROVE m <= d
    OBVIOUS
  <2>1. d \in Nat /\ m \in Nat
    BY <1>1
  <2>2. <<d, m>> \notin {ss \in Nat \X Nat : ss[1] < ss[2]}
    BY <1>5, Zenon
  <2> HIDE DEF later
  <2> QED
    BY <2>1, <2>2
<1>6. CronAfter(x, t) = CHOOSE c \in later : \A d \in later : c <= d
  BY <1>2 DEF CronAfter
<1>7. CronAfter(x, t) \in later
  BY <1>5a, <1>6
<1> QED
  BY <1>1, <1>7

\* The records that the actions make.
LEMMA DelayedType ==
    ASSUME NEW m \in {"once", "fixed"}, NEW w \in Workflows, NEW d \in Nat
    PROVE  /\ Delayed(m, w, d) \in Record /\ Delayed(m, w, d) # NoRecord
           /\ Delayed(m, w, d).mode = m /\ Delayed(m, w, d).delay = d /\ Delayed(m, w, d).entry = 0
BY SchedulerAssumption DEF Delayed, Record, Modes, NoRecord

LEMMA CronType ==
    ASSUME NEW w \in Workflows, NEW x \in Exprs, NEW e \in 0..Len(Schedules)
    PROVE  /\ Cron(w, x, e) \in Record /\ Cron(w, x, e) # NoRecord
           /\ Cron(w, x, e).mode = "cron" /\ Cron(w, x, e).entry = e
           /\ Cron(w, x, e).expr = x /\ Cron(w, x, e).workflow = w
BY DEF Cron, Record, Modes, NoRecord

\* What RegisterSchedule inserts.
LEMMA RegisterInserts ==
    ASSUME TypeOK, NEW j \in Jobs, RegisterSchedule(j)
    PROVE  \E w \in Workflows, x \in Exprs :
              /\ entry \in 1..Len(Schedules) /\ Schedules[entry] = [workflow |-> w, expr |-> x]
              /\ <<w, x>> \notin seen
              /\ CronAfter(x, now) \in Nat /\ CronAfter(x, now) \in CronTimes[x]
              /\ now < CronAfter(x, now)
              /\ InsertNew(j, Cron(w, x, entry), CronAfter(x, now))
<1> DEFINE s == Schedules[entry]
<1>1. entry \in 1..Len(Schedules) /\ now \in Nat
  BY SchedulerAssumption DEF RegisterSchedule, AtEntry, TypeOK
<1>2. s \in [workflow : Workflows, expr : Exprs]
  <2> DEFINE T == [workflow : Workflows, expr : Exprs]
  <2>1. Schedules \in Seq(T)
    BY SchedulerAssumption
  <2> HIDE DEF T
  <2>2. Schedules[entry] \in T
    BY <1>1, <2>1
  <2> QED
    BY <2>2 DEF T
<1>3. /\ CronAfter(s.expr, now) # NoTime /\ <<s.workflow, s.expr>> \notin seen
      /\ InsertNew(j, Cron(s.workflow, s.expr, entry), CronAfter(s.expr, now))
  BY DEF RegisterSchedule, Listed, KeyOf
<1>4. s.workflow \in Workflows /\ s.expr \in Exprs /\ s = [workflow |-> s.workflow, expr |-> s.expr]
  BY <1>2
<1> HIDE DEF s
<1>5. /\ CronAfter(s.expr, now) \in Nat /\ CronAfter(s.expr, now) \in CronTimes[s.expr]
      /\ now < CronAfter(s.expr, now)
  BY <1>1, <1>3, <1>4, CronAfterType
<1> QED
  BY <1>1, <1>3, <1>4, <1>5 DEF s

-----------------------------------------------------------------------------
(* Type correctness.                                                       *)

LEMMA InsertNewType ==
    ASSUME TypeOK, NEW j \in Jobs, NEW r \in Record, NEW at \in Nat, InsertNew(j, r, at)
    PROVE  /\ timers' \subseteq Nat \X Jobs
           /\ byId' \in [Jobs -> Nat \cup {NoTime}]
           /\ rec' \in [Jobs -> Record]
           /\ fires' \in [Jobs -> Nat]
           /\ anchor' \in [Jobs -> Nat]
           /\ cancelled' \subseteq Jobs
           /\ faults' \in Nat
BY DEF TypeOK, InsertNew

\* next_fire_after returns an instant or nothing.
LEMMA NextFireAfterType ==
    ASSUME TypeOK, NEW j \in Jobs
    PROVE  NextFireAfter(j) \in Nat \cup {NoTime}
<1>1. rec[j].delay \in Nat /\ now \in Nat
  BY DEF TypeOK, Record
<1>2. rec[j].mode = "cron" => CronAfter(rec[j].expr, now) \in Nat \cup {NoTime}
  <2>1. rec[j].mode = "cron" => rec[j].expr \in Exprs
    BY DEF TypeOK, Record
  <2> QED
    BY <1>1, <2>1, CronAfterType
<1> QED
  BY <1>1, <1>2 DEF NextFireAfter

\* Every step preserves the types.
LEMMA TypeStep == TypeOK /\ [Next]_vars => TypeOK'
<1> SUFFICES ASSUME TypeOK, [Next]_vars PROVE TypeOK'
  OBVIOUS
<1> USE SchedulerAssumption DEF db, poller, booting, history
<1>1. CASE Poll
  <2>1. CASE Wake
    BY <2>1 DEF TypeOK, Wake
  <2>2. CASE CollectDue
    BY <2>2 DEF TypeOK, CollectDue
  <2>3. CASE TickDone
    BY <2>3 DEF TypeOK, TickDone
  <2>4. CASE Reschedule
    <3>1. cur \in Nat \X Jobs /\ next \in Nat \cup {NoTime} /\ firedAt \in Nat
      BY <2>4 DEF TypeOK, Reschedule
    <3>2. timers' \subseteq Nat \X Jobs
      BY <2>4, <3>1 DEF TypeOK, Reschedule
    <3> QED
      BY <2>4, <3>1, <3>2 DEF TypeOK, Reschedule
  <2>5. ASSUME NEW t \in due, FireMissing(t) PROVE TypeOK'
    BY <2>5 DEF TypeOK, FireMissing
  <2>6. ASSUME NEW t \in due, Fire(t) PROVE TypeOK'
    <3>1. t \in Nat \X Jobs /\ t[2] \in Jobs
      BY DEF TypeOK
    <3>2. next' \in Nat \cup {NoTime}
      BY <2>6, <3>1, NextFireAfterType DEF Fire
    <3>3. fires' \in [Jobs -> Nat]
      BY <2>6, <3>1 DEF TypeOK, Fire
    <3> QED
      BY <2>6, <3>1, <3>2, <3>3 DEF TypeOK, Fire
  <2> QED
    BY <1>1, <2>1, <2>2, <2>3, <2>4, <2>5, <2>6 DEF Poll
<1>2. CASE Boot
  <2>1. CASE WorkflowsLoaded
    BY <2>1 DEF TypeOK, WorkflowsLoaded
  <2>2. CASE ListExisting
    <3>1. seen' \subseteq (Workflows \cup {"none"}) \X (Exprs \cup {"none"})
      BY <2>2 DEF TypeOK, ListExisting, List, Record, KeyOf
    <3> QED
      BY <2>2, <3>1 DEF TypeOK, ListExisting
  <2>3. CASE SchedulesLoaded
    BY <2>3 DEF TypeOK, SchedulesLoaded
  <2>4. CASE SkipEntry \/ RegisterFails
    BY <2>4 DEF TypeOK, SkipEntry, RegisterFails
  <2>5. ASSUME NEW j \in Jobs, RegisterSchedule(j) PROVE TypeOK'
    <3>1. PICK w \in Workflows, x \in Exprs :
             /\ entry \in 1..Len(Schedules) /\ CronAfter(x, now) \in Nat
             /\ InsertNew(j, Cron(w, x, entry), CronAfter(x, now))
      BY <2>5, RegisterInserts
    <3>2. Cron(w, x, entry) \in Record
      BY <3>1, CronType
    <3>3. entry' \in Nat \ {0} /\ UNCHANGED <<registry, now, boot, seen, poller, shutdown>>
      BY <2>5, <3>1 DEF RegisterSchedule
    <3> QED
      BY <3>1, <3>2, <3>3, InsertNewType DEF TypeOK
  <2> QED
    BY <1>2, <2>1, <2>2, <2>3, <2>4, <2>5 DEF Boot
<1>3. CASE Clients
  <2>1. ASSUME NEW j \in Jobs, Cancel(j) PROVE TypeOK'
    BY <2>1 DEF TypeOK, Cancel
  <2>2. ASSUME NEW j \in Jobs, NEW w \in Workflows, NEW x \in Exprs, ScheduleCron(j, w, x)
        PROVE  TypeOK'
    <3>1. Cron(w, x, 0) \in Record
      BY CronType
    <3>2. CronAfter(x, now) \in Nat
      BY <2>2, CronAfterType DEF TypeOK, ScheduleCron
    <3>3. InsertNew(j, Cron(w, x, 0), CronAfter(x, now))
      BY <2>2 DEF ScheduleCron
    <3> QED
      BY <2>2, <3>1, <3>2, <3>3, InsertNewType DEF TypeOK, ScheduleCron
  <2>3. ASSUME NEW j \in Jobs, NEW w \in Workflows, NEW d \in Delays,
               ScheduleOnce(j, w, d) \/ ScheduleFixed(j, w, d)
        PROVE  TypeOK'
    <3>1. PICK m \in {"once", "fixed"} :
             InsertNew(j, Delayed(m, w, d), now + d)
      BY <2>3 DEF ScheduleOnce, ScheduleFixed
    <3> DEFINE r == Delayed(m, w, d)
    <3>2. d \in Nat
      BY DEF Delays
    <3>3. r \in Record /\ now + d \in Nat
      BY <3>2, DelayedType DEF TypeOK
    <3>4. InsertNew(j, r, now + d)
      BY <3>1
    <3> HIDE DEF r
    <3> QED
      BY <2>3, <3>3, <3>4, InsertNewType DEF TypeOK, ScheduleOnce, ScheduleFixed
  <2> QED
    BY <1>3, <2>1, <2>2, <2>3 DEF Clients
<1>4. ASSUME NEW w \in Workflows, RegisterWorkflow(w) \/ RemoveWorkflow(w) PROVE TypeOK'
  BY <1>4 DEF TypeOK, RegisterWorkflow, RemoveWorkflow
<1>5. CASE Stop \/ StorageError \/ Shutdown \/ CrashRestart \/ Tick
  <2>1. CASE Stop
    BY <2>1 DEF TypeOK, Stop
  <2>2. CASE StorageError
    BY <2>2 DEF TypeOK, StorageError, NoTime
  <2>3. CASE CrashRestart
    <3>1. /\ poll' = "sleep" /\ pollNow' \in Nat /\ due' = {} /\ cur' = <<>>
          /\ next' = NoTime /\ firedAt' \in Nat /\ registry' = {} /\ seen' = {}
          /\ entry' = 1 /\ boot' = "load" /\ shutdown' = FALSE /\ faults' \in Nat /\ now' \in Nat
      BY <2>3 DEF TypeOK, CrashRestart
    <3>2. UNCHANGED <<timers, byId, rec, fires, anchor, cancelled>>
      BY <2>3 DEF CrashRestart
    <3>3. entry' \in Nat \ {0} /\ seen' \subseteq (Workflows \cup {"none"}) \X (Exprs \cup {"none"})
      BY <3>1
    <3> QED
      BY <3>1, <3>2, <3>3 DEF TypeOK
  <2>4. CASE Shutdown
    BY <2>4 DEF TypeOK, Shutdown
  <2>5. CASE Tick
    BY <2>5 DEF TypeOK, Tick
  <2> QED
    BY <1>5, <2>1, <2>2, <2>3, <2>4, <2>5
<1>6. CASE UNCHANGED vars
  BY <1>6 DEF TypeOK, vars
<1> QED
  BY <1>1, <1>2, <1>3, <1>4, <1>5, <1>6 DEF Next

LEMMA InitType == Init => TypeOK
<1> SUFFICES ASSUME Init PROVE TypeOK
  OBVIOUS
<1>1. NoRecord \in Record
  BY DEF Record, NoRecord
<1>2. rec \in [Jobs -> Record]
  BY <1>1 DEF Init
<1>3. byId \in [Jobs -> Nat \cup {NoTime}]
  BY DEF Init
<1>4. entry \in Nat \ {0} /\ seen \subseteq (Workflows \cup {"none"}) \X (Exprs \cup {"none"})
  BY DEF Init
<1> QED
  BY <1>2, <1>3, <1>4 DEF Init, TypeOK

\* The scheduler's state keeps its types, whatever the jobs, the bounds and
\* the cron expression.
THEOREM TypeCorrect == Spec => []TypeOK
BY InitType, TypeStep, PTL DEF Spec

-----------------------------------------------------------------------------
(* The two tables agree.                                                   *)

\* What makes IndexesAgree inductive: the tick holds at most one entry per job,
\* for a job that exists, and no one but the tick moves a job's fire time, so
\* an entry it holds is either still the stored one or was cancelled.
TickOwnsItsTimers ==
    /\ \A t \in InFlight : rec[t[2]] # NoRecord /\ byId[t[2]] \in {t[1], NoTime}
    /\ \A t, u \in InFlight : t[2] = u[2] => t = u
    /\ \A t \in due : poll = "write" => t[2] # cur[2]
    /\ \A t \in timers : rec[t[2]] # NoRecord

IndexInv == TypeOK /\ IndexesAgree /\ TickOwnsItsTimers

\* A step that writes neither table and only lets go of timers.
LEMMA TablesUntouched ==
    ASSUME IndexInv, UNCHANGED <<timers, byId, rec>>, due' \subseteq due,
           poll' = "write" => poll = "write" /\ cur' = cur
    PROVE  IndexesAgree' /\ TickOwnsItsTimers'
<1>1. IndexesAgree'
  BY DEF IndexInv, IndexesAgree
<1>2. InFlight' \subseteq InFlight
  BY DEF InFlight
<1> QED
  BY <1>1, <1>2 DEF IndexInv, TickOwnsItsTimers

\* A fresh job id disturbs no timer that is stored or held by the tick.
LEMMA InsertNewKeepsIndexes ==
    ASSUME IndexInv, NEW j \in Jobs, NEW r \in Record, r # NoRecord,
           NEW at \in Nat, InsertNew(j, r, at), UNCHANGED poller
    PROVE  IndexesAgree' /\ TickOwnsItsTimers'
<1>1. /\ rec[j] = NoRecord
      /\ timers' = timers \cup {<<at, j>>}
      /\ byId' = [byId EXCEPT ![j] = at]
      /\ rec' = [rec EXCEPT ![j] = r]
  BY DEF InsertNew
<1>2. byId \in [Jobs -> Nat \cup {NoTime}] /\ rec \in [Jobs -> Record]
      /\ timers \subseteq Nat \X Jobs /\ due \subseteq Nat \X Jobs
  BY DEF IndexInv, TypeOK
<1>3. \A t \in timers : t[2] \in Jobs /\ t[2] # j /\ byId'[t[2]] = t[1] /\ rec'[t[2]] # NoRecord
  BY <1>1, <1>2 DEF IndexInv, IndexesAgree, TickOwnsItsTimers
<1>4. IndexesAgree'
  BY <1>1, <1>2, <1>3 DEF IndexInv, IndexesAgree
<1>5. InFlight' = InFlight /\ due' = due /\ cur' = cur /\ poll' = poll
  BY DEF poller, InFlight
<1>6. \A t \in InFlight : t[2] \in Jobs
  BY DEF IndexInv, TypeOK, InFlight
<1>7. \A t \in InFlight : rec'[t[2]] # NoRecord /\ byId'[t[2]] \in {t[1], NoTime}
  BY <1>1, <1>2, <1>6 DEF IndexInv, TickOwnsItsTimers
<1>8. \A t \in timers' : rec'[t[2]] # NoRecord
  BY <1>1, <1>2, <1>3
<1> QED
  BY <1>4, <1>5, <1>7, <1>8 DEF IndexInv, TickOwnsItsTimers

LEMMA IndexStep == IndexInv /\ [Next]_vars => IndexInv'
<1> SUFFICES ASSUME IndexInv, [Next]_vars PROVE IndexInv'
  OBVIOUS
<1>0. TypeOK'
  BY TypeStep DEF IndexInv
<1> SUFFICES IndexesAgree' /\ TickOwnsItsTimers'
  BY <1>0 DEF IndexInv
<1> USE SchedulerAssumption DEF db, poller, booting, history
<1>1. CASE Poll
  <2>1. CASE Wake \/ TickDone
    BY <2>1, TablesUntouched DEF Wake, TickDone
  <2>2. CASE CollectDue
    <3>1. due' \subseteq timers /\ InFlight' = due' /\ poll' = "fire"
      BY <2>2 DEF CollectDue, InFlight
    <3>2. \A t, u \in timers : t[2] = u[2] => t = u
      BY DEF IndexInv, TypeOK, IndexesAgree
    <3> QED
      BY <2>2, <3>1, <3>2 DEF CollectDue, IndexInv, IndexesAgree, TickOwnsItsTimers
  <2>3. ASSUME NEW t \in due, FireMissing(t) PROVE IndexesAgree' /\ TickOwnsItsTimers'
    BY <2>3, TablesUntouched DEF FireMissing
  <2>4. ASSUME NEW t \in due, Fire(t) PROVE IndexesAgree' /\ TickOwnsItsTimers'
    <3>1. InFlight' \subseteq InFlight /\ cur' = t /\ due' = due \ {t}
      BY <2>4 DEF Fire, InFlight
    <3>2. due \subseteq InFlight
      BY DEF InFlight
    <3>3. UNCHANGED <<timers, byId, rec>>
      BY <2>4 DEF Fire
    <3>4. \A u \in due' : u[2] # cur'[2]
      BY <3>1, <3>2 DEF IndexInv, TickOwnsItsTimers
    <3> QED
      BY <3>1, <3>3, <3>4 DEF IndexInv, IndexesAgree, TickOwnsItsTimers
  <2>5. CASE Reschedule
    <3> DEFINE j == cur[2]
    <3>1. /\ poll = "write" /\ cur \in Nat \X Jobs /\ j \in Jobs
          /\ byId \in [Jobs -> Nat \cup {NoTime}] /\ timers \subseteq Nat \X Jobs
          /\ due \subseteq Nat \X Jobs
      BY <2>5 DEF IndexInv, TypeOK, Reschedule
    <3>2. /\ timers' = (timers \ {cur}) \cup (IF next = NoTime THEN {} ELSE {<<next, j>>})
          /\ byId' = [byId EXCEPT ![j] = next]
          /\ rec' = rec /\ due' = due /\ poll' = "fire"
      BY <2>5 DEF Reschedule
    <3>3. cur \in InFlight /\ InFlight' = due
      BY <3>1, <3>2 DEF InFlight
    <3>4. byId[j] \in {cur[1], NoTime} /\ rec[j] # NoRecord
      BY <3>3 DEF IndexInv, TickOwnsItsTimers
    <3>5. \A t \in timers \ {cur} : t[2] # j
      <4> SUFFICES ASSUME NEW t \in timers, t[2] = j PROVE t = cur
        OBVIOUS
      <4>1. t \in Nat \X Jobs /\ byId[j] = t[1]
        BY <3>1 DEF IndexInv, IndexesAgree
      <4>2. t[1] = cur[1]
        BY <3>4, <4>1 DEF NoTime
      <4> QED
        BY <3>1, <4>1, <4>2
    <3>6. \A t \in due : t[2] # j /\ t[2] \in Jobs
      BY <3>1 DEF IndexInv, TickOwnsItsTimers
    <3> HIDE DEF j
    <3>7. IndexesAgree'
      <4>1. \A t \in timers' : byId'[t[2]] = t[1]
        BY <3>1, <3>2, <3>5 DEF IndexInv, IndexesAgree
      <4>2. ASSUME NEW i \in Jobs, byId'[i] # NoTime PROVE <<byId'[i], i>> \in timers'
        <5>1. CASE i = j
          BY <4>2, <5>1, <3>1, <3>2
        <5>2. CASE i # j
          <6>1. byId'[i] = byId[i] /\ <<byId[i], i>> \in timers
            BY <4>2, <5>2, <3>1, <3>2 DEF IndexInv, IndexesAgree
          <6>2. <<byId[i], i>> # cur
            BY <5>2, <3>1 DEF j
          <6> QED
            BY <6>1, <6>2, <3>2
        <5> QED
          BY <5>1, <5>2
      <4> QED
        BY <4>1, <4>2 DEF IndexesAgree
    <3>8. \A t \in InFlight' : rec'[t[2]] # NoRecord /\ byId'[t[2]] \in {t[1], NoTime}
      BY <3>1, <3>2, <3>3, <3>6 DEF IndexInv, TickOwnsItsTimers, InFlight
    <3>9. \A t \in timers' : rec'[t[2]] # NoRecord
      BY <3>1, <3>2, <3>4 DEF IndexInv, TickOwnsItsTimers
    <3>10. \A t, u \in InFlight' : t[2] = u[2] => t = u
      BY <3>3 DEF IndexInv, TickOwnsItsTimers, InFlight
    <3> QED
      BY <3>2, <3>7, <3>8, <3>9, <3>10 DEF TickOwnsItsTimers
  <2> QED
    BY <1>1, <2>1, <2>2, <2>3, <2>4, <2>5 DEF Poll
<1>2. CASE Boot
  <2>1. CASE WorkflowsLoaded \/ ListExisting \/ SchedulesLoaded
    BY <2>1, TablesUntouched DEF WorkflowsLoaded, ListExisting, SchedulesLoaded
  <2>2. CASE SkipEntry \/ RegisterFails
    BY <2>2, TablesUntouched DEF SkipEntry, RegisterFails
  <2>3. ASSUME NEW j \in Jobs, RegisterSchedule(j)
        PROVE  IndexesAgree' /\ TickOwnsItsTimers'
    <3>1. PICK w \in Workflows, x \in Exprs :
             /\ entry \in 1..Len(Schedules) /\ CronAfter(x, now) \in Nat
             /\ InsertNew(j, Cron(w, x, entry), CronAfter(x, now))
      BY <2>3, RegisterInserts DEF IndexInv
    <3>2. Cron(w, x, entry) \in Record /\ Cron(w, x, entry) # NoRecord
      BY <3>1, CronType
    <3>3. UNCHANGED poller
      BY <2>3 DEF RegisterSchedule
    <3> QED
      BY <3>1, <3>2, <3>3, InsertNewKeepsIndexes
  <2> QED
    BY <1>2, <2>1, <2>2, <2>3 DEF Boot
<1>3. CASE Clients
  <2>1. ASSUME NEW j \in Jobs, Cancel(j) PROVE IndexesAgree' /\ TickOwnsItsTimers'
    <3>1. /\ timers' = timers \ {<<byId[j], j>>}
          /\ byId' = [byId EXCEPT ![j] = NoTime]
          /\ UNCHANGED <<rec, due, cur, poll>>
      BY <2>1 DEF Cancel
    <3>2. byId \in [Jobs -> Nat \cup {NoTime}] /\ timers \subseteq Nat \X Jobs
      BY DEF IndexInv, TypeOK
    <3>3. \A t \in timers' : t \in timers /\ t[2] # j
      BY <3>1, <3>2 DEF IndexInv, IndexesAgree
    <3>4. IndexesAgree'
      BY <3>1, <3>2, <3>3 DEF IndexInv, IndexesAgree
    <3>5. InFlight' = InFlight /\ \A t \in InFlight : t[2] \in Jobs
      BY <3>1 DEF IndexInv, TypeOK, InFlight
    <3>6. \A t \in InFlight : byId'[t[2]] \in {t[1], NoTime}
      BY <3>1, <3>2, <3>5 DEF IndexInv, TickOwnsItsTimers
    <3> QED
      BY <3>1, <3>3, <3>4, <3>5, <3>6 DEF IndexInv, TickOwnsItsTimers
  <2>2. ASSUME NEW j \in Jobs, NEW w \in Workflows, NEW x \in Exprs, ScheduleCron(j, w, x)
        PROVE  IndexesAgree' /\ TickOwnsItsTimers'
    <3>1. Cron(w, x, 0) \in Record /\ Cron(w, x, 0) # NoRecord
      BY CronType
    <3>2. CronAfter(x, now) \in Nat
      BY <2>2, CronAfterType DEF IndexInv, TypeOK, ScheduleCron
    <3>3. InsertNew(j, Cron(w, x, 0), CronAfter(x, now)) /\ UNCHANGED poller
      BY <2>2 DEF ScheduleCron
    <3> QED
      BY <3>1, <3>2, <3>3, InsertNewKeepsIndexes
  <2>3. ASSUME NEW j \in Jobs, NEW w \in Workflows, NEW d \in Delays,
               ScheduleOnce(j, w, d) \/ ScheduleFixed(j, w, d)
        PROVE  IndexesAgree' /\ TickOwnsItsTimers'
    <3>1. PICK m \in {"once", "fixed"} :
             InsertNew(j, Delayed(m, w, d), now + d)
      BY <2>3 DEF ScheduleOnce, ScheduleFixed
    <3> DEFINE r == Delayed(m, w, d)
    <3>2. d \in Nat /\ now \in Nat
      BY DEF Delays, IndexInv, TypeOK
    <3>3. r \in Record /\ r # NoRecord /\ now + d \in Nat
      BY <3>2, DelayedType
    <3>4. InsertNew(j, r, now + d) /\ UNCHANGED poller
      BY <2>3, <3>1 DEF ScheduleOnce, ScheduleFixed
    <3> HIDE DEF r
    <3> QED
      BY <3>3, <3>4, InsertNewKeepsIndexes
  <2> QED
    BY <1>3, <2>1, <2>2, <2>3 DEF Clients
<1>4. ASSUME NEW w \in Workflows, RegisterWorkflow(w) \/ RemoveWorkflow(w)
      PROVE  IndexesAgree' /\ TickOwnsItsTimers'
  BY <1>4, TablesUntouched DEF RegisterWorkflow, RemoveWorkflow
<1>5. CASE Stop \/ StorageError \/ Shutdown \/ CrashRestart \/ Tick
  BY <1>5, TablesUntouched DEF Stop, StorageError, Shutdown, CrashRestart, Tick
<1>6. CASE UNCHANGED vars
  BY <1>6, TablesUntouched DEF vars
<1> QED
  BY <1>1, <1>2, <1>3, <1>4, <1>5, <1>6 DEF Next

LEMMA InitIndex == Init => IndexInv
<1> SUFFICES ASSUME Init PROVE IndexInv
  OBVIOUS
<1>1. TypeOK
  BY InitType
<1>2. IndexesAgree /\ TickOwnsItsTimers
  BY DEF Init, IndexesAgree, TickOwnsItsTimers, InFlight
<1> QED
  BY <1>1, <1>2 DEF IndexInv

LEMMA IndexInvariant == Spec => []IndexInv
BY InitIndex, IndexStep, PTL DEF Spec

\* TIMERS and TIMERS_BY_ID describe the same timers at every moment, for any
\* number of jobs, clients, crashes and failed transactions.
THEOREM IndexesAlwaysAgree == Spec => []IndexesAgree
BY IndexInvariant, PTL DEF IndexInv

-----------------------------------------------------------------------------
(* What becomes of a timer.                                                *)

\* The fire time of a timer counts from the instant it was computed.
OnTime(r, at, from) ==
    IF r.mode = "cron" THEN at \in CronTimes[r.expr] /\ from < at ELSE at = from + r.delay

\* A timer of schedules.yaml is a cron timer with its entry's key.
OfFile(r) ==
    r.entry # 0 => r.mode = "cron" /\ KeyOf(r) = KeyOf(Schedules[r.entry])

\* An id that was not handed out has no history; one that was has a mode.
JobFacts ==
    \A j \in Jobs :
        /\ rec[j] = NoRecord => fires[j] = 0 /\ j \notin cancelled /\ byId[j] = NoTime
        /\ rec[j] # NoRecord => rec[j].mode \in Modes /\ OfFile(rec[j])

\* Stored fire times are on time, and so are those the tick holds, which are due.
StoredOnTime ==
    /\ \A j \in Jobs : byId[j] # NoTime => OnTime(rec[j], byId[j], anchor[j])
    /\ \A t \in due : t[1] <= now /\ OnTime(rec[t[2]], t[1], anchor[t[2]])
    /\ pollNow <= now

\* Between firing and rescheduling, next is what the fired timer's mode asks for.
WriteFacts ==
    poll = "write" =>
        /\ fires[cur[2]] > 0
        /\ next # NoTime => rec[cur[2]].mode # "once" /\ OnTime(rec[cur[2]], next, firedAt)
        /\ next = NoTime => \/ rec[cur[2]].mode = "once"
                            \/ rec[cur[2]].mode = "cron" /\ CronAfter(rec[cur[2]].expr, firedAt) = NoTime

\* What the tick holds and nobody cancelled is still stored.
HeldIsStored == \A t \in InFlight : t[2] \in cancelled \/ byId[t[2]] = t[1]

\* A one-shot timer that may still fire has fired only as often as something failed.
OnceBudget ==
    \A j \in Used : rec[j].mode = "once" =>
        /\ fires[j] <= 1 + faults
        /\ byId[j] # NoTime /\ ~(poll = "write" /\ cur[2] = j) => fires[j] <= faults
        /\ \A t \in due : t[2] = j => fires[j] <= faults

\* While register_schedules inserts, its list showed every live timer of the
\* file but those that its loop has made.
YamlSeen ==
    boot = "insert" =>
        \A j \in Used \ cancelled : rec[j].entry # 0 /\ byId[j] # NoTime =>
            rec[j].entry < entry \/ KeyOf(rec[j]) \in seen

\* The steps that concern no timer but may let go of those the tick holds.
QuietStep ==
    /\ UNCHANGED <<timers, byId, rec, fires, anchor, cancelled>>
    /\ due' \subseteq due
    /\ now <= now' /\ pollNow' <= now'
    /\ poll' = "write" => poll = "write" /\ UNCHANGED <<cur, next, firedAt>>
    /\ poll = "write" /\ poll' # "write" => faults' = faults + 1
    /\ faults' \in {faults, faults + 1}
    /\ boot' = "insert" => ListExisting \/ (boot = "insert" /\ seen' = seen /\ entry' >= entry)

\* A new timer, from schedule:create or from the file.
InsertStep(j, r, at) ==
    /\ InsertNew(j, r, at)
    /\ r # NoRecord /\ r.mode \in Modes /\ OfFile(r)
    /\ OnTime(r, at, now)
    /\ UNCHANGED <<now, poll, pollNow, due, cur, next, firedAt, boot, seen>>
    /\ IF r.entry = 0 THEN entry' = entry
                      ELSE boot = "insert" /\ r.entry = entry /\ KeyOf(r) \notin seen /\ entry' = entry + 1

\* Every step is of one of six kinds.
LEMMA StepKinds ==
    ASSUME TypeOK, pollNow <= now, [Next]_vars
    PROVE  \/ QuietStep
           \/ \E j \in Jobs, r \in Record, at \in Nat : InsertStep(j, r, at)
           \/ \E j \in Jobs : Cancel(j)
           \/ CollectDue
           \/ \E t \in due : Fire(t)
           \/ Reschedule
<1> DEFINE Kinds == \/ QuietStep
                    \/ \E j \in Jobs, r \in Record, at \in Nat : InsertStep(j, r, at)
                    \/ \E j \in Jobs : Cancel(j)
                    \/ CollectDue
                    \/ \E t \in due : Fire(t)
                    \/ Reschedule
<1> SUFFICES Kinds
  OBVIOUS
<1>0. now \in Nat /\ pollNow \in Nat /\ faults \in Nat /\ entry \in Nat
  BY DEF TypeOK
<1>a. ASSUME NEW j \in Jobs, NEW r \in Record, NEW at \in Nat, InsertStep(j, r, at)
      PROVE  Kinds
  BY <1>a
<1> HIDE DEF Kinds
<1>1. CASE Poll
  <2>1. CASE Wake
    BY <1>0, <2>1 DEF Wake, QuietStep, Kinds, db, booting, history
  <2>2. CASE TickDone
    BY <1>0, <2>2 DEF TickDone, QuietStep, Kinds, db, booting, history
  <2>3. ASSUME NEW t \in due, FireMissing(t) PROVE Kinds
    BY <1>0, <2>3 DEF FireMissing, QuietStep, Kinds, db, booting, history
  <2> QED
    BY <1>1, <2>1, <2>2, <2>3 DEF Poll, Kinds
<1>2. CASE Boot
  <2>1. CASE WorkflowsLoaded \/ SchedulesLoaded
    BY <1>0, <2>1 DEF WorkflowsLoaded, SchedulesLoaded, QuietStep, Kinds, db, poller, history
  <2>2. CASE ListExisting
    <3>1. UNCHANGED <<db, poller, history, now>>
      BY <2>2 DEF ListExisting
    <3> QED
      BY <1>0, <2>2, <3>1 DEF QuietStep, Kinds, db, poller, history
  <2>3. CASE SkipEntry \/ RegisterFails
    BY <1>0, <2>3 DEF SkipEntry, RegisterFails, AtEntry, QuietStep, Kinds, db, poller, history
  <2>4. ASSUME NEW j \in Jobs, RegisterSchedule(j) PROVE Kinds
    <3>1. PICK w \in Workflows, x \in Exprs :
             /\ entry \in 1..Len(Schedules) /\ Schedules[entry] = [workflow |-> w, expr |-> x]
             /\ <<w, x>> \notin seen
             /\ CronAfter(x, now) \in Nat /\ CronAfter(x, now) \in CronTimes[x]
             /\ now < CronAfter(x, now)
             /\ InsertNew(j, Cron(w, x, entry), CronAfter(x, now))
      BY <2>4, RegisterInserts
    <3> DEFINE r == Cron(w, x, entry)
    <3>2. /\ r \in Record /\ r # NoRecord /\ r.mode = "cron" /\ r.entry = entry
          /\ r.expr = x /\ r.workflow = w
      BY <3>1, CronType
    <3>3. InsertNew(j, r, CronAfter(x, now))
      BY <3>1
    <3> HIDE DEF r
    <3>4. KeyOf(r) = KeyOf(Schedules[r.entry]) /\ KeyOf(r) \notin seen /\ entry # 0
      BY <3>1, <3>2 DEF KeyOf
    <3>5. InsertStep(j, r, CronAfter(x, now))
      BY <2>4, <3>1, <3>2, <3>3, <3>4 DEF RegisterSchedule, AtEntry, InsertStep, OfFile, OnTime, Modes, poller
    <3> QED
      BY <1>a, <3>1, <3>2, <3>5
  <2> QED
    BY <1>2, <2>1, <2>2, <2>3, <2>4 DEF Boot
<1>3. CASE Clients
  <2>1. ASSUME NEW j \in Jobs, Cancel(j) PROVE Kinds
    BY <2>1 DEF Kinds
  <2>2. ASSUME NEW j \in Jobs, NEW w \in Workflows, NEW x \in Exprs, ScheduleCron(j, w, x)
        PROVE  Kinds
    <3> DEFINE r == Cron(w, x, 0)
    <3>1. r \in Record /\ r # NoRecord /\ r.mode = "cron" /\ r.entry = 0 /\ r.expr = x
      BY CronType
    <3>2. /\ CronAfter(x, now) \in Nat /\ CronAfter(x, now) \in CronTimes[x]
          /\ now < CronAfter(x, now)
      BY <1>0, <2>2, CronAfterType DEF ScheduleCron
    <3>3. InsertNew(j, r, CronAfter(x, now))
      BY <2>2 DEF ScheduleCron
    <3> HIDE DEF r
    <3>4. InsertStep(j, r, CronAfter(x, now))
      BY <2>2, <3>1, <3>2, <3>3 DEF ScheduleCron, InsertStep, OfFile, OnTime, Modes, poller, booting
    <3> QED
      BY <1>a, <3>1, <3>2, <3>4
  <2>3. ASSUME NEW j \in Jobs, NEW w \in Workflows, NEW d \in Delays,
               ScheduleOnce(j, w, d) \/ ScheduleFixed(j, w, d)
        PROVE  Kinds
    <3>1. PICK m \in {"once", "fixed"} :
             InsertNew(j, Delayed(m, w, d), now + d)
      BY <2>3 DEF ScheduleOnce, ScheduleFixed
    <3> DEFINE r == Delayed(m, w, d)
    <3>2. d \in Nat
      BY SchedulerAssumption DEF Delays
    <3>3. r \in Record /\ r # NoRecord /\ r.mode = m /\ r.entry = 0 /\ r.delay = d
      BY <3>2, DelayedType
    <3>4. InsertNew(j, r, now + d) /\ now + d \in Nat
      BY <1>0, <3>1, <3>2
    <3>5. UNCHANGED <<now, booting, poller>>
      BY <2>3 DEF ScheduleOnce, ScheduleFixed
    <3> HIDE DEF r
    <3>6. InsertStep(j, r, now + d)
      BY <3>3, <3>4, <3>5 DEF InsertStep, OfFile, OnTime, Modes, poller, booting
    <3> QED
      BY <1>a, <3>3, <3>4, <3>6
  <2> QED
    BY <1>3, <2>1, <2>2, <2>3 DEF Clients
<1>4. ASSUME NEW w \in Workflows, RegisterWorkflow(w) \/ RemoveWorkflow(w) PROVE Kinds
  BY <1>0, <1>4 DEF RegisterWorkflow, RemoveWorkflow, QuietStep, Kinds, db, booting, poller, history
<1>5. CASE Stop \/ StorageError \/ Shutdown \/ CrashRestart \/ Tick
  <2>1. CASE Stop
    BY <1>0, <2>1 DEF Stop, QuietStep, Kinds, db, booting, history
  <2>2. CASE StorageError
    BY <1>0, <2>2 DEF StorageError, QuietStep, Kinds, db, booting
  <2>3. CASE CrashRestart
    BY <1>0, <2>3 DEF CrashRestart, QuietStep, Kinds, db
  <2>4. CASE Shutdown \/ Tick
    BY <1>0, <2>4 DEF Shutdown, Tick, QuietStep, Kinds, db, booting, poller, history
  <2> QED
    BY <1>5, <2>1, <2>2, <2>3, <2>4
<1>6. CASE UNCHANGED vars
  BY <1>0, <1>6 DEF vars, QuietStep, Kinds
<1> QED
  BY <1>1, <1>2, <1>3, <1>4, <1>5, <1>6 DEF Next

\* What the six kinds of step do to the variables the invariants are about.
LEMMA InsertEffect ==
    ASSUME TypeOK, NEW j \in Jobs, NEW r \in Record, NEW at \in Nat, InsertStep(j, r, at)
    PROVE  /\ rec[j] = NoRecord
           /\ byId' = [byId EXCEPT ![j] = at] /\ byId'[j] = at
           /\ rec' = [rec EXCEPT ![j] = r] /\ rec'[j] = r
           /\ anchor' = [anchor EXCEPT ![j] = now] /\ anchor'[j] = now
           /\ \A i \in Jobs \ {j} : byId'[i] = byId[i] /\ rec'[i] = rec[i] /\ anchor'[i] = anchor[i]
           /\ UNCHANGED <<fires, cancelled, faults, now, poll, pollNow, due, cur, next, firedAt, boot, seen>>
BY DEF InsertStep, InsertNew, TypeOK

LEMMA RescheduleEffect ==
    ASSUME IndexInv, Reschedule
    PROVE  /\ poll = "write" /\ poll' = "fire" /\ cur \in Nat \X Jobs /\ cur[2] \in Jobs
           /\ byId'[cur[2]] = next /\ anchor'[cur[2]] = firedAt
           /\ \A i \in Jobs \ {cur[2]} : byId'[i] = byId[i] /\ anchor'[i] = anchor[i]
           /\ UNCHANGED <<rec, fires, cancelled, faults, now, pollNow, due, boot, seen, entry>>
           /\ cur \in InFlight
           /\ \A t \in due : t[2] # cur[2] /\ t[2] \in Jobs
           /\ rec[cur[2]] # NoRecord
<1>1. /\ poll = "write" /\ poll' = "fire" /\ cur \in Nat \X Jobs /\ cur[2] \in Jobs
      /\ byId \in [Jobs -> Nat \cup {NoTime}] /\ anchor \in [Jobs -> Nat] /\ due \subseteq Nat \X Jobs
  BY DEF IndexInv, TypeOK, Reschedule
<1>2. /\ byId' = [byId EXCEPT ![cur[2]] = next]
      /\ anchor' = [anchor EXCEPT ![cur[2]] = firedAt]
      /\ UNCHANGED <<rec, fires, cancelled, faults, now, pollNow, due, boot, seen, entry>>
  BY DEF Reschedule, booting
<1>3. cur \in InFlight
  BY <1>1 DEF InFlight
<1>4. /\ \A t \in due : t[2] # cur[2] /\ t[2] \in Jobs
      /\ rec[cur[2]] # NoRecord
  BY <1>1, <1>3 DEF IndexInv, TickOwnsItsTimers
<1> QED
  BY <1>1, <1>2, <1>3, <1>4

LEMMA FireEffect ==
    ASSUME IndexInv, NEW t \in due, Fire(t)
    PROVE  /\ t \in Nat \X Jobs /\ t[2] \in Jobs /\ t \in InFlight
           /\ poll = "fire" /\ poll' = "write" /\ cur' = t /\ due' = due \ {t}
           /\ fires'[t[2]] = fires[t[2]] + 1
           /\ \A i \in Jobs \ {t[2]} : fires'[i] = fires[i]
           /\ next' = NextFireAfter(t[2]) /\ firedAt' = now
           /\ UNCHANGED <<timers, byId, rec, anchor, cancelled, faults, now, pollNow, boot, seen, entry>>
           /\ rec[t[2]] # NoRecord
           /\ \A u \in due : u[2] \in Jobs /\ (u # t => u[2] # t[2])
<1>1. /\ t \in Nat \X Jobs /\ t[2] \in Jobs /\ t \in InFlight /\ due \subseteq InFlight
      /\ due \subseteq Nat \X Jobs /\ fires \in [Jobs -> Nat]
  BY DEF IndexInv, TypeOK, InFlight
<1>2. /\ poll = "fire" /\ poll' = "write" /\ cur' = t /\ due' = due \ {t}
      /\ fires' = [fires EXCEPT ![t[2]] = @ + 1]
      /\ next' = NextFireAfter(t[2]) /\ firedAt' = now
      /\ UNCHANGED <<timers, byId, rec, anchor, cancelled, faults, now, pollNow, boot, seen, entry>>
  BY DEF Fire, db, booting
<1>3. rec[t[2]] # NoRecord /\ \A u \in due : u # t => u[2] # t[2]
  BY <1>1 DEF IndexInv, TickOwnsItsTimers
<1> QED
  BY <1>1, <1>2, <1>3

LEMMA CancelEffect ==
    ASSUME IndexInv, NEW j \in Jobs, Cancel(j)
    PROVE  /\ byId[j] # NoTime /\ byId'[j] = NoTime /\ rec[j] # NoRecord
           /\ \A i \in Jobs \ {j} : byId'[i] = byId[i]
           /\ cancelled' = cancelled \cup {j}
           /\ UNCHANGED <<rec, fires, anchor, faults, now, poll, pollNow, due, cur, next, firedAt,
                          boot, seen, entry>>
<1>1. byId \in [Jobs -> Nat \cup {NoTime}]
  BY DEF IndexInv, TypeOK
<1>2. <<byId[j], j>> \in timers /\ byId[j] # NoTime
  BY DEF Cancel, IndexInv, IndexesAgree
<1>3. rec[j] # NoRecord
  BY <1>2 DEF IndexInv, TickOwnsItsTimers
<1> QED
  BY <1>1, <1>2, <1>3 DEF Cancel, poller, booting

\* The tick collects stored timers.
LEMMA CollectEffect ==
    ASSUME IndexInv, CollectDue
    PROVE  /\ poll = "collect" /\ poll' = "fire"
           /\ \A t \in due' : /\ t[2] \in Jobs /\ byId[t[2]] = t[1] /\ byId[t[2]] # NoTime
                              /\ t[1] \in Nat /\ t[1] <= pollNow
           /\ UNCHANGED <<timers, byId, rec, fires, anchor, cancelled, faults, now, pollNow, boot, seen, entry>>
BY DEF CollectDue, IndexInv, TypeOK, IndexesAgree, NoTime, db, booting, history

\* The inductive invariant of the timers' histories.
TimerInv ==
    /\ IndexInv
    /\ JobFacts
    /\ StoredOnTime
    /\ WriteFacts
    /\ HeldIsStored
    /\ OnceBudget
    /\ NoTimerLost
    /\ YamlSeen
    /\ YamlOnce

\* Everything of TimerInv but IndexInv, which IndexStep preserves.
Histories ==
    /\ JobFacts /\ StoredOnTime /\ WriteFacts /\ HeldIsStored
    /\ OnceBudget /\ NoTimerLost /\ YamlSeen /\ YamlOnce

\* The numbers the histories compare.
LEMMA HistoryTypes ==
    ASSUME TimerInv
    PROVE  /\ now \in Nat /\ pollNow \in Nat /\ faults \in Nat /\ firedAt \in Nat
           /\ next \in Nat \cup {NoTime}
           /\ due \subseteq Nat \X Jobs /\ \A t \in due : t[1] \in Nat /\ t[2] \in Jobs
           /\ poll = "write" => cur \in Nat \X Jobs /\ cur[1] \in Nat /\ cur[2] \in Jobs
           /\ \A j \in Jobs : /\ fires[j] \in Nat /\ anchor[j] \in Nat
                              /\ byId[j] \in Nat \cup {NoTime} /\ rec[j] \in Record
           /\ \A t \in InFlight : t[2] \in Jobs /\ rec[t[2]] # NoRecord
           /\ due \subseteq InFlight
           /\ poll = "write" => cur \in InFlight
<1>1. TypeOK /\ TickOwnsItsTimers
  BY DEF TimerInv, IndexInv
<1>2. \A t \in InFlight : t[2] \in Jobs /\ rec[t[2]] # NoRecord
  BY <1>1 DEF TypeOK, InFlight, TickOwnsItsTimers
<1>3. due \subseteq InFlight /\ (poll = "write" => cur \in InFlight)
  BY DEF InFlight
<1> QED
  BY <1>1, <1>2, <1>3 DEF TypeOK

\* One lemma per kind of step: it preserves the histories.
LEMMA QuietKeeps ==
    ASSUME TimerInv, TypeOK', QuietStep
    PROVE  Histories'
<1>0. /\ UNCHANGED <<timers, byId, rec, fires, anchor, cancelled>>
      /\ due' \subseteq due
      /\ now <= now' /\ pollNow' <= now'
      /\ poll' = "write" => poll = "write" /\ UNCHANGED <<cur, next, firedAt>>
      /\ poll = "write" /\ poll' # "write" => faults' = faults + 1
      /\ faults' \in {faults, faults + 1}
  BY DEF QuietStep
<1>00. now' \in Nat /\ now \in Nat /\ faults \in Nat
      /\ (\A t \in due : t[1] \in Nat) /\ \A j \in Jobs : fires[j] \in Nat
  BY HistoryTypes DEF TypeOK
<1>1. JobFacts' /\ NoTimerLost' /\ YamlOnce'
  BY <1>0 DEF TimerInv, JobFacts, NoTimerLost, YamlOnce, Used
<1>2. StoredOnTime'
  BY <1>0, <1>00 DEF TimerInv, StoredOnTime
<1>3. WriteFacts'
  BY <1>0 DEF TimerInv, WriteFacts
<1>4. HeldIsStored'
  <2>1. InFlight' \subseteq InFlight
    BY <1>0 DEF InFlight
  <2> QED
    BY <1>0, <2>1 DEF TimerInv, HeldIsStored
<1>5. OnceBudget'
  BY <1>0, <1>00 DEF TimerInv, OnceBudget, Used
<1>6. YamlSeen'
  <2> SUFFICES ASSUME boot' = "insert", NEW j \in Used \ cancelled,
                      rec[j].entry # 0, byId[j] # NoTime
               PROVE  rec[j].entry < entry' \/ KeyOf(rec[j]) \in seen'
    BY <1>0 DEF YamlSeen, Used
  <2>1. CASE ListExisting
    <3>1. <<byId[j], j>> \in timers
      BY DEF TimerInv, IndexInv, IndexesAgree, Used
    <3>2. rec[j].mode = "cron"
      BY DEF TimerInv, JobFacts, OfFile, Used
    <3>3. rec[j] \in {u \in List : u.mode = "cron"}
      BY <3>1, <3>2 DEF List
    <3> QED
      BY <2>1, <3>3 DEF ListExisting
  <2>2. CASE boot = "insert" /\ seen' = seen /\ entry' >= entry
    <3>1. rec[j].entry \in Nat /\ entry \in Nat /\ entry' \in Nat
      BY HistoryTypes, SchedulerAssumption DEF TimerInv, IndexInv, TypeOK, Record, Used
    <3>2. rec[j].entry < entry \/ KeyOf(rec[j]) \in seen
      BY <2>2 DEF TimerInv, YamlSeen
    <3> QED
      BY <2>2, <3>1, <3>2
  <2> QED
    BY <2>1, <2>2 DEF QuietStep
<1> QED
  BY <1>1, <1>2, <1>3, <1>4, <1>5, <1>6 DEF Histories

LEMMA InsertKeeps ==
    ASSUME TimerInv, NEW j \in Jobs, NEW r \in Record, NEW at \in Nat, InsertStep(j, r, at)
    PROVE  Histories'
<1>0. /\ rec[j] = NoRecord
      /\ byId'[j] = at /\ rec'[j] = r /\ anchor'[j] = now
      /\ \A i \in Jobs \ {j} : byId'[i] = byId[i] /\ rec'[i] = rec[i] /\ anchor'[i] = anchor[i]
      /\ UNCHANGED <<fires, cancelled, faults, now, poll, pollNow, due, cur, next, firedAt, boot, seen>>
  BY InsertEffect DEF TimerInv, IndexInv
<1>1. /\ r # NoRecord /\ r.mode \in Modes /\ OfFile(r)
      /\ OnTime(r, at, now)
      /\ IF r.entry = 0 THEN entry' = entry
                        ELSE boot = "insert" /\ r.entry = entry /\ KeyOf(r) \notin seen /\ entry' = entry + 1
  BY DEF InsertStep
<1>2. fires[j] = 0 /\ j \notin cancelled /\ byId[j] = NoTime /\ at # NoTime
  BY <1>0 DEF TimerInv, JobFacts, NoTime
<1>3. /\ \A t \in InFlight : t[2] \in Jobs \ {j}
      /\ \A t \in due : t[2] \in Jobs \ {j}
      /\ poll = "write" => cur[2] \in Jobs \ {j}
      /\ faults \in Nat
  BY <1>0, HistoryTypes
<1>4. Used' = Used \cup {j} /\ j \notin Used /\ Used \subseteq Jobs
  BY <1>0, <1>1 DEF Used
<1>5. JobFacts'
  BY <1>0, <1>1, <1>2 DEF TimerInv, JobFacts
<1>6. StoredOnTime'
  BY <1>0, <1>1, <1>3 DEF TimerInv, StoredOnTime
<1>7. WriteFacts'
  BY <1>0, <1>3 DEF TimerInv, WriteFacts
<1>8. HeldIsStored'
  BY <1>0, <1>3 DEF TimerInv, HeldIsStored, InFlight
<1>9. OnceBudget'
  BY <1>0, <1>2, <1>3, <1>4 DEF TimerInv, OnceBudget
<1>10. NoTimerLost'
  BY <1>0, <1>2, <1>4 DEF TimerInv, NoTimerLost
<1>11. YamlSeen'
  <2>1. /\ entry \in Nat
        /\ \A i \in Used \ cancelled : rec[i].entry \in Nat /\ i \in Jobs \ {j}
    BY <1>4, HistoryTypes, SchedulerAssumption DEF TimerInv, IndexInv, TypeOK, Record, Used
  <2>2. entry' \in {entry, entry + 1} /\ (r.entry # 0 => r.entry = entry /\ entry' = entry + 1)
    BY <1>1
  <2> QED
    BY <1>0, <1>4, <2>1, <2>2 DEF TimerInv, YamlSeen
<1>12. YamlOnce'
  <2>1. ASSUME NEW i \in Used \ cancelled, rec[i].entry # 0, byId[i] # NoTime, r.entry # 0
        PROVE  rec[i].entry # r.entry
    <3>1. rec[i].entry < entry \/ KeyOf(rec[i]) \in seen
      BY <1>1, <2>1 DEF TimerInv, YamlSeen
    <3>2. /\ KeyOf(rec[i]) = KeyOf(Schedules[rec[i].entry]) /\ KeyOf(r) = KeyOf(Schedules[r.entry])
          /\ KeyOf(r) \notin seen /\ r.entry = entry
      BY <1>1, <2>1 DEF TimerInv, JobFacts, OfFile, Used
    <3>3. rec[i].entry \in Nat /\ entry \in Nat
      BY HistoryTypes, SchedulerAssumption DEF TimerInv, IndexInv, TypeOK, Record, Used
    <3> QED
      BY <3>1, <3>2, <3>3
  <2> QED
    BY <1>0, <1>4, <2>1 DEF TimerInv, YamlOnce
<1> QED
  BY <1>5, <1>6, <1>7, <1>8, <1>9, <1>10, <1>11, <1>12 DEF Histories

LEMMA CancelKeeps ==
    ASSUME TimerInv, NEW j \in Jobs, Cancel(j)
    PROVE  Histories'
<1>0. /\ byId[j] # NoTime /\ byId'[j] = NoTime /\ rec[j] # NoRecord
      /\ \A i \in Jobs \ {j} : byId'[i] = byId[i]
      /\ cancelled' = cancelled \cup {j}
      /\ UNCHANGED <<rec, fires, anchor, faults, now, poll, pollNow, due, cur, next, firedAt,
                     boot, seen, entry>>
  BY CancelEffect DEF TimerInv
<1>1. \A t \in InFlight : t[2] \in Jobs
  BY HistoryTypes
<1>2. Used' = Used /\ Used \subseteq Jobs
  BY <1>0 DEF Used
<1>3. JobFacts' /\ WriteFacts'
  BY <1>0 DEF TimerInv, JobFacts, WriteFacts
<1>4. StoredOnTime'
  BY <1>0 DEF TimerInv, StoredOnTime
<1>5. HeldIsStored'
  BY <1>0, <1>1 DEF TimerInv, HeldIsStored, InFlight
<1>6. OnceBudget'
  BY <1>0, <1>2 DEF TimerInv, OnceBudget
<1>7. NoTimerLost' /\ YamlSeen' /\ YamlOnce'
  BY <1>0, <1>2 DEF TimerInv, NoTimerLost, YamlSeen, YamlOnce
<1> QED
  BY <1>3, <1>4, <1>5, <1>6, <1>7 DEF Histories

LEMMA CollectKeeps ==
    ASSUME TimerInv, CollectDue
    PROVE  Histories'
<1>0. /\ poll = "collect" /\ poll' = "fire"
      /\ \A t \in due' : /\ t[2] \in Jobs /\ byId[t[2]] = t[1] /\ byId[t[2]] # NoTime
                         /\ t[1] \in Nat /\ t[1] <= pollNow
      /\ UNCHANGED <<timers, byId, rec, fires, anchor, cancelled, faults, now, pollNow, boot, seen, entry>>
  BY CollectEffect DEF TimerInv
<1>1. InFlight' = due'
  BY <1>0 DEF InFlight
<1>2. JobFacts' /\ WriteFacts' /\ NoTimerLost' /\ YamlSeen' /\ YamlOnce'
  BY <1>0 DEF TimerInv, JobFacts, WriteFacts, NoTimerLost, YamlSeen, YamlOnce, Used
<1>3. StoredOnTime'
  <2>1. now \in Nat /\ pollNow \in Nat
    BY HistoryTypes
  <2> QED
    BY <1>0, <2>1 DEF TimerInv, StoredOnTime
<1>4. HeldIsStored'
  BY <1>0, <1>1 DEF TimerInv, HeldIsStored
<1>5. OnceBudget'
  BY <1>0 DEF TimerInv, OnceBudget, Used
<1> QED
  BY <1>2, <1>3, <1>4, <1>5 DEF Histories

\* next_fire_after, right after the timer fired.
LEMMA NextFire ==
    ASSUME TimerInv, NEW j \in Used
    PROVE  /\ NextFireAfter(j) # NoTime =>
                 rec[j].mode # "once" /\ OnTime(rec[j], NextFireAfter(j), now)
           /\ NextFireAfter(j) = NoTime =>
                 \/ rec[j].mode = "once"
                 \/ rec[j].mode = "cron" /\ CronAfter(rec[j].expr, now) = NoTime
<1>0. /\ j \in Jobs /\ rec[j].mode \in Modes /\ now \in Nat /\ rec[j].delay \in Nat
  BY HistoryTypes DEF TimerInv, JobFacts, Used, Record
<1>1. CASE rec[j].mode = "once"
  <2>1. NextFireAfter(j) = NoTime
    BY <1>1 DEF NextFireAfter
  <2> QED
    BY <1>1, <2>1
<1>2. CASE rec[j].mode = "fixed"
  <2>1. NextFireAfter(j) = now + rec[j].delay
    BY <1>2 DEF NextFireAfter
  <2> QED
    BY <1>0, <1>2, <2>1 DEF OnTime, NoTime
<1>3. CASE rec[j].mode = "cron"
  <2>1. NextFireAfter(j) = CronAfter(rec[j].expr, now)
    BY <1>3 DEF NextFireAfter
  <2>2. LET at == CronAfter(rec[j].expr, now) IN at # NoTime => at \in CronTimes[rec[j].expr] /\ now < at
    <3>1. rec[j].expr \in Exprs
      BY <1>0, <1>3, HistoryTypes DEF Record
    <3> QED
      BY <1>0, <3>1, CronAfterType
  <2> QED
    BY <1>3, <2>1, <2>2 DEF OnTime
<1> QED
  BY <1>0, <1>1, <1>2, <1>3 DEF Modes

LEMMA FireKeeps ==
    ASSUME TimerInv, NEW t \in due, Fire(t)
    PROVE  Histories'
<1> DEFINE j == t[2]
<1>0. /\ t \in Nat \X Jobs /\ j \in Jobs /\ t \in InFlight
      /\ poll = "fire" /\ poll' = "write" /\ cur' = t /\ due' = due \ {t}
      /\ fires'[j] = fires[j] + 1
      /\ \A i \in Jobs \ {j} : fires'[i] = fires[i]
      /\ next' = NextFireAfter(j) /\ firedAt' = now
      /\ UNCHANGED <<timers, byId, rec, anchor, cancelled, faults, now, pollNow, boot, seen, entry>>
      /\ rec[j] # NoRecord
      /\ \A u \in due : u[2] \in Jobs /\ (u # t => u[2] # j)
  BY FireEffect DEF TimerInv
<1>1. (\A i \in Jobs : fires[i] \in Nat) /\ faults \in Nat
  BY HistoryTypes
<1>2. j \in Used /\ Used' = Used /\ Used \subseteq Jobs
  BY <1>0 DEF Used
<1> HIDE DEF j
<1>3. JobFacts'
  BY <1>0 DEF TimerInv, JobFacts
<1>4. StoredOnTime'
  BY <1>0 DEF TimerInv, StoredOnTime
<1>5. WriteFacts'
  <2>1. cur'[2] = j
    BY <1>0 DEF j
  <2>2. fires'[j] > 0
    BY <1>0, <1>1
  <2>3. rec' = rec /\ firedAt' = now /\ next' = NextFireAfter(j)
    BY <1>0
  <2>4. CronAfter(rec[j].expr, firedAt)' = CronAfter(rec[j].expr, now)
    BY <2>3 DEF CronAfter, j
  <2> QED
    BY <1>2, <2>1, <2>2, <2>3, <2>4, NextFire DEF WriteFacts, OnTime
<1>6. HeldIsStored'
  <2>1. InFlight' \subseteq InFlight
    BY <1>0 DEF InFlight
  <2> QED
    BY <1>0, <2>1 DEF TimerInv, HeldIsStored
<1>7. OnceBudget'
  <2> SUFFICES ASSUME NEW i \in Used, rec[i].mode = "once"
               PROVE  /\ fires'[i] <= 1 + faults
                      /\ byId[i] # NoTime /\ ~(cur'[2] = i) => fires'[i] <= faults
                      /\ \A u \in due' : u[2] = i => fires'[i] <= faults
    BY <1>0, <1>2 DEF OnceBudget
  <2>1. CASE i = j
    <3>1. fires[i] <= faults
      BY <2>1 DEF TimerInv, OnceBudget, j
    <3>2. cur'[2] = i /\ \A u \in due' : u[2] # i
      BY <1>0, <2>1 DEF j
    <3> QED
      BY <1>0, <1>1, <2>1, <3>1, <3>2
  <2>2. CASE i # j
    <3>1. fires'[i] = fires[i] /\ due' \subseteq due
      BY <1>0, <1>2, <2>2
    <3> QED
      BY <1>0, <3>1 DEF TimerInv, OnceBudget
  <2> QED
    BY <2>1, <2>2
<1>8. NoTimerLost'
  <2>1. \A i \in Jobs : fires[i] > 0 => fires'[i] > 0
    BY <1>0, <1>1
  <2> QED
    BY <1>0, <1>2, <2>1 DEF TimerInv, NoTimerLost
<1>9. YamlSeen' /\ YamlOnce'
  BY <1>0, <1>2 DEF TimerInv, YamlSeen, YamlOnce
<1> QED
  BY <1>3, <1>4, <1>5, <1>6, <1>7, <1>8, <1>9 DEF Histories

LEMMA RescheduleKeeps ==
    ASSUME TimerInv, Reschedule
    PROVE  Histories'
<1> DEFINE j == cur[2]
<1>0. /\ poll = "write" /\ poll' = "fire" /\ cur \in Nat \X Jobs /\ j \in Jobs
      /\ byId'[j] = next /\ anchor'[j] = firedAt
      /\ \A i \in Jobs \ {j} : byId'[i] = byId[i] /\ anchor'[i] = anchor[i]
      /\ UNCHANGED <<rec, fires, cancelled, faults, now, pollNow, due, boot, seen, entry>>
      /\ cur \in InFlight
      /\ \A t \in due : t[2] # j /\ t[2] \in Jobs
      /\ rec[j] # NoRecord
  BY RescheduleEffect DEF TimerInv
<1>1. j \in Used /\ Used' = Used /\ Used \subseteq Jobs
  BY <1>0 DEF Used
<1>2. /\ fires[j] > 0
      /\ next # NoTime => rec[j].mode # "once" /\ OnTime(rec[j], next, firedAt)
      /\ next = NoTime => \/ rec[j].mode = "once"
                          \/ rec[j].mode = "cron" /\ CronAfter(rec[j].expr, firedAt) = NoTime
  BY <1>0 DEF TimerInv, WriteFacts
<1>3. j \in cancelled \/ byId[j] # NoTime
  BY <1>0 DEF TimerInv, HeldIsStored, NoTime
<1>4. InFlight' = due
  BY <1>0 DEF InFlight
<1> HIDE DEF j
<1>5. JobFacts'
  BY <1>0 DEF TimerInv, JobFacts
<1>6. StoredOnTime'
  BY <1>0, <1>2 DEF TimerInv, StoredOnTime
<1>7. WriteFacts'
  BY <1>0 DEF WriteFacts
<1>8. HeldIsStored'
  BY <1>0, <1>4 DEF TimerInv, HeldIsStored, InFlight
<1>9. OnceBudget'
  <2> SUFFICES ASSUME NEW i \in Used, rec[i].mode = "once"
               PROVE  /\ fires[i] <= 1 + faults
                      /\ byId'[i] # NoTime => fires[i] <= faults
                      /\ \A u \in due : u[2] = i => fires[i] <= faults
    BY <1>0, <1>1 DEF OnceBudget
  <2>1. CASE i = j
    BY <1>0, <1>2, <2>1 DEF TimerInv, OnceBudget
  <2>2. CASE i # j
    BY <1>0, <1>1, <2>2 DEF TimerInv, OnceBudget, j
  <2> QED
    BY <2>1, <2>2
<1>10. NoTimerLost'
  <2>1. ASSUME NEW i \in Used \ cancelled
        PROVE  \/ byId'[i] # NoTime
               \/ rec[i].mode = "once" /\ fires[i] > 0
               \/ rec[i].mode = "cron" /\ fires[i] > 0 /\ CronAfter(rec[i].expr, anchor'[i]) = NoTime
    BY <1>0, <1>1, <1>2 DEF TimerInv, NoTimerLost
  <2> QED
    BY <1>0, <1>1, <2>1 DEF NoTimerLost, CronAfter
<1>11. \A i \in Used \ cancelled : byId'[i] # NoTime => byId[i] # NoTime
  BY <1>0, <1>1, <1>3
<1>12. YamlSeen' /\ YamlOnce'
  BY <1>0, <1>1, <1>11 DEF TimerInv, YamlSeen, YamlOnce
<1> QED
  BY <1>5, <1>6, <1>7, <1>8, <1>9, <1>10, <1>12 DEF Histories

\* Every step preserves the inductive invariant.
LEMMA TimerStep == TimerInv /\ [Next]_vars => TimerInv'
<1> SUFFICES ASSUME TimerInv, [Next]_vars PROVE TimerInv'
  OBVIOUS
<1>1. IndexInv' /\ TypeOK' /\ TypeOK /\ pollNow <= now
  BY IndexStep DEF TimerInv, IndexInv, StoredOnTime
<1>2. Histories'
  BY <1>1, StepKinds, QuietKeeps, InsertKeeps, CancelKeeps, CollectKeeps, FireKeeps, RescheduleKeeps
<1> QED
  BY <1>1, <1>2 DEF Histories, TimerInv

LEMMA InitTimers == Init => TimerInv
<1> SUFFICES ASSUME Init PROVE TimerInv
  OBVIOUS
<1>1. IndexInv
  BY InitIndex
<1>2. /\ \A j \in Jobs : rec[j] = NoRecord /\ byId[j] = NoTime /\ fires[j] = 0
      /\ due = {} /\ poll = "sleep" /\ cancelled = {} /\ boot = "load" /\ pollNow = 0 /\ now = 0
  BY DEF Init
<1>3. Used = {} /\ InFlight = {}
  BY <1>2 DEF Used, InFlight
<1>4. JobFacts /\ StoredOnTime /\ WriteFacts /\ HeldIsStored
  BY <1>2, <1>3 DEF JobFacts, StoredOnTime, WriteFacts, HeldIsStored
<1>5. OnceBudget /\ NoTimerLost /\ YamlSeen /\ YamlOnce
  BY <1>2, <1>3 DEF OnceBudget, NoTimerLost, YamlSeen, YamlOnce
<1> QED
  BY <1>1, <1>4, <1>5 DEF TimerInv

LEMMA TimerInvariant == Spec => []TimerInv
BY InitTimers, TimerStep, PTL DEF Spec

\* A timer nobody cancelled leaves the tables only after firing, as a one-shot
\* or with no cron instant left: through crashes between firing and
\* rescheduling, failed transactions and missing workflows.
THEOREM NoTimerIsLost == Spec => []NoTimerLost
<1>1. TimerInv => NoTimerLost
  BY DEF TimerInv
<1> QED
  BY <1>1, TimerInvariant, PTL

\* A one-shot timer fires at most once more than there were crashes and failed
\* transactions.
THEOREM OnceFiresOnce == Spec => []OnceAtMostOnce
<1>1. TimerInv => OnceAtMostOnce
  BY DEF TimerInv, OnceBudget, OnceAtMostOnce
<1> QED
  BY <1>1, TimerInvariant, PTL

\* register_schedules gives no entry of the file two live timers that nobody
\* cancelled, although the poll loop and the tools work on the tables between its
\* listing and its inserts, and entries may share a key.
THEOREM YamlTimersOnce == Spec => []YamlOnce
<1>1. TimerInv => YamlOnce
  BY DEF TimerInv
<1> QED
  BY <1>1, TimerInvariant, PTL

-----------------------------------------------------------------------------
(* What a step may never do.                                               *)

\* The workflow of a timer is invoked when its delay has passed, or at or after
\* an instant of its cron expression, counted from when it was last scheduled.
THEOREM NeverFiresEarly == Spec => NeverEarly
<1> DEFINE Ripe(j) == IF rec[j].mode = "cron"
                       THEN \E c \in CronTimes[rec[j].expr] : anchor[j] < c /\ c <= now
                       ELSE now >= anchor[j] + rec[j].delay
<1>1. ASSUME TimerInv, [Next]_vars, NEW j \in Jobs, fires'[j] # fires[j]
      PROVE  Ripe(j)
  <2>0. TypeOK /\ pollNow <= now
    BY <1>1 DEF TimerInv, IndexInv, StoredOnTime
  <2>1. \E t \in due : Fire(t)
    <3>1. ~QuietStep /\ ~CollectDue /\ ~Reschedule
      BY <1>1 DEF QuietStep, CollectDue, Reschedule, history
    <3>2. ASSUME NEW i \in Jobs PROVE ~Cancel(i)
      BY <1>1 DEF Cancel
    <3>3. ASSUME NEW i \in Jobs, NEW r \in Record, NEW at \in Nat PROVE ~InsertStep(i, r, at)
      BY <1>1 DEF InsertStep, InsertNew
    <3> QED
      BY <1>1, <2>0, <3>1, <3>2, <3>3, StepKinds
  <2>2. PICK t \in due : Fire(t)
    BY <2>1
  <2>3. j = t[2]
    BY <1>1, <2>2, FireEffect DEF TimerInv
  <2>4. t[1] <= now /\ OnTime(rec[j], t[1], anchor[j])
    BY <1>1, <2>3 DEF TimerInv, StoredOnTime
  <2>5. now \in Nat /\ anchor[j] \in Nat /\ t[1] \in Nat
    BY <1>1, HistoryTypes
  <2> QED
    BY <2>4, <2>5 DEF OnTime
<1>2. TimerInv /\ [Next]_vars => [\A j \in Jobs : fires'[j] # fires[j] => Ripe(j)]_vars
  BY <1>1
<1> QED
  BY <1>2, TimerInvariant, PTL DEF Spec, NeverEarly

\* A cancelled timer that the tick does not hold is neither collected, nor
\* written back, nor fired again.
THEOREM CancelledStaysGone == Spec => CancelledStaysQuiet
<1>1. ASSUME TimerInv, [Next]_vars, NEW j \in cancelled, Quiet(j)
      PROVE  Quiet(j)' /\ fires'[j] = fires[j]
  <2>0. /\ TypeOK /\ pollNow <= now /\ IndexInv
        /\ j \in Jobs /\ byId[j] = NoTime /\ \A t \in InFlight : t[2] # j
    BY <1>1 DEF TimerInv, IndexInv, StoredOnTime, TypeOK, Quiet, InFlightJobs
  <2>1. SUFFICES byId'[j] = NoTime /\ (\A t \in InFlight' : t[2] # j) /\ fires'[j] = fires[j]
    BY DEF Quiet, InFlightJobs
  <2> DEFINE Goal == byId'[j] = NoTime /\ (\A t \in InFlight' : t[2] # j) /\ fires'[j] = fires[j]
  <2> SUFFICES Goal
    OBVIOUS
  <2>2. CASE QuietStep
    <3>1. InFlight' \subseteq InFlight
      BY <2>2 DEF QuietStep, InFlight
    <3> QED
      BY <2>0, <2>2, <3>1 DEF QuietStep
  <2>3. ASSUME NEW i \in Jobs, NEW r \in Record, NEW at \in Nat, InsertStep(i, r, at) PROVE Goal
    <3>1. /\ rec[i] = NoRecord /\ \A k \in Jobs \ {i} : byId'[k] = byId[k]
          /\ UNCHANGED <<fires, poll, due, cur>>
      BY <2>0, <2>3, InsertEffect
    <3>2. i # j
      BY <1>1, <2>0, <3>1 DEF TimerInv, JobFacts
    <3> QED
      BY <2>0, <3>1, <3>2 DEF InFlight
  <2>4. ASSUME NEW i \in Jobs, Cancel(i) PROVE Goal
    <3>1. UNCHANGED <<fires, poll, due, cur>> /\ byId'[j] \in {byId[j], NoTime}
      BY <2>0, <2>4, CancelEffect
    <3> QED
      BY <2>0, <3>1 DEF InFlight
  <2>5. CASE CollectDue
    <3>1. InFlight' = due' /\ UNCHANGED <<byId, fires>> /\ \A t \in due' : byId[t[2]] # NoTime
      BY <2>0, <2>5, CollectEffect DEF InFlight
    <3> QED
      BY <2>0, <3>1
  <2>6. ASSUME NEW t \in due, Fire(t) PROVE Goal
    <3>1. InFlight' \subseteq InFlight /\ t \in InFlight
      BY <2>6 DEF Fire, InFlight
    <3>2. t[2] # j
      BY <2>0, <3>1
    <3> QED
      BY <2>0, <2>6, <3>1, <3>2, FireEffect
  <2>7. CASE Reschedule
    <3>1. cur \in InFlight /\ due \subseteq InFlight /\ InFlight' = due
      BY <2>7 DEF Reschedule, InFlight
    <3>2. cur[2] # j
      BY <2>0, <3>1
    <3> QED
      BY <2>0, <2>7, <3>1, <3>2, RescheduleEffect
  <2> HIDE DEF Goal
  <2> QED
    BY <1>1, <2>0, <2>2, <2>3, <2>4, <2>5, <2>6, <2>7, StepKinds
<1>2. TimerInv /\ [Next]_vars
        => [\A j \in cancelled : Quiet(j) => Quiet(j)' /\ fires'[j] = fires[j]]_vars
  BY <1>1
<1> QED
  BY <1>2, TimerInvariant, PTL DEF Spec, CancelledStaysQuiet

=============================================================================
