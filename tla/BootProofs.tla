----------------------------- MODULE BootProofs -----------------------------
(***************************************************************************)
(* Reloads that no edit crosses install what the files say, for any files, *)
(* contents, guards, clients and number of calls; and the parser is        *)
(* right about every schema: the validator accepts rooted DAGs and nothing *)
(* else, and what is compiled from them is a valid workflow.               *)
(***************************************************************************)
EXTENDS Boot, TLAPS, FiniteSetTheorems, WellFoundedInduction

(***************************************************************************)
(* The inductive invariant.  Calls that overlap undo one another's work    *)
(* only for a while: a tool that the files do not define is still on the   *)
(* list of a call that removes it, and one that they define is there or    *)
(* some call has yet to load its file, since a call removes before it      *)
(* loads.                                                                  *)
(***************************************************************************)

\* The names of workflow tools.
Ids == {c.id : c \in Contents}

Pcs      == {"new", "scan", "load", "register", "notify", "done"}
IdSets   == SUBSET Ids
FileSets == SUBSET Files
AFile    == Files \cup {None}
AContent == Contents \cup {None}

JobType == [pc : Pcs, names : IdSets, todo : FileSets, file : AFile, content : AContent]

Typed == /\ job \in [Jobs -> JobType]
         /\ \A j \in Jobs : job[j].pc = "register" => job[j].file \in Files /\ job[j].content \in Contents
         /\ DOMAIN registry \subseteq Ids
         /\ \A n \in DOMAIN registry : registry[n].id = n
         /\ batch \in {"none", "calm", "failed", "kept"}

\* Without the directory there are no files.
DirInv == ~dir => \A f \in Files : disk[f] = Absent

\* The tools that the files define.
Eligible == {c \in {disk[f] : f \in Files} \cap Contents : Parses(c) /\ c.tool}

\* The guards that a reload is to end with.
Wanted == IF toolsYaml \in {Absent, Broken, {}} THEN before.guards ELSE toolsYaml

\* A call has still to remove the tool, and to load the file.
Listed(n)  == \E j \in Jobs : job[j].pc = "scan" /\ n \in job[j].names
Pending(f) == \E j \in Jobs : \/ job[j].pc = "scan"
                              \/ job[j].pc \in {"load", "register"} /\ f \in job[j].todo
                              \/ job[j].pc = "register" /\ job[j].file = f

Sound    == \A n \in DOMAIN registry : registry[n] \in Eligible \/ Listed(n)
Fresh    == \A j \in Jobs : job[j].pc = "register" => /\ job[j].content = disk[job[j].file]
                                                      /\ Parses(job[j].content)
Complete == \A f \in Files : disk[f] \in Eligible => disk[f].id \in DOMAIN registry \/ Pending(f)

SomeGuards  == guards \in {before.guards, Wanted}
RightGuards == (\E j \in Jobs : job[j].pc = "notify") \/ (\A j \in Jobs : ~Busy(j)) => guards = Wanted

\* Every call found the directory gone.
AllKept == /\ \A j \in Jobs : ~Busy(j)
           /\ \A f \in Files : disk[f] = Absent
           /\ registry = before.registry /\ guards = before.guards

BatchInv ==
    /\ batch # "none" => phase = "up" /\ ~Busy(BootJob)
    /\ batch \in {"calm", "failed"} => Sound /\ Fresh /\ SomeGuards
    /\ batch = "calm" => Complete /\ RightGuards
    /\ batch = "kept" => AllKept

BootInv == Typed /\ DirInv /\ BatchInv

-----------------------------------------------------------------------------
(***************************************************************************)
(* What the invariant says of a job that takes a step.                     *)
(***************************************************************************)

\* A step that touches nothing the invariant speaks of keeps it.
LEMMA SameKeeps ==
  ASSUME BootInv,
         UNCHANGED <<disk, dir, toolsYaml, phase, registry, guards, job, batch, before>>
  PROVE  BootInv'
<1>1. Sound' = Sound /\ Complete' = Complete
  BY DEF Sound, Complete, Eligible, Listed, Pending
<1>2. Fresh' = Fresh /\ SomeGuards' = SomeGuards /\ RightGuards' = RightGuards /\ AllKept' = AllKept
  BY DEF Fresh, SomeGuards, RightGuards, Wanted, AllKept, Busy
<1>3. BatchInv'
  BY <1>1, <1>2 DEF BootInv, BatchInv, Busy
<1> QED
  BY <1>3 DEF BootInv, Typed, DirInv

\* Where a batch was crossed there is nothing to show.
LEMMA CrossedKeeps ==
  ASSUME Typed', DirInv', batch' = "none"
  PROVE  BootInv'
BY DEF BootInv, BatchInv

\* Boot is not a reload.
LEMMA BootIsNoReload == BootJob \notin Reloads /\ Reloads \subseteq Jobs /\ BootJob \in Jobs
BY BootAssumption DEF BootJob, Reloads, Jobs

\* What belongs to the types of a job's fields.
LEMMA FieldTypes ==
  /\ "new" \in Pcs /\ "scan" \in Pcs /\ "load" \in Pcs
  /\ "register" \in Pcs /\ "notify" \in Pcs /\ "done" \in Pcs
  /\ {} \in IdSets /\ {} \in FileSets /\ None \in AFile /\ None \in AContent
BY DEF Pcs, IdSets, FileSets, AFile, AContent

\* The record of a job that has not begun, and of one that has ended.
LEMMA NoJobType ==
  /\ NoJob \in JobType /\ NoJob.pc = "new"
  /\ [NoJob EXCEPT !.pc = "done"] \in JobType
  /\ [NoJob EXCEPT !.pc = "done"].pc = "done"
<1>1. NoJob \in JobType /\ NoJob.pc = "new"
  BY FieldTypes DEF NoJob, JobType
<1>2. ASSUME NEW x \in JobType
      PROVE  /\ [x EXCEPT !.pc = "done"] \in JobType
             /\ [x EXCEPT !.pc = "done"].pc = "done"
  BY FieldTypes DEF JobType
<1> QED
  BY <1>1, <1>2

\* The types after a step of one job.
LEMMA TypedStep ==
  ASSUME Typed, NEW j \in Jobs, job' \in [Jobs -> JobType], \A k \in Jobs \ {j} : job'[k] = job[k],
         job'[j].pc = "register" => job'[j].file \in Files /\ job'[j].content \in Contents,
         DOMAIN registry' \subseteq Ids, \A n \in DOMAIN registry' : registry'[n].id = n,
         batch' \in {"none", "calm", "failed", "kept"}
  PROVE  Typed'
BY DEF Typed

\* A step of a job that is under way: what is left to show when the files, the
\* phase and the kind of batch stay.
LEMMA JobStepKeeps ==
  ASSUME BootInv, NEW j \in Jobs, Busy(j), Typed',
         UNCHANGED <<disk, dir, toolsYaml, phase, before, batch>>,
         \A k \in Jobs \ {j} : job'[k] = job[k],
         batch \in {"calm", "failed"} => Sound' /\ Fresh' /\ SomeGuards',
         batch = "calm" => Complete' /\ RightGuards'
  PROVE  BootInv'
<1>1. batch # "kept"
  BY DEF BootInv, BatchInv, AllKept
<1>2. batch # "none" => phase' = "up" /\ ~Busy(BootJob)'
  BY BootIsNoReload DEF BootInv, BatchInv, Busy
<1>3. BatchInv'
  BY <1>1, <1>2 DEF BatchInv
<1> QED
  BY <1>3 DEF BootInv, DirInv

-----------------------------------------------------------------------------
(***************************************************************************)
(* The operator and boot.                                                  *)
(***************************************************************************)

\* An edit crosses the batch.
LEMMA EditKeeps ==
  ASSUME BootInv, (\E f \in Files : EditFile(f)) \/ RemoveDir \/ EditToolsYaml
  PROVE  BootInv'
<1>1. batch' = "none" /\ UNCHANGED <<job, registry>>
  BY DEF EditFile, RemoveDir, EditToolsYaml, Disturb, platform
<1>2. Typed'
  BY <1>1 DEF BootInv, Typed
<1>3. DirInv'
  BY DEF BootInv, DirInv, EditFile, RemoveDir, EditToolsYaml
<1> QED
  BY <1>1, <1>2, <1>3, CrossedKeeps

\* The steps of boot come before any batch.
LEMMA BootStepsKeep ==
  ASSUME BootInv, LoadConfig \/ RegisterTools \/ InitRuntime \/ BootGuards \/ FinishBoot
  PROVE  BootInv'
<1>1. phase # "up" /\ UNCHANGED <<registry, batch, disk, dir>>
  BY DEF LoadConfig, RegisterTools, InitRuntime, BootGuards, FinishBoot, BootStep, history, platform,
         files
<1>2. batch' = "none" /\ DirInv'
  BY <1>1 DEF BootInv, BatchInv, DirInv
<1>3. CASE UNCHANGED job
  BY <1>1, <1>2, <1>3, CrossedKeeps DEF BootInv, Typed
<1>4. CASE InitRuntime
  <2>1. job' = job \/ job' = [job EXCEPT ![BootJob].pc = "scan"]
    <3>1. job' = [job EXCEPT ![BootJob].pc = IF phase' = "workflows" THEN "scan" ELSE @]
      BY <1>4 DEF InitRuntime
    <3> QED
      BY <3>1, BootIsNoReload DEF BootInv, Typed, JobType
  <2>2. Typed'
    BY <2>1, <1>1, BootIsNoReload, FieldTypes DEF BootInv, Typed, JobType
  <2> QED
    BY <2>2, <1>2, CrossedKeeps
<1> QED
  BY <1>3, <1>4 DEF LoadConfig, RegisterTools, BootGuards, FinishBoot

-----------------------------------------------------------------------------
(***************************************************************************)
(* The steps of a job.                                                     *)
(***************************************************************************)

\* The job's record once it is over.
LEMMA EndedJob ==
  ASSUME Typed, NEW j \in Jobs, UNCHANGED registry,
         batch' \in {"none", "calm", "failed", "kept"},
         job' = [job EXCEPT ![j] = [NoJob EXCEPT !.pc = "done"]]
  PROVE  /\ Typed' /\ job'[j].pc = "done" /\ ~Busy(j)'
         /\ \A k \in Jobs \ {j} : job'[k] = job[k]
<1>1. job'[j] = [NoJob EXCEPT !.pc = "done"] /\ \A k \in Jobs \ {j} : job'[k] = job[k]
  BY DEF Typed
<1>2. job'[j].pc = "done" /\ job' \in [Jobs -> JobType]
  BY <1>1, NoJobType DEF Typed
<1>3. DOMAIN registry' \subseteq Ids /\ \A n \in DOMAIN registry' : registry'[n].id = n
  BY DEF Typed
<1>4. Typed'
  BY <1>1, <1>2, <1>3, TypedStep
<1> QED
  BY <1>1, <1>2, <1>4 DEF Busy

\* A call that fails has nothing left on its list: what is registered is right,
\* if not complete.
LEMMA JobFailsKeeps ==
  ASSUME BootInv, NEW j \in Jobs, Busy(j), JobFails(j), Frame,
         job[j].pc = "scan" => job[j].names = {}
  PROVE  BootInv'
<1>1. /\ UNCHANGED <<disk, dir, toolsYaml, registry, guards, before>>
      /\ job' = [job EXCEPT ![j] = [NoJob EXCEPT !.pc = "done"]]
      /\ batch' = IF batch = "calm" THEN "failed" ELSE batch
      /\ phase' = IF j = BootJob THEN "failed" ELSE phase
  BY DEF JobFails, Frame, files, platform
<1>2. batch' \in {"none", "calm", "failed", "kept"}
  BY <1>1 DEF BootInv, Typed
<1>3. Typed' /\ job'[j].pc = "done" /\ \A k \in Jobs \ {j} : job'[k] = job[k]
  BY <1>1, <1>2, EndedJob DEF BootInv
<1>4. DirInv'
  BY <1>1 DEF BootInv, DirInv
<1>5. CASE batch = "none"
  BY <1>1, <1>3, <1>4, <1>5, CrossedKeeps
<1>6. CASE batch # "none"
  <2>1. batch' = "failed" /\ phase' = "up" /\ j # BootJob /\ ~Busy(BootJob)'
    BY <1>1, <1>3, <1>6, BootIsNoReload DEF BootInv, BatchInv, AllKept, Typed, Busy
  <2>2. Sound /\ Fresh /\ SomeGuards
    BY <2>1, <1>1, <1>6 DEF BootInv, BatchInv
  <2>3. Sound'
    BY <2>2, <1>1, <1>3 DEF Sound, Eligible, Listed
  <2>4. Fresh' /\ SomeGuards'
    BY <2>2, <1>1, <1>3 DEF Fresh, SomeGuards, Wanted
  <2> QED
    BY <2>1, <2>3, <2>4, <1>3, <1>4 DEF BootInv, BatchInv
<1> QED
  BY <1>5, <1>6

\* Boot's own job is over once it has registered every file.
LEMMA BootRegisteredKeeps ==
  ASSUME BootInv, BootRegistered
  PROVE  BootInv'
<1>1. /\ job' = [job EXCEPT ![BootJob] = [NoJob EXCEPT !.pc = "done"]]
      /\ UNCHANGED <<disk, dir, registry, batch>> /\ Busy(BootJob)
  BY DEF BootRegistered, Frame, files, platform, history, At, Busy
<1>2. batch' = "none" /\ DirInv'
  BY <1>1 DEF BootInv, BatchInv, DirInv
<1>3. Typed'
  BY <1>1, <1>2, EndedJob, BootIsNoReload DEF BootInv
<1> QED
  BY <1>2, <1>3, CrossedKeeps

\* With its list worked off, a call has every file to load.
LEMMA ScanKeeps ==
  ASSUME BootInv, NEW j \in Jobs, Scan(j)
  PROVE  BootInv'
<1>1. Busy(j) /\ job[j].pc = "scan" /\ job[j].names = {} /\ Frame
  BY DEF Scan, At, Busy
<1>2. CASE JobFails(j)
  BY <1>1, <1>2, JobFailsKeeps
<1>3. CASE ~JobFails(j)
  <2> DEFINE present == {f \in Files : disk[f] # Absent}
  <2>1. /\ job' = [job EXCEPT ![j].pc = "load", ![j].todo = present]
        /\ UNCHANGED <<disk, dir, toolsYaml, phase, registry, guards, batch, before>>
    BY <1>3 DEF Scan, Frame, files, platform, history
  <2>2. present \in FileSets
    BY DEF FileSets
  <2> HIDE DEF present
  <2>3. /\ job' \in [Jobs -> JobType] /\ \A k \in Jobs \ {j} : job'[k] = job[k]
        /\ job'[j].pc = "load" /\ job'[j].todo = present
    BY <2>1, <2>2, FieldTypes DEF BootInv, Typed, JobType
  <2>4. Typed'
    BY <2>1, <2>3, TypedStep DEF BootInv, Typed
  <2>5. Eligible' = Eligible
    BY <2>1 DEF Eligible
  <2>6. Sound => Sound'
    BY <2>1, <2>3, <2>5, <1>1 DEF Sound, Listed
  <2>7. Fresh => Fresh'
    BY <2>1, <2>3 DEF Fresh
  <2>8. (SomeGuards => SomeGuards') /\ (RightGuards => RightGuards')
    BY <2>1, <2>3, <1>1 DEF SomeGuards, RightGuards, Wanted, Busy
  <2>9. ASSUME NEW f \in Files, disk[f] \in Eligible PROVE Pending(f)'
    <3>1. f \in present
      BY <2>9, BootAssumption DEF present, Eligible
    <3> QED
      BY <3>1, <2>3 DEF Pending
  <2>10. Complete'
    BY <2>1, <2>5, <2>9 DEF Complete
  <2> QED
    BY <2>1, <2>3, <2>4, <2>6, <2>7, <2>8, <2>10, <1>1, JobStepKeeps DEF BootInv, BatchInv
<1> QED
  BY <1>2, <1>3

\* A file that does not parse defines no tool; one that does is registered next.
LEMMA LoadKeeps ==
  ASSUME BootInv, NEW j \in Jobs, NEW f \in Files, Load(j, f)
  PROVE  BootInv'
<1>1. Busy(j) /\ job[j].pc = "load" /\ f \in job[j].todo /\ Frame
  BY DEF Load, At, Busy
<1>2. CASE JobFails(j)
  BY <1>1, <1>2, JobFailsKeeps
<1>3. CASE ~JobFails(j)
  <2>1. /\ disk[f] \in Contents
        /\ job' = [job EXCEPT ![j].todo = @ \ {f},
                              ![j].pc = IF Parses(disk[f]) THEN "register" ELSE @,
                              ![j].file = IF Parses(disk[f]) THEN f ELSE @,
                              ![j].content = IF Parses(disk[f]) THEN disk[f] ELSE @]
        /\ UNCHANGED <<disk, dir, toolsYaml, phase, registry, guards, batch, before>>
    BY <1>3 DEF Load, Frame, files, platform, history
  <2>2. f \in AFile /\ disk[f] \in AContent /\ job[j].todo \ {f} \in FileSets
    BY <2>1 DEF AFile, AContent, FileSets, BootInv, Typed, JobType
  <2>3. /\ job' \in [Jobs -> JobType] /\ \A k \in Jobs \ {j} : job'[k] = job[k]
        /\ job'[j].pc = (IF Parses(disk[f]) THEN "register" ELSE job[j].pc)
        /\ job'[j].file = (IF Parses(disk[f]) THEN f ELSE job[j].file)
        /\ job'[j].content = (IF Parses(disk[f]) THEN disk[f] ELSE job[j].content)
        /\ job'[j].todo = job[j].todo \ {f}
    <3>2. job[j].pc \in Pcs /\ job[j].file \in AFile /\ job[j].content \in AContent
      BY DEF BootInv, Typed, JobType
    <3>3. CASE Parses(disk[f])
      <4>1. job' = [job EXCEPT ![j].todo = job[j].todo \ {f}, ![j].pc = "register", ![j].file = f,
                               ![j].content = disk[f]]
        BY <2>1, <3>3
      <4> QED
        BY <4>1, <3>3, <2>2, FieldTypes, ZenonT(30) DEF BootInv, Typed, JobType
    <3>4. CASE ~Parses(disk[f])
      <4>1. job' = [job EXCEPT ![j].todo = job[j].todo \ {f}, ![j].pc = job[j].pc,
                               ![j].file = job[j].file, ![j].content = job[j].content]
        BY <2>1, <3>4
      <4> QED
        BY <4>1, <3>2, <3>4, <2>2, ZenonT(30) DEF BootInv, Typed, JobType
    <3> QED
      BY <3>3, <3>4
  <2>4. Typed'
    <3>1. Typed
      BY DEF BootInv
    <3>2. job'[j].pc = "register" => job'[j].file \in Files /\ job'[j].content \in Contents
      BY <2>1, <2>3, <1>1
    <3>3. /\ DOMAIN registry' \subseteq Ids /\ \A n \in DOMAIN registry' : registry'[n].id = n
          /\ batch' \in {"none", "calm", "failed", "kept"}
      BY <3>1, <2>1 DEF Typed
    <3>4. job' \in [Jobs -> JobType] /\ \A k \in Jobs \ {j} : job'[k] = job[k]
      BY <2>3
    <3> QED
      BY <3>1, <3>2, <3>3, <3>4, TypedStep
  <2>5. Eligible' = Eligible
    BY <2>1 DEF Eligible
  <2>6. job'[j].pc \in {"load", "register"} /\ \A k \in Jobs : Busy(k)' = Busy(k)
    BY <2>3, <1>1 DEF Busy
  <2>7. Sound => Sound'
    BY <2>1, <2>3, <2>5, <2>6, <1>1 DEF Sound, Listed
  <2>8. Fresh => Fresh'
    BY <2>1, <2>3, <1>1 DEF Fresh
  <2>9. (SomeGuards => SomeGuards') /\ (RightGuards => RightGuards')
    BY <2>1, <2>3, <2>6, <1>1 DEF SomeGuards, RightGuards, Wanted
  <2>10. Complete => Complete'
    <3> SUFFICES ASSUME Complete, NEW g \in Files, disk[g] \in Eligible, disk[g].id \notin DOMAIN registry
                 PROVE  Pending(g)'
      BY <2>1, <2>5 DEF Complete
    <3>1. Pending(g)
      BY DEF Complete
    <3>2. CASE g = f
      <4>1. Parses(disk[f])
        BY <3>2 DEF Eligible
      <4> QED
        BY <4>1, <3>2, <2>3 DEF Pending
    <3>3. CASE g # f
      <4>1. PICK k \in Jobs : \/ job[k].pc = "scan"
                              \/ job[k].pc \in {"load", "register"} /\ g \in job[k].todo
                              \/ job[k].pc = "register" /\ job[k].file = g
        BY <3>1 DEF Pending
      <4>2. CASE k # j
        BY <4>1, <4>2, <2>3 DEF Pending
      <4>3. CASE k = j
        <5>1. g \in job'[j].todo /\ job'[j].pc \in {"load", "register"}
          BY <4>1, <4>3, <3>3, <2>3, <2>6, <1>1
        <5> QED
          BY <5>1 DEF Pending
      <4> QED
        BY <4>2, <4>3
    <3> QED
      BY <3>2, <3>3
  <2>11. \A k \in Jobs \ {j} : job'[k] = job[k]
    BY <2>3
  <2> QED
    BY <2>1, <2>4, <2>7, <2>8, <2>9, <2>10, <2>11, <1>1, JobStepKeeps DEF BootInv, BatchInv
<1> QED
  BY <1>2, <1>3

\* A parsed file adds its tool, if it is one, and replaces that of another
\* file with its id.
LEMMA RegisterKeeps ==
  ASSUME BootInv, NEW j \in Jobs, Register(j)
  PROVE  BootInv'
<1> DEFINE c == job[j].content
           f == job[j].file
<1>1. Busy(j) /\ job[j].pc = "register"
  BY DEF Register, At, Busy
<1>2. /\ registry' = IF c.tool THEN [n \in DOMAIN registry \cup {c.id} |->
                                       IF n = c.id THEN c ELSE registry[n]]
                     ELSE registry
      /\ job' = [job EXCEPT ![j].pc = "load", ![j].file = None, ![j].content = None]
      /\ UNCHANGED <<disk, dir, toolsYaml, phase, guards, batch, before>>
  BY DEF Register, Frame, files, history
<1>3. f \in Files /\ c \in Contents
  BY <1>1 DEF BootInv, Typed
<1>4. /\ job' \in [Jobs -> JobType] /\ \A k \in Jobs \ {j} : job'[k] = job[k]
      /\ job'[j].pc = "load" /\ job'[j].todo = job[j].todo
  BY <1>2, FieldTypes DEF BootInv, Typed, JobType
<1>f. Fresh => c = disk[f] /\ Parses(c)
  BY <1>1 DEF Fresh
<1>g. \A g : Pending(g) /\ g # f => Pending(g)'
  BY <1>1, <1>4 DEF Pending
<1> HIDE DEF c, f
<1>5. DOMAIN registry' = DOMAIN registry \cup {x \in {c.id} : c.tool}
  BY <1>2
<1>6. Typed'
  <2>1. DOMAIN registry' \subseteq Ids
    BY <1>3, <1>5 DEF Ids, BootInv, Typed
  <2>2. \A n \in DOMAIN registry' : registry'[n].id = n
    BY <1>2, <1>5 DEF BootInv, Typed
  <2> QED
    BY <2>1, <2>2, <1>2, <1>4, TypedStep DEF BootInv, Typed
<1>7. Eligible' = Eligible
  BY <1>2 DEF Eligible
<1>8. Sound /\ Fresh => Sound'
  <2> SUFFICES ASSUME Sound, Fresh, NEW n \in DOMAIN registry' PROVE registry'[n] \in Eligible \/ Listed(n)'
    BY <1>7 DEF Sound
  <2>1. \A m : Listed(m) => Listed(m)'
    BY <1>1, <1>4 DEF Listed
  <2>2. CASE c.tool /\ n = c.id
    <3>1. registry'[n] = c
      BY <2>2, <1>2
    <3>2. c \in Eligible
      BY <2>2, <1>3, <1>f DEF Eligible
    <3> QED
      BY <3>1, <3>2
  <2>3. CASE ~(c.tool /\ n = c.id)
    <3>1. n \in DOMAIN registry /\ registry'[n] = registry[n]
      BY <2>3, <1>2, <1>5
    <3> QED
      BY <3>1, <2>1 DEF Sound
  <2> QED
    BY <2>2, <2>3
<1>9. Fresh => Fresh'
  BY <1>2, <1>4 DEF Fresh
<1>10. (SomeGuards => SomeGuards') /\ (RightGuards => RightGuards')
  BY <1>1, <1>2, <1>4 DEF SomeGuards, RightGuards, Wanted, Busy
<1>11. Complete /\ Fresh => Complete'
  <2> SUFFICES ASSUME Complete, Fresh, NEW g \in Files, disk[g] \in Eligible
               PROVE  disk[g].id \in DOMAIN registry' \/ Pending(g)'
    BY <1>2, <1>7 DEF Complete
  <2>1. CASE g = f
    <3>1. c = disk[g] /\ c.tool
      BY <2>1, <1>f DEF Eligible
    <3> QED
      BY <3>1, <1>5
  <2>2. CASE g # f
    BY <2>2, <1>5, <1>g DEF Complete
  <2> QED
    BY <2>1, <2>2
<1> QED
  BY <1>1, <1>2, <1>4, <1>6, <1>8, <1>9, <1>10, <1>11, JobStepKeeps DEF BootInv, BatchInv

\* A call removes what was there when it began, and goes on to load every file.
LEMMA RemoveToolKeeps ==
  ASSUME BootInv, NEW j \in Jobs, NEW n \in job[j].names, RemoveTool(j, n)
  PROVE  BootInv'
<1>1. Busy(j) /\ job[j].pc = "scan"
  BY DEF RemoveTool, At, Busy
<1>2. /\ registry' = [m \in DOMAIN registry \ {n} |-> registry[m]]
      /\ job' = [job EXCEPT ![j].names = @ \ {n}]
      /\ UNCHANGED <<disk, dir, toolsYaml, phase, guards, batch, before>>
  BY DEF RemoveTool, Frame, files, history
<1>3. job[j].names \ {n} \in IdSets
  BY DEF IdSets, BootInv, Typed, JobType
<1>4. /\ job' \in [Jobs -> JobType] /\ \A k \in Jobs \ {j} : job'[k] = job[k]
      /\ job'[j].pc = job[j].pc /\ job'[j].names = job[j].names \ {n}
  BY <1>2, <1>3 DEF BootInv, Typed, JobType
<1>5. DOMAIN registry' = DOMAIN registry \ {n} /\ \A m \in DOMAIN registry' : registry'[m] = registry[m]
  BY <1>2
<1>6. Typed'
  BY <1>1, <1>2, <1>4, <1>5, TypedStep DEF BootInv, Typed
<1>7. Eligible' = Eligible
  BY <1>2 DEF Eligible
<1>8. Sound => Sound'
  <2>1. \A m : m # n /\ Listed(m) => Listed(m)'
    BY <1>1, <1>4 DEF Listed
  <2> QED
    BY <2>1, <1>5, <1>7 DEF Sound
<1>9. Fresh => Fresh'
  BY <1>1, <1>2, <1>4 DEF Fresh
<1>10. (SomeGuards => SomeGuards') /\ (RightGuards => RightGuards')
  BY <1>1, <1>2, <1>4 DEF SomeGuards, RightGuards, Wanted, Busy
<1>11. Complete'
  BY <1>1, <1>4 DEF Complete, Pending
<1> QED
  BY <1>1, <1>2, <1>4, <1>6, <1>8, <1>9, <1>10, <1>11, JobStepKeeps DEF BootInv, BatchInv

\* A call with nothing left to load has done its part; every call of the batch
\* finds the same guards in tools.yaml.
LEMMA ReloadGuardsKeeps ==
  ASSUME BootInv, NEW j \in Reloads, ReloadGuards(j)
  PROVE  BootInv'
<1>1. j \in Jobs /\ Busy(j) /\ job[j].pc = "load" /\ job[j].todo = {}
  BY BootIsNoReload DEF ReloadGuards, At, Busy
<1>2. /\ guards' = IF toolsYaml \in {Absent, Broken, {}} THEN guards ELSE toolsYaml
      /\ job' = [job EXCEPT ![j].pc = "notify"]
      /\ UNCHANGED <<disk, dir, toolsYaml, phase, registry, batch, before>>
  BY DEF ReloadGuards, Frame, files, history, ApplyToolGuards
<1>3. /\ job' \in [Jobs -> JobType] /\ \A k \in Jobs \ {j} : job'[k] = job[k]
      /\ job'[j].pc = "notify"
  BY <1>1, <1>2, FieldTypes DEF BootInv, Typed, JobType
<1>4. Typed'
  BY <1>1, <1>2, <1>3, TypedStep DEF BootInv, Typed
<1>5. Eligible' = Eligible
  BY <1>2 DEF Eligible
<1>6. Sound => Sound'
  BY <1>1, <1>2, <1>3, <1>5 DEF Sound, Listed
<1>7. Fresh => Fresh'
  BY <1>2, <1>3 DEF Fresh
<1>8. SomeGuards => SomeGuards' /\ RightGuards'
  BY <1>2 DEF SomeGuards, RightGuards, Wanted
<1>9. Complete => Complete'
  <2>1. \A f : Pending(f) => Pending(f)'
    BY <1>1, <1>3 DEF Pending
  <2> QED
    BY <2>1, <1>2, <1>5 DEF Complete
<1> QED
  BY <1>1, <1>2, <1>3, <1>4, <1>6, <1>7, <1>8, <1>9, JobStepKeeps DEF BootInv, BatchInv

\* The end of a call.
LEMMA NotifyKeeps ==
  ASSUME BootInv, NEW j \in Reloads, Notify(j)
  PROVE  BootInv'
<1>1. j \in Jobs /\ Busy(j) /\ job[j].pc = "notify"
  BY BootIsNoReload DEF Notify, At, Busy
<1>2. /\ job' = [job EXCEPT ![j] = [NoJob EXCEPT !.pc = "done"]]
      /\ UNCHANGED <<disk, dir, toolsYaml, phase, registry, guards, batch, before>>
  BY DEF Notify, files, platform
<1>3. Typed' /\ job'[j].pc = "done" /\ \A k \in Jobs \ {j} : job'[k] = job[k]
  <2>1. batch' \in {"none", "calm", "failed", "kept"}
    BY <1>2 DEF BootInv, Typed
  <2> QED
    BY <2>1, <1>1, <1>2, EndedJob DEF BootInv
<1>5. Eligible' = Eligible
  BY <1>2 DEF Eligible
<1>6. Sound => Sound'
  BY <1>1, <1>2, <1>3, <1>5 DEF Sound, Listed
<1>7. Fresh => Fresh'
  BY <1>2, <1>3 DEF Fresh
<1>8. (SomeGuards => SomeGuards') /\ (RightGuards => RightGuards')
  BY <1>1, <1>2 DEF SomeGuards, RightGuards, Wanted
<1>9. Complete => Complete'
  <2>1. \A f : Pending(f) => Pending(f)'
    BY <1>1, <1>3 DEF Pending
  <2> QED
    BY <2>1, <1>2, <1>5 DEF Complete
<1> QED
  BY <1>1, <1>2, <1>3, <1>6, <1>7, <1>8, <1>9, JobStepKeeps DEF BootInv, BatchInv

\* A call that begins lists every tool that is registered, and has every file
\* to load.
LEMMA StartReloadKeeps ==
  ASSUME BootInv, NEW r \in Reloads, StartReload(r)
  PROVE  BootInv'
<1>1. /\ r \in Jobs /\ r # BootJob /\ job[r].pc = "new" /\ ~Busy(r)
      /\ UNCHANGED <<disk, dir, toolsYaml, phase, registry, guards>>
  BY BootIsNoReload DEF StartReload, Busy, Frame, files, platform
<1>2. Eligible' = Eligible
  BY <1>1 DEF Eligible
<1>3. /\ Idle => before' = [registry |-> registry, guards |-> guards]
      /\ ~Idle => UNCHANGED <<before, batch>>
      /\ batch' \in {"none", "calm", "failed", "kept"}
  BY DEF StartReload, Join, BootInv, Typed
<1>4. Idle => before'.registry = registry /\ before'.guards = guards
  BY <1>3
<1>5. DirInv'
  BY <1>1 DEF BootInv, DirInv
<1>6. CASE dir
  <2>1. /\ job' = [job EXCEPT ![r].pc = "scan", ![r].names = DOMAIN registry]
        /\ Idle => batch' = "calm"
    BY <1>6 DEF StartReload, Join, WorkflowTools
  <2>2. DOMAIN registry \in IdSets
    BY DEF IdSets, BootInv, Typed
  <2>3. /\ job' \in [Jobs -> JobType] /\ \A k \in Jobs \ {r} : job'[k] = job[k]
        /\ job'[r].pc = "scan" /\ job'[r].names = DOMAIN registry
    BY <2>1, <2>2, <1>1, FieldTypes DEF BootInv, Typed, JobType
  <2>4. Typed'
    BY <2>3, <1>1, <1>3, TypedStep DEF BootInv, Typed
  <2>5. Sound' /\ Complete'
    BY <2>3, <1>1 DEF Sound, Complete, Listed, Pending
  <2>6. Fresh => Fresh'
    BY <2>3, <1>1 DEF Fresh
  <2>7. CASE Idle
    <3>1. batch' = "calm" /\ phase' = "up" /\ ~Busy(BootJob)'
      BY <2>1, <2>3, <2>7, <1>1, BootIsNoReload DEF Idle, Busy
    <3>2. Fresh'
      BY <2>3, <2>7 DEF Idle, Busy, Fresh
    <3>3. SomeGuards' /\ RightGuards'
      BY <2>3, <2>7, <1>1, <1>4 DEF Idle, SomeGuards, RightGuards, Busy
    <3> QED
      BY <3>1, <3>2, <3>3, <2>4, <2>5, <1>5 DEF BootInv, BatchInv
  <2>8. CASE ~Idle
    <3>1. UNCHANGED <<before, batch>> /\ batch # "kept"
      BY <2>8, <1>3 DEF BootInv, BatchInv, AllKept, Idle
    <3>2. batch # "none" => phase' = "up" /\ ~Busy(BootJob)'
      BY <2>3, <1>1, BootIsNoReload DEF BootInv, BatchInv, Busy
    <3>3. (SomeGuards => SomeGuards') /\ (RightGuards => RightGuards')
      BY <3>1, <2>3, <1>1 DEF SomeGuards, RightGuards, Wanted, Busy
    <3> QED
      BY <3>1, <3>2, <3>3, <2>4, <2>5, <2>6, <1>5 DEF BootInv, BatchInv
  <2> QED
    BY <2>7, <2>8
<1>7. CASE ~dir
  <2>1. /\ job' = [job EXCEPT ![r].pc = "done"]
        /\ Idle => batch' = "kept"
    BY <1>7 DEF StartReload, Join
  <2>2. /\ job' \in [Jobs -> JobType] /\ \A k \in Jobs \ {r} : job'[k] = job[k]
        /\ job'[r].pc = "done"
    BY <2>1, <1>1, FieldTypes DEF BootInv, Typed, JobType
  <2>3. Typed'
    BY <2>2, <1>1, <1>3, TypedStep DEF BootInv, Typed
  <2>4. \A k \in Jobs : Busy(k)' = Busy(k)
    BY <2>2, <1>1 DEF Busy
  <2>5. CASE Idle
    <3>1. batch' = "kept" /\ phase' = "up" /\ \A k \in Jobs : ~Busy(k)'
      BY <2>1, <2>4, <2>5, <1>1 DEF Idle
    <3>2. AllKept'
      BY <3>1, <2>5, <1>1, <1>4, <1>7 DEF AllKept, BootInv, DirInv
    <3> QED
      BY <3>1, <3>2, <2>3, <1>5, BootIsNoReload DEF BootInv, BatchInv
  <2>6. CASE ~Idle
    <3>1. UNCHANGED <<before, batch>> /\ batch # "kept"
      BY <2>6, <1>3 DEF BootInv, BatchInv, AllKept, Idle
    <3>2. batch # "none" => phase' = "up" /\ ~Busy(BootJob)'
      BY <2>4, <1>1, BootIsNoReload DEF BootInv, BatchInv
    <3>3. (SomeGuards => SomeGuards') /\ (RightGuards => RightGuards')
      BY <3>1, <2>2, <2>4, <1>1 DEF SomeGuards, RightGuards, Wanted
    <3>4. (Fresh => Fresh') /\ (Sound => Sound') /\ (Complete => Complete')
      <4>1. \A n : (Listed(n) => Listed(n)') /\ (Pending(n) => Pending(n)')
        BY <2>2, <1>1 DEF Listed, Pending
      <4>2. Fresh => Fresh'
        BY <2>2, <1>1 DEF Fresh
      <4> QED
        BY <4>1, <4>2, <1>1, <1>2 DEF Sound, Complete
    <3> QED
      BY <3>1, <3>2, <3>3, <3>4, <2>3, <1>5 DEF BootInv, BatchInv
  <2> QED
    BY <2>5, <2>6
<1> QED
  BY <1>6, <1>7

-----------------------------------------------------------------------------

\* The invariant holds before boot.
LEMMA InitHolds == Init => BootInv
<1> SUFFICES ASSUME Init PROVE BootInv
  OBVIOUS
<1>1. job = [j \in Jobs |-> NoJob] /\ registry = <<>> /\ batch = "none" /\ dir
  BY DEF Init
<1>2. \A j \in Jobs : job[j] \in JobType /\ job[j].pc = "new"
  BY <1>1, NoJobType
<1>3. DOMAIN registry = {}
  BY <1>1
<1> QED
  BY <1>1, <1>2, <1>3 DEF BootInv, Typed, DirInv, BatchInv

\* Every step keeps it.
LEMMA NextKeeps == BootInv /\ [Next]_vars => BootInv'
<1> SUFFICES ASSUME BootInv, [Next]_vars PROVE BootInv'
  OBVIOUS
<1>1. CASE UNCHANGED vars
  BY <1>1, SameKeeps DEF vars, files, platform, history
<1>2. CASE (\E f \in Files : EditFile(f)) \/ RemoveDir \/ EditToolsYaml
  BY <1>2, EditKeeps
<1>3. CASE LoadConfig \/ RegisterTools \/ InitRuntime \/ BootGuards \/ FinishBoot
  BY <1>3, BootStepsKeep
<1>4. CASE \E j \in Jobs : Scan(j) \/ Register(j)
  BY <1>4, ScanKeeps, RegisterKeeps
<1>5. CASE \E j \in Jobs, f \in Files : Load(j, f)
  BY <1>5, LoadKeeps
<1>6. CASE BootRegistered
  BY <1>6, BootRegisteredKeeps
<1>7. CASE \E r \in Reloads : StartReload(r) \/ ReloadGuards(r) \/ Notify(r)
  BY <1>7, StartReloadKeeps, ReloadGuardsKeeps, NotifyKeeps
<1>8. CASE \E r \in Reloads : \E n \in job[r].names : RemoveTool(r, n)
  BY <1>8, RemoveToolKeeps, BootIsNoReload
<1>9. CASE \E c \in Clients : Connect(c) \/ SpawnWatcher(c) \/ Watch(c) \/ ListTools(c)
  <2>1. \E c \in Clients : \E x : SetSession(c, x)
    BY <1>9 DEF Connect, SpawnWatcher, Watch, ListTools
  <2> QED
    BY <2>1, SameKeeps DEF SetSession, files, platform, history
<1> QED
  BY <1>1, <1>2, <1>3, <1>4, <1>5, <1>6, <1>7, <1>8, <1>9 DEF Next

\* When calls of config:reload that no edit and no boot step has crossed have all
\* ended, overlapping or not, the tools and the guards are those of the files if
\* none has failed, and no tool is any other than the files' if some have; a call
\* that finds no workflows/ leaves all as it was.  For any files, contents and
\* number of calls.
THEOREM ReloadAlwaysTakesEffect == Spec => []ReloadTakesEffect
<1>1. ASSUME BootInv PROVE ReloadTakesEffect
  <2> SUFFICES ASSUME Idle
               PROVE  /\ batch \in {"calm", "failed"} =>
                           /\ \A n \in DOMAIN registry : registry[n] \in Eligible
                           /\ guards \in {before.guards, Wanted}
                      /\ batch = "calm" => /\ DOMAIN registry = {c.id : c \in Eligible}
                                           /\ guards = Wanted
                      /\ batch = "kept" => /\ Eligible = {}
                                           /\ registry = before.registry /\ guards = before.guards
    BY DEF ReloadTakesEffect, Eligible, Wanted
  <2>1. \A x : ~Listed(x) /\ ~Pending(x)
    BY <1>1 DEF Idle, Busy, Listed, Pending
  <2>2. batch \in {"calm", "failed"} => /\ \A n \in DOMAIN registry : registry[n] \in Eligible
                                        /\ guards \in {before.guards, Wanted}
    BY <1>1, <2>1 DEF BootInv, BatchInv, Sound, SomeGuards
  <2>3. ASSUME batch = "calm"
        PROVE  DOMAIN registry = {c.id : c \in Eligible} /\ guards = Wanted
    <3>1. \A c \in Eligible : c.id \in DOMAIN registry
      <4>1. Complete
        BY <1>1, <2>3 DEF BootInv, BatchInv
      <4> QED
        BY <4>1, <2>1 DEF Complete, Eligible
    <3>2. \A n \in DOMAIN registry : registry[n] \in Eligible /\ registry[n].id = n
      BY <1>1, <2>2, <2>3 DEF BootInv, Typed
    <3>3. guards = Wanted
      BY <1>1, <2>3 DEF BootInv, BatchInv, RightGuards, Idle
    <3> QED
      BY <3>1, <3>2, <3>3
  <2>4. batch = "kept" => /\ Eligible = {}
                          /\ registry = before.registry /\ guards = before.guards
    BY <1>1, BootAssumption DEF BootInv, BatchInv, AllKept, Eligible
  <2> QED
    BY <2>2, <2>3, <2>4
<1> QED
  BY <1>1, InitHolds, NextKeeps, PTL DEF Spec

-----------------------------------------------------------------------------
(***************************************************************************)
(* The parser, for every schema.  Its two searches are recursive functions;*)
(* a call inside another is made with fewer nodes left to visit, and the   *)
(* number of these is what the arguments below descend by.                 *)
(*                                                                         *)
(* First, what holds of any such function and of the lists it goes over.   *)
(***************************************************************************)

\* A set of naturals has a least element.
LEMMA LeastOf ==
    ASSUME NEW S, S \subseteq Nat, S # {}
    PROVE  \E x \in S : \A y \in S : x <= y
<1> DEFINE R == {ss \in Nat \X Nat : ss[1] < ss[2]}
<1>1. OpToRel(<, Nat) = R
  BY Zenon DEF OpToRel
<1>2. IsWellFoundedOn(R, Nat)
  BY <1>1, NatLessThanWellFounded, Zenon
<1> HIDE DEF R
<1>3. PICK x \in S : \A y \in S : <<y, x>> \notin R
  BY <1>2, WFMin, Zenon
<1>4. \A y \in S : x <= y
  <2> SUFFICES ASSUME NEW y \in S PROVE x <= y
    OBVIOUS
  <2>1. <<y, x>> \notin R
    BY <1>3
  <2> QED
    BY <2>1 DEF R
<1> QED
  BY <1>4

\* The states that f leads through, from st on.
Chain(f, st, q, a) == a[0] = st /\ \A i \in 1..Len(q) : a[i] = f[<<a[i - 1], q[i]>>]

\* Each is what its equation says: there is such a function.
LEMMA EachIs ==
    ASSUME NEW f, NEW st, NEW q, Len(q) \in Nat
    PROVE  \E a : Chain(f, st, q, a) /\ Each(f, st, q) = a[Len(q)]
<1> DEFINE Fix(k, a) == [i \in 0..k |-> IF i = 0 THEN st ELSE f[<<a[i - 1], q[i]>>]]
           bad == {k \in Nat : ~ \E a : a = Fix(k, a)}
<1>1. ASSUME bad # {} PROVE FALSE
  <2>1. PICK k \in bad : \A m \in bad : k <= m
    <3>1. bad \subseteq Nat
      OBVIOUS
    <3> HIDE DEF bad
    <3> QED
      BY <1>1, <3>1, LeastOf
  <2>2. k \in Nat /\ ~ \E a : a = Fix(k, a)
    BY <2>1
  <2>3. CASE k = 0
    <3> DEFINE a == [i \in 0..0 |-> st]
    <3>1. a = Fix(0, a)
      OBVIOUS
    <3> QED
      BY <2>2, <2>3, <3>1
  <2>4. CASE k # 0
    <3>1. k - 1 \in Nat /\ k - 1 \notin bad
      <4> HIDE DEF bad
      <4> QED
        BY <2>1, <2>2, <2>4
    <3>2. PICK a : a = Fix(k - 1, a)
      BY <3>1
    <3>3. \A i \in 0..k - 1 : a[i] = IF i = 0 THEN st ELSE f[<<a[i - 1], q[i]>>]
      BY <3>2
    <3> DEFINE b == [i \in 0..k |-> IF i = k THEN f[<<a[k - 1], q[k]>>] ELSE a[i]]
    <3>4. \A i \in 0..k - 1 : b[i] = a[i]
      BY <2>2
    <3>5. b[k] = f[<<a[k - 1], q[k]>>] /\ DOMAIN b = 0..k
      BY <2>2
    <3>6. ASSUME NEW i \in 0..k PROVE b[i] = IF i = 0 THEN st ELSE f[<<b[i - 1], q[i]>>]
      <4>1. CASE i = k
        <5>1. b[k - 1] = a[k - 1]
          BY <2>2, <2>4, <3>4
        <5> QED
          BY <2>4, <4>1, <3>5, <5>1
      <4>2. CASE i # k
        <5>1. i \in 0..k - 1 /\ (i # 0 => i - 1 \in 0..k - 1)
          BY <2>2, <4>2
        <5> HIDE DEF b
        <5> QED
          BY <3>3, <3>4, <5>1
      <4> QED
        BY <4>1, <4>2
    <3>7. b = Fix(k, b)
      <4>1. b = [i \in 0..k |-> b[i]]
        OBVIOUS
      <4> HIDE DEF b
      <4> QED
        BY <3>6, <4>1
    <3> QED
      BY <2>2, <3>7
  <2> QED
    BY <2>3, <2>4
<1>2. \E a : a = Fix(Len(q), a)
  BY <1>1
<1> DEFINE c == CHOOSE a : a = Fix(Len(q), a)
<1>3. c = Fix(Len(q), c)
  BY <1>2
<1>4. Each(f, st, q) = c[Len(q)]
  BY DEF Each
<1>5. DOMAIN c = 0..Len(q)
  BY <1>3
<1> HIDE DEF c
<1>6. \A i \in 0..Len(q) : c[i] = IF i = 0 THEN st ELSE f[<<c[i - 1], q[i]>>]
  BY <1>3
<1>7. Chain(f, st, q, c)
  <2>1. c[0] = st
    <3>1. 0 \in 0..Len(q)
      OBVIOUS
    <3> QED
      BY <1>6, <3>1
  <2>2. ASSUME NEW i \in 1..Len(q) PROVE c[i] = f[<<c[i - 1], q[i]>>]
    <3>1. i \in 0..Len(q) /\ i # 0
      OBVIOUS
    <3> QED
      BY <1>6, <3>1
  <2> QED
    BY <2>1, <2>2 DEF Chain
<1> QED
  BY <1>4, <1>7

\* So is WithTarget.
LEMMA WithTargetIs ==
    ASSUME NEW q, Len(q) \in Nat
    PROVE  \E a : /\ a = [i \in 0..Len(q) |->
                            IF i = 0 THEN <<>>
                            ELSE IF q[i].to = None THEN a[i - 1] ELSE Append(a[i - 1], q[i])]
                  /\ WithTarget(q) = a[Len(q)]
<1> DEFINE Step(a, i) == IF q[i].to = None THEN a[i - 1] ELSE Append(a[i - 1], q[i])
           Fix(k, a) == [i \in 0..k |-> IF i = 0 THEN <<>> ELSE Step(a, i)]
           bad == {k \in Nat : ~ \E a : a = Fix(k, a)}
<1>1. ASSUME bad # {} PROVE FALSE
  <2>1. PICK k \in bad : \A m \in bad : k <= m
    <3>1. bad \subseteq Nat
      OBVIOUS
    <3> HIDE DEF bad
    <3> QED
      BY <1>1, <3>1, LeastOf
  <2>2. k \in Nat /\ ~ \E a : a = Fix(k, a)
    BY <2>1
  <2>3. CASE k = 0
    <3> DEFINE a == [i \in 0..0 |-> <<>>]
    <3>1. a = Fix(0, a)
      OBVIOUS
    <3> QED
      BY <2>2, <2>3, <3>1
  <2>4. CASE k # 0
    <3>1. k - 1 \in Nat /\ k - 1 \notin bad
      <4> HIDE DEF bad
      <4> QED
        BY <2>1, <2>2, <2>4
    <3>2. PICK a : a = Fix(k - 1, a)
      BY <3>1
    <3>3. \A i \in 0..k - 1 : a[i] = IF i = 0 THEN <<>> ELSE Step(a, i)
      BY <3>2
    <3> DEFINE b == [i \in 0..k |-> IF i = k THEN Step(a, k) ELSE a[i]]
    <3>4. \A i \in 0..k - 1 : b[i] = a[i]
      BY <2>2
    <3>5. b[k] = Step(a, k) /\ DOMAIN b = 0..k
      BY <2>2
    <3>6. ASSUME NEW i \in 0..k PROVE b[i] = IF i = 0 THEN <<>> ELSE Step(b, i)
      <4>1. CASE i = k
        <5>1. b[k - 1] = a[k - 1]
          BY <2>2, <2>4, <3>4
        <5> HIDE DEF b
        <5> QED
          BY <2>4, <4>1, <3>5, <5>1
      <4>2. CASE i # k
        <5>1. i \in 0..k - 1 /\ (i # 0 => i - 1 \in 0..k - 1)
          BY <2>2, <4>2
        <5> HIDE DEF b
        <5> QED
          BY <3>3, <3>4, <5>1
      <4> QED
        BY <4>1, <4>2
    <3>7. b = Fix(k, b)
      <4>1. b = [i \in 0..k |-> b[i]]
        OBVIOUS
      <4> HIDE DEF b
      <4> QED
        BY <3>6, <4>1
    <3> QED
      BY <2>2, <3>7
  <2> QED
    BY <2>3, <2>4
<1>2. \E a : a = Fix(Len(q), a)
  BY <1>1
<1> DEFINE c == CHOOSE a : a = Fix(Len(q), a)
<1>3. c = Fix(Len(q), c)
  BY <1>2
<1>4. WithTarget(q) = c[Len(q)]
  BY DEF WithTarget
<1> HIDE DEF c
<1> QED
  BY <1>3, <1>4

\* A property of the start that every step passes on holds at the end.
LEMMA UpTo ==
    ASSUME NEW n \in Nat, NEW S \in SUBSET (0..n), 0 \in S,
           \A i \in 1..n : i - 1 \in S => i \in S
    PROVE  n \in S
<1> DEFINE bad == (0..n) \ S
<1>1. ASSUME bad # {} PROVE FALSE
  <2>1. bad \subseteq Nat
    OBVIOUS
  <2>2. PICK k \in bad : \A m \in bad : k <= m
    <3> HIDE DEF bad
    <3> QED
      BY <1>1, <2>1, LeastOf
  <2>3. k \in 1..n /\ k - 1 \in 0..n /\ k - 1 \notin bad
    BY <2>2
  <2> QED
    BY <2>2, <2>3
<1> QED
  BY <1>1

\* And all the way.
LEMMA UpToAll ==
    ASSUME NEW n \in Nat, NEW S \in SUBSET (0..n), 0 \in S,
           \A i \in 1..n : i - 1 \in S => i \in S,
           NEW k \in 0..n
    PROVE  k \in S
<1> DEFINE T == S \cap (0..k)
<1>1. k \in Nat /\ T \in SUBSET (0..k) /\ 0 \in T /\ \A i \in 1..k : i - 1 \in T => i \in T
  OBVIOUS
<1> HIDE DEF T
<1>2. k \in T
  BY <1>1, UpTo
<1> QED
  BY <1>2 DEF T

\* What WithTarget leaves of a list.
LEMMA WithTargetHas ==
    ASSUME NEW S, NEW q \in Seq(S)
    PROVE  /\ WithTarget(q) \in Seq(S)
           /\ Range(WithTarget(q)) = {e \in Range(q) : e.to # None}
<1>0. Len(q) \in Nat /\ DOMAIN q = 1..Len(q) /\ \A i \in 1..Len(q) : q[i] \in S
  OBVIOUS
<1>1. PICK a : /\ a = [i \in 0..Len(q) |->
                         IF i = 0 THEN <<>>
                         ELSE IF q[i].to = None THEN a[i - 1] ELSE Append(a[i - 1], q[i])]
               /\ WithTarget(q) = a[Len(q)]
  BY <1>0, WithTargetIs
<1> DEFINE Kept(i) == {e \in {q[j] : j \in 1..i} : e.to # None}
           G == {i \in 0..Len(q) : a[i] \in Seq(S) /\ Range(a[i]) = Kept(i)}
<1>2. 0 \in G
  <2>1. a[0] = <<>>
    BY <1>0, <1>1
  <2>2. Kept(0) = {} /\ Range(<<>>) = {} /\ <<>> \in Seq(S) /\ 0 \in 0..Len(q)
    BY <1>0 DEF Range
  <2> QED
    BY <2>1, <2>2
<1>3. ASSUME NEW i \in 1..Len(q), i - 1 \in G PROVE i \in G
  <2>1. i \in 0..Len(q) /\ i # 0 /\ q[i] \in S
    BY <1>0
  <2> DEFINE Step == IF q[i].to = None THEN a[i - 1] ELSE Append(a[i - 1], q[i])
  <2>2. a[i] = Step
    <3>1. a[i] = IF i = 0 THEN <<>> ELSE Step
      BY <1>1, <2>1
    <3> HIDE DEF Step
    <3> QED
      BY <2>1, <3>1
  <2>3. a[i - 1] \in Seq(S) /\ Range(a[i - 1]) = Kept(i - 1)
    BY <1>3
  <2>4. Kept(i) = Kept(i - 1) \cup {e \in {q[i]} : e.to # None}
    <3>1. 1..i = (1..i - 1) \cup {i}
      BY <1>0
    <3> QED
      BY <3>1
  <2>5. CASE q[i].to = None
    BY <2>1, <2>2, <2>3, <2>4, <2>5
  <2>6. CASE q[i].to # None
    <3>1. a[i] \in Seq(S)
      BY <2>1, <2>2, <2>3, <2>6
    <3>2. Range(a[i]) = Range(a[i - 1]) \cup {q[i]}
      <4> DEFINE b == a[i - 1]
      <4>1. b \in Seq(S) /\ a[i] = Append(b, q[i]) /\ Len(b) \in Nat /\ DOMAIN b = 1..Len(b)
        BY <2>2, <2>3, <2>6
      <4> HIDE DEF b
      <4>2. /\ DOMAIN a[i] = 1..Len(b) + 1 /\ a[i][Len(b) + 1] = q[i]
            /\ \A j \in 1..Len(b) : a[i][j] = b[j]
        BY <4>1, <2>1
      <4>3. 1..Len(b) + 1 = (1..Len(b)) \cup {Len(b) + 1}
        BY <4>1
      <4> QED
        BY <4>1, <4>2, <4>3 DEF Range, b
    <3> QED
      BY <2>1, <2>3, <2>4, <2>6, <3>1, <3>2
  <2> QED
    BY <2>5, <2>6
<1>4. G \in SUBSET (0..Len(q))
  OBVIOUS
<1> HIDE DEF G, Kept
<1>5. Len(q) \in G
  BY <1>0, <1>2, <1>3, <1>4, UpTo
<1>6. WithTarget(q) \in Seq(S) /\ Range(WithTarget(q)) = Kept(Len(q))
  BY <1>1, <1>5 DEF G
<1>7. {q[j] : j \in 1..Len(q)} = Range(q)
  BY <1>0 DEF Range
<1> QED
  BY <1>6, <1>7 DEF Kept

\* The targets of a list of branches.
LEMMA TargetsAre ==
    ASSUME NEW q, q \in Seq(Range(q))
    PROVE  /\ Targets(q) \in Seq(Range(Targets(q)))
           /\ Range(Targets(q)) = {e.to : e \in Range(q)} \ {None}
<1> DEFINE b == WithTarget(q)
<1>1. b \in Seq(Range(q)) /\ Range(b) = {e \in Range(q) : e.to # None}
  BY WithTargetHas
<1>2. Targets(q) = [i \in DOMAIN b |-> b[i].to]
  BY DEF Targets
<1> HIDE DEF b
<1>3. DOMAIN b = 1..Len(b) /\ Len(b) \in Nat
  BY <1>1
<1>4. DOMAIN Targets(q) = 1..Len(b) /\ \A i \in 1..Len(b) : Targets(q)[i] = b[i].to
  BY <1>2, <1>3
<1>5. Range(Targets(q)) = {e.to : e \in Range(b)}
  BY <1>3, <1>4 DEF Range
<1>6. Targets(q) \in Seq(Range(Targets(q)))
  <2>1. Targets(q) = [i \in 1..Len(b) |-> Targets(q)[i]]
    BY <1>2, <1>3
  <2>2. \A i \in 1..Len(b) : Targets(q)[i] \in Range(Targets(q))
    BY <1>4 DEF Range
  <2> QED
    BY <1>3, <2>1, <2>2
<1>7. Range(Targets(q)) = {e.to : e \in Range(q)} \ {None}
  BY <1>1, <1>5
<1> QED
  BY <1>6, <1>7

\* What holds wherever it holds for all that measures less holds everywhere.
LEMMA Descent ==
    ASSUME NEW X, NEW m, \A x \in X : m[x] \in Nat,
           NEW S, \A x \in X : (\A y \in X : m[y] < m[x] => y \in S) => x \in S
    PROVE  X \subseteq S
<1> DEFINE bad == {m[x] : x \in X \ S}
<1>1. SUFFICES ASSUME NEW x \in X \ S PROVE FALSE
  OBVIOUS
<1>2. bad \subseteq Nat /\ m[x] \in bad
  BY <1>1
<1>3. PICK k \in bad : \A l \in bad : k <= l
  <2> HIDE DEF bad
  <2> QED
    BY <1>2, LeastOf
<1>4. PICK y \in X \ S : k = m[y]
  BY <1>3
<1>5. ASSUME NEW z \in X, m[z] < m[y] PROVE z \in S
  <2>1. m[z] \in Nat /\ m[y] \in Nat
    BY <1>4
  <2> QED
    BY <1>3, <1>4, <1>5, <2>1
<1> QED
  BY <1>4, <1>5

\* What F makes of a function g of G at x depends on g only where the measure is
\* less, which is below n everywhere.
Graded(X, m, n, G, F) ==
    /\ n \in Nat /\ \A x \in X : m[x] \in Nat /\ m[x] < n
    /\ G # {} /\ \A g \in G : F[g] \in G
    /\ \A f, g \in G : \A x \in X :
          (\A y \in X : m[y] < m[x] => f[y] = g[y]) => F[f][x] = F[g][x]

\* So g = F[g] has a solution.
LEMMA FixedPoint ==
    ASSUME NEW X, NEW m, NEW n, NEW G, NEW F, Graded(X, m, n, G, F)
    PROVE  \E g \in G : \A x \in X : g[x] = F[g][x]
<1> USE DEF Graded
<1> DEFINE Solves(g, k) == \A x \in X : m[x] < k => g[x] = F[g][x]
           bad == {k \in Nat : ~ \E g \in G : Solves(g, k)}
<1>1. ASSUME bad # {} PROVE FALSE
  <2>1. PICK k \in bad : \A l \in bad : k <= l
    <3>1. bad \subseteq Nat
      OBVIOUS
    <3> HIDE DEF bad
    <3> QED
      BY <1>1, <3>1, LeastOf
  <2>2. k \in Nat /\ ~ \E g \in G : Solves(g, k)
    BY <2>1
  <2>3. CASE k = 0
    <3>1. PICK g : g \in G
      OBVIOUS
    <3>2. Solves(g, 0)
      OBVIOUS
    <3> QED
      BY <2>2, <2>3, <3>1, <3>2
  <2>4. CASE k # 0
    <3>1. k - 1 \in Nat /\ k - 1 \notin bad
      <4> HIDE DEF bad
      <4> QED
        BY <2>1, <2>2, <2>4
    <3>2. PICK g \in G : Solves(g, k - 1)
      BY <3>1
    <3>3. F[g] \in G
      OBVIOUS
    <3>4. ASSUME NEW x \in X, m[x] < k PROVE F[g][x] = F[F[g]][x]
      <4>1. ASSUME NEW y \in X, m[y] < m[x] PROVE g[y] = F[g][y]
        <5>1. m[x] \in Nat /\ m[y] \in Nat
          OBVIOUS
        <5>2. m[y] < k - 1
          BY <2>2, <3>4, <4>1, <5>1
        <5> QED
          BY <3>2, <5>2
      <4> QED
        BY <3>3, <4>1
    <3>5. Solves(F[g], k)
      BY <3>4
    <3> QED
      BY <2>2, <3>3, <3>5
  <2> QED
    BY <2>3, <2>4
<1>2. PICK g \in G : Solves(g, n)
  BY <1>1
<1> QED
  BY <1>2

\* States that f never leaves.
LEMMA EachStays ==
    ASSUME NEW f, NEW D, NEW N, \A t \in D : \A k \in N : f[<<t, k>>] \in D,
           NEW st \in D, NEW q \in Seq(N), NEW a, Chain(f, st, q, a)
    PROVE  \A i \in 0..Len(q) : a[i] \in D
<1> DEFINE G == {i \in 0..Len(q) : a[i] \in D}
<1>0. Len(q) \in Nat /\ G \in SUBSET (0..Len(q)) /\ \A i \in 1..Len(q) : q[i] \in N
  OBVIOUS
<1>1. 0 \in G
  <2>1. 0 \in 0..Len(q)
    BY <1>0
  <2> QED
    BY <2>1 DEF Chain
<1>2. ASSUME NEW i \in 1..Len(q), i - 1 \in G PROVE i \in G
  <2>1. i \in 0..Len(q) /\ a[i] = f[<<a[i - 1], q[i]>>]
    BY <1>0 DEF Chain
  <2> QED
    BY <1>0, <1>2, <2>1
<1> HIDE DEF G
<1>3. \A i \in 0..Len(q) : i \in G
  BY <1>0, <1>1, <1>2, UpToAll
<1> QED
  BY <1>3 DEF G

\* So it ends in one of them.
LEMMA EachEnds ==
    ASSUME NEW f, NEW D, NEW N, \A t \in D : \A k \in N : f[<<t, k>>] \in D,
           NEW st \in D, NEW q \in Seq(N)
    PROVE  Each(f, st, q) \in D
<1>1. Len(q) \in Nat /\ Len(q) \in 0..Len(q)
  OBVIOUS
<1>2. PICK a : Chain(f, st, q, a) /\ Each(f, st, q) = a[Len(q)]
  BY <1>1, EachIs
<1> QED
  BY <1>1, <1>2, EachStays

\* Two functions that agree on these states lead to the same one.
LEMMA EachAgrees ==
    ASSUME NEW f, NEW D, NEW N, \A t \in D : \A k \in N : f[<<t, k>>] \in D,
           NEW h, \A t \in D : \A k \in N : h[<<t, k>>] = f[<<t, k>>],
           NEW st \in D, NEW q \in Seq(N)
    PROVE  Each(h, st, q) = Each(f, st, q)
<1>0. Len(q) \in Nat /\ Len(q) \in 0..Len(q) /\ \A i \in 1..Len(q) : q[i] \in N
  OBVIOUS
<1>1. PICK a : Chain(f, st, q, a) /\ Each(f, st, q) = a[Len(q)]
  BY <1>0, EachIs
<1>2. PICK b : Chain(h, st, q, b) /\ Each(h, st, q) = b[Len(q)]
  BY <1>0, EachIs
<1>3. \A i \in 0..Len(q) : a[i] \in D
  BY <1>1, EachStays
<1> DEFINE G == {i \in 0..Len(q) : a[i] = b[i]}
<1>4. 0 \in G
  <2>1. 0 \in 0..Len(q)
    BY <1>0
  <2> QED
    BY <1>1, <1>2, <2>1 DEF Chain
<1>5. ASSUME NEW i \in 1..Len(q), i - 1 \in G PROVE i \in G
  <2>1. i \in 0..Len(q) /\ i - 1 \in 0..Len(q) /\ a[i - 1] = b[i - 1] /\ a[i - 1] \in D /\ q[i] \in N
    BY <1>0, <1>3, <1>5
  <2>2. a[i] = f[<<a[i - 1], q[i]>>] /\ b[i] = h[<<b[i - 1], q[i]>>]
    BY <1>1, <1>2 DEF Chain
  <2> QED
    BY <2>1, <2>2
<1>6. G \in SUBSET (0..Len(q))
  OBVIOUS
<1> HIDE DEF G
<1>7. Len(q) \in G
  BY <1>0, <1>4, <1>5, <1>6, UpTo
<1> QED
  BY <1>1, <1>2, <1>7 DEF G

-----------------------------------------------------------------------------
(***************************************************************************)
(* The validator's search: its equation has one solution.                  *)
(***************************************************************************)

\* The names are finitely many, and the search goes on to names: where the
\* branches lead to.
Ready(s) == /\ IsFiniteSet(Names(s))
            /\ \A n \in Names(s) : /\ Successors(s, n) \in Seq(Names(s))
                                   /\ Range(Successors(s, n)) = LeadsTo(s, n)

\* A call of dfs: the state it finds and the node it is for.
Calls(s) == DfsStates(s) \X Names(s)

Enter(st, n) == [st EXCEPT !.visited = @ \cup {n}, !.path = @ \cup {n}]

\* The equation that defines dfs.
DfsBody(s, f, x) ==
    IF x[1].cycle \/ x[2] \in x[1].visited \ x[1].path THEN x[1]
    ELSE IF x[2] \in x[1].path THEN [x[1] EXCEPT !.cycle = TRUE]
    ELSE Leave(Each(f, Enter(x[1], x[2]), Successors(s, x[2])), x[2])

\* The nodes that a call has not seen yet, which every call inside it lessens.
Left(s, x) == Cardinality(Names(s) \ x[1].visited)

\* A function that never forgets a visited node.
Grows(s, g) == /\ g \in [Calls(s) -> DfsStates(s)]
               /\ \A x \in Calls(s) : x[1].visited \subseteq g[x].visited

\* The parts of a state of the search.
LEMMA StateFields ==
    ASSUME NEW s, NEW st \in DfsStates(s)
    PROVE  st.visited \subseteq Names(s) /\ st.path \subseteq Names(s) /\ st.cycle \in BOOLEAN
BY DEF DfsStates

\* Entering a node marks it and puts it on the path.
LEMMA EnterState ==
    ASSUME NEW s, NEW st \in DfsStates(s), NEW n \in Names(s)
    PROVE  /\ Enter(st, n) \in DfsStates(s)
           /\ Enter(st, n).visited = st.visited \cup {n}
           /\ Enter(st, n).path = st.path \cup {n}
           /\ Enter(st, n).cycle = st.cycle
BY DEF DfsStates, Enter

\* Leaving it takes it off the path, and only that.
LEMMA LeaveState ==
    ASSUME NEW s, NEW st \in DfsStates(s), NEW n
    PROVE  /\ Leave(st, n) \in DfsStates(s)
           /\ Leave(st, n).visited = st.visited
           /\ Leave(st, n).path = st.path \ {n}
           /\ Leave(st, n).cycle = st.cycle
BY DEF DfsStates, Leave

\* An error leaves the rest as it is.
LEMMA CycleState ==
    ASSUME NEW s, NEW st \in DfsStates(s)
    PROVE  /\ [st EXCEPT !.cycle = TRUE] \in DfsStates(s)
           /\ [st EXCEPT !.cycle = TRUE].visited = st.visited
           /\ [st EXCEPT !.cycle = TRUE].path = st.path
           /\ [st EXCEPT !.cycle = TRUE].cycle
BY DEF DfsStates

\* A call is a state and a node.
LEMMA CallParts ==
    ASSUME NEW s
    PROVE  /\ \A x \in Calls(s) : x = <<x[1], x[2]>> /\ x[1] \in DfsStates(s) /\ x[2] \in Names(s)
           /\ \A st \in DfsStates(s), n \in Names(s) :
                 /\ <<st, n>> \in Calls(s)
                 /\ <<st, n>>[1] = st /\ <<st, n>>[2] = n
BY DEF Calls

\* A call inside another has less left.
LEMMA LessLeft ==
    ASSUME NEW s, Ready(s), NEW x \in Calls(s), NEW y \in Calls(s),
           x[1].visited \subseteq y[1].visited
    PROVE  /\ Left(s, x) \in Nat /\ Left(s, y) \in Nat /\ Left(s, y) <= Left(s, x)
           /\ (\E n \in Names(s) : n \notin x[1].visited /\ n \in y[1].visited) => Left(s, y) < Left(s, x)
<1> DEFINE A == Names(s) \ x[1].visited
           B == Names(s) \ y[1].visited
<1>1. IsFiniteSet(Names(s)) /\ IsFiniteSet(A) /\ B \subseteq A
  BY FS_Subset DEF Ready
<1>2. (\E n \in Names(s) : n \notin x[1].visited /\ n \in y[1].visited) => A # B
  OBVIOUS
<1> HIDE DEF A, B
<1>3. IsFiniteSet(B) /\ Cardinality(A) \in Nat /\ Cardinality(B) \in Nat
      /\ Cardinality(B) <= Cardinality(A) /\ (Cardinality(A) = Cardinality(B) => A = B)
  BY <1>1, FS_Subset, FS_CardinalityType
<1> QED
  BY <1>2, <1>3 DEF A, B, Left

\* The states in which the calls inside a call can be made.
From(s, st) == {t \in DfsStates(s) : st.visited \subseteq t.visited}

\* A function that grows stays among them.
LEMMA FromStays ==
    ASSUME NEW s, NEW g, Grows(s, g), NEW st \in DfsStates(s)
    PROVE  st \in From(s, st) /\ \A t \in From(s, st) : \A k \in Names(s) : g[<<t, k>>] \in From(s, st)
<1>1. ASSUME NEW t \in From(s, st), NEW k \in Names(s) PROVE g[<<t, k>>] \in From(s, st)
  <2>1. <<t, k>> \in Calls(s) /\ <<t, k>>[1] = t
    BY CallParts DEF From
  <2>2. g[<<t, k>>] \in DfsStates(s) /\ t.visited \subseteq g[<<t, k>>].visited
    BY <2>1 DEF Grows
  <2> QED
    BY <2>2 DEF From
<1> QED
  BY <1>1 DEF From

\* So do the states between the calls that a node makes.
LEMMA EachGrows ==
    ASSUME NEW s, NEW g, Grows(s, g), NEW st \in DfsStates(s), NEW q \in Seq(Names(s)),
           NEW a, Chain(g, st, q, a)
    PROVE  \A i \in 0..Len(q) : a[i] \in DfsStates(s) /\ st.visited \subseteq a[i].visited
<1>1. \A i \in 0..Len(q) : a[i] \in From(s, st)
  BY FromStays, EachStays
<1> QED
  BY <1>1 DEF From

\* Two functions that agree where the calls lie lead to the same state.
LEMMA EachSame ==
    ASSUME NEW s, NEW g, Grows(s, g), NEW f, NEW st \in DfsStates(s), NEW q \in Seq(Names(s)),
           \A y \in Calls(s) : st.visited \subseteq y[1].visited => f[y] = g[y]
    PROVE  Each(f, st, q) = Each(g, st, q) /\ Each(g, st, q) \in DfsStates(s)
           /\ st.visited \subseteq Each(g, st, q).visited
<1>1. Each(g, st, q) \in From(s, st)
  BY FromStays, EachEnds
<1>2. \A t \in From(s, st) : \A k \in Names(s) : f[<<t, k>>] = g[<<t, k>>]
  BY CallParts DEF From
<1>3. Each(f, st, q) = Each(g, st, q)
  BY <1>2, FromStays, EachAgrees
<1> QED
  BY <1>1, <1>3 DEF From

\* One round of the equation keeps growing.
LEMMA BodyGrows ==
    ASSUME NEW s, Ready(s), NEW g, Grows(s, g), NEW x \in Calls(s)
    PROVE  DfsBody(s, g, x) \in DfsStates(s) /\ x[1].visited \subseteq DfsBody(s, g, x).visited
<1>0. x[1] \in DfsStates(s) /\ x[2] \in Names(s) /\ Successors(s, x[2]) \in Seq(Names(s))
  BY CallParts DEF Ready
<1>1. CASE x[1].cycle \/ x[2] \in x[1].visited \ x[1].path
  BY <1>0, <1>1 DEF DfsBody
<1>2. CASE ~(x[1].cycle \/ x[2] \in x[1].visited \ x[1].path) /\ x[2] \in x[1].path
  BY <1>0, <1>2, CycleState DEF DfsBody
<1>3. CASE ~(x[1].cycle \/ x[2] \in x[1].visited \ x[1].path) /\ ~(x[2] \in x[1].path)
  <2> DEFINE e == Enter(x[1], x[2])
             r == Each(g, e, Successors(s, x[2]))
  <2>1. e \in DfsStates(s) /\ x[1].visited \subseteq e.visited
    BY <1>0, EnterState
  <2>2. DfsBody(s, g, x) = Leave(r, x[2])
    BY <1>3 DEF DfsBody
  <2> HIDE DEF e
  <2>3. r \in DfsStates(s) /\ e.visited \subseteq r.visited
    BY <1>0, <2>1, EachSame
  <2> HIDE DEF r
  <2> QED
    BY <2>1, <2>2, <2>3, LeaveState
<1> QED
  BY <1>1, <1>2, <1>3

\* What a call does depends on calls with less left only.
LEMMA BodySame ==
    ASSUME NEW s, Ready(s), NEW g, Grows(s, g), NEW f, NEW x \in Calls(s),
           \A y \in Calls(s) : Left(s, y) < Left(s, x) => f[y] = g[y]
    PROVE  DfsBody(s, f, x) = DfsBody(s, g, x)
<1>0. x[1] \in DfsStates(s) /\ x[2] \in Names(s) /\ Successors(s, x[2]) \in Seq(Names(s))
  BY CallParts DEF Ready
<1>1. CASE x[1].cycle \/ x[2] \in x[1].visited \/ x[2] \in x[1].path
  BY <1>1 DEF DfsBody
<1>2. CASE ~(x[1].cycle \/ x[2] \in x[1].visited \/ x[2] \in x[1].path)
  <2> DEFINE e == Enter(x[1], x[2])
  <2>1. e \in DfsStates(s) /\ e.visited = x[1].visited \cup {x[2]}
    BY <1>0, EnterState
  <2>2. ASSUME NEW h PROVE DfsBody(s, h, x) = Leave(Each(h, e, Successors(s, x[2])), x[2])
    BY <1>2 DEF DfsBody
  <2> HIDE DEF e
  <2>3. ASSUME NEW y \in Calls(s), e.visited \subseteq y[1].visited PROVE f[y] = g[y]
    <3>1. x[1].visited \subseteq y[1].visited /\ x[2] \notin x[1].visited /\ x[2] \in y[1].visited
      BY <1>2, <2>1, <2>3
    <3>2. Left(s, y) < Left(s, x)
      BY <1>0, <3>1, LessLeft
    <3> QED
      BY <3>2
  <2>4. Each(f, e, Successors(s, x[2])) = Each(g, e, Successors(s, x[2]))
    BY <1>0, <2>1, <2>3, EachSame
  <2> QED
    BY <2>2, <2>4
<1> QED
  BY <1>1, <1>2

\* The search is well defined.
LEMMA DfsExists ==
    ASSUME NEW s, Ready(s)
    PROVE  \E g : Grows(s, g) /\ g = [x \in Calls(s) |-> DfsBody(s, g, x)]
<1> DEFINE m == [x \in Calls(s) |-> Left(s, x)]
           G == {g \in [Calls(s) -> DfsStates(s)] : Grows(s, g)}
           F == [g \in G |-> [x \in Calls(s) |-> DfsBody(s, g, x)]]
           n == Cardinality(Names(s)) + 1
<1>1. \A x \in Calls(s) : m[x] = Left(s, x) /\ m[x] \in Nat
  BY LessLeft
<1>2. n \in Nat /\ \A x \in Calls(s) : m[x] < n
  <2>1. IsFiniteSet(Names(s)) /\ Cardinality(Names(s)) \in Nat
    BY FS_CardinalityType DEF Ready
  <2>2. ASSUME NEW x \in Calls(s) PROVE m[x] < n
    <3>1. Cardinality(Names(s) \ x[1].visited) <= Cardinality(Names(s))
      BY <2>1, FS_Subset
    <3> HIDE DEF m
    <3> QED
      BY <1>1, <2>1, <3>1 DEF Left
  <2> QED
    BY <2>1, <2>2
<1> HIDE DEF m, n
<1>3. G # {}
  <2> DEFINE g == [x \in Calls(s) |-> x[1]]
  <2>1. Grows(s, g)
    BY CallParts DEF Grows
  <2> QED
    BY <2>1 DEF Grows
<1>4. \A g \in G : F[g] \in G
  <2> TAKE g \in G
  <2> DEFINE h == [x \in Calls(s) |-> DfsBody(s, g, x)]
  <2>1. \A x \in Calls(s) : h[x] = DfsBody(s, g, x)
    OBVIOUS
  <2>2. F[g] = h /\ DOMAIN h = Calls(s) /\ h = [x \in Calls(s) |-> h[x]]
    OBVIOUS
  <2> HIDE DEF h, F
  <2>3. Grows(s, h)
    BY <2>1, <2>2, BodyGrows DEF Grows
  <2> QED
    BY <2>2, <2>3 DEF Grows
<1>5. ASSUME NEW g \in G, NEW x \in Calls(s) PROVE F[g][x] = DfsBody(s, g, x)
  OBVIOUS
<1> HIDE DEF F
<1>6. \A f, g \in G : \A x \in Calls(s) :
         (\A y \in Calls(s) : m[y] < m[x] => f[y] = g[y]) => F[f][x] = F[g][x]
  <2> TAKE f, g \in G
  <2> TAKE x \in Calls(s)
  <2> HAVE \A y \in Calls(s) : m[y] < m[x] => f[y] = g[y]
  <2>1. DfsBody(s, f, x) = DfsBody(s, g, x)
    BY <1>1, BodySame
  <2> QED
    BY <1>5, <2>1
<1>7. PICK g \in G : \A x \in Calls(s) : g[x] = F[g][x]
  <2> HIDE DEF G
  <2>1. Graded(Calls(s), m, n, G, F)
    BY <1>1, <1>2, <1>3, <1>4, <1>6 DEF Graded
  <2> QED
    BY <2>1, FixedPoint
<1>8. Grows(s, g) /\ g = [x \in Calls(s) |-> g[x]]
  BY DEF Grows
<1>9. \A x \in Calls(s) : g[x] = DfsBody(s, g, x)
  BY <1>5, <1>7
<1> QED
  BY <1>8, <1>9

\* Dfs is a call of the one function that solves its equation.
LEMMA DfsIs ==
    ASSUME NEW s, Ready(s)
    PROVE  \E g : /\ Grows(s, g)
                  /\ \A x \in Calls(s) : g[x] = DfsBody(s, g, x)
                  /\ \A x \in Calls(s) : Dfs(s, x[1], x[2]) = g[x]
<1>1. PICK g : Grows(s, g) /\ g = [x \in Calls(s) |-> DfsBody(s, g, x)]
  BY DfsExists
<1> DEFINE c == CHOOSE f : f = [x \in Calls(s) |-> DfsBody(s, f, x)]
<1>2. c = [x \in Calls(s) |-> DfsBody(s, c, x)]
  BY <1>1
<1>3. ASSUME NEW x \in Calls(s) PROVE Dfs(s, x[1], x[2]) = c[x]
  <2>1. x = <<x[1], x[2]>>
    BY CallParts
  <2>2. Dfs(s, x[1], x[2]) = c[<<x[1], x[2]>>]
    BY DEF Dfs, DfsBody, Enter, Calls
  <2> QED
    BY <2>1, <2>2
<1>4. \A x \in Calls(s) : c[x] = DfsBody(s, c, x)
  BY <1>2
<1>5. \A x \in Calls(s) : g[x] = DfsBody(s, g, x)
  BY <1>1
<1> HIDE DEF c
<1>6. \A x \in Calls(s) : c[x] = g[x]
  <2> DEFINE m == [x \in Calls(s) |-> Left(s, x)]
             S == {x \in Calls(s) : c[x] = g[x]}
  <2>1. \A x \in Calls(s) : m[x] = Left(s, x) /\ m[x] \in Nat
    BY LessLeft
  <2> HIDE DEF m
  <2>2. ASSUME NEW x \in Calls(s), \A y \in Calls(s) : m[y] < m[x] => y \in S PROVE x \in S
    <3>1. DfsBody(s, c, x) = DfsBody(s, g, x)
      BY <1>1, <2>1, <2>2, BodySame
    <3> QED
      BY <1>4, <1>5, <3>1
  <2>3. Calls(s) \subseteq S
    <3> HIDE DEF S
    <3> QED
      BY <2>1, <2>2, Descent
  <2> QED
    BY <2>3
<1> QED
  BY <1>1, <1>3, <1>5, <1>6

-----------------------------------------------------------------------------
(***************************************************************************)
(* What the search finds: the nodes after the first, unless one of them is *)
(* after itself.  The nodes it has finished with are closed under branches *)
(* and no set of them leads on within itself (Tidy); all that is on its    *)
(* path leads to the node it is called for (Asked).                        *)
(***************************************************************************)

Succ(s, n) == Range(Successors(s, n))

Closed(s, C) == \A n \in C : Succ(s, n) \subseteq C

\* No nodes of D lead from one to the next for ever.
Ends(s, D) == \A C \in SUBSET D : C # {} => \E n \in C : Succ(s, n) \cap C = {}

\* The search goes on to names.
LEMMA SuccNames ==
    ASSUME NEW s, Ready(s), NEW n \in Names(s)
    PROVE  Succ(s, n) \subseteq Names(s)
<1>1. Successors(s, n) \in Seq(Names(s))
  BY DEF Ready
<1> QED
  BY <1>1 DEF Succ, Range

\* The nodes after x, in terms of the search.
LEMMA AfterIs ==
    ASSUME NEW s, Ready(s), NEW x \in Names(s), NEW y
    PROVE  y \in After(s, x) <=>
              y \in Names(s) /\ \A C \in SUBSET Names(s) :
                                  Closed(s, C) /\ Succ(s, x) \subseteq C => y \in C
<1>1. \A n \in Names(s) : LeadsTo(s, n) = Succ(s, n)
  BY DEF Ready, Succ
<1>2. ASSUME NEW C \in SUBSET Names(s)
      PROVE  (\A n \in C \cup {x} : LeadsTo(s, n) \subseteq C) <=> Closed(s, C) /\ Succ(s, x) \subseteq C
  BY <1>1 DEF Closed
<1> QED
  BY <1>2 DEF After

\* What lies after a node is closed, transitive, the least such set, and reached
\* through a successor.
LEMMA AfterFacts ==
    ASSUME NEW s, Ready(s), NEW x \in Names(s)
    PROVE  /\ Succ(s, x) \subseteq After(s, x)
           /\ Closed(s, After(s, x))
           /\ \A y \in After(s, x) : After(s, y) \subseteq After(s, x)
           /\ \A C \in SUBSET Names(s) : Closed(s, C) /\ Succ(s, x) \subseteq C => After(s, x) \subseteq C
           /\ \A y \in After(s, x) : \E z \in Succ(s, x) : z = y \/ y \in After(s, z)
<1>1. ASSUME NEW y \in Names(s) PROVE Succ(s, y) \subseteq After(s, y)
  BY SuccNames, AfterIs
<1>2. ASSUME NEW y \in Names(s) PROVE Closed(s, After(s, y))
  <2>1. ASSUME NEW z \in After(s, y), NEW w \in Succ(s, z) PROVE w \in After(s, y)
    <3>1. z \in Names(s) /\ w \in Names(s)
      BY SuccNames DEF After
    <3>2. ASSUME NEW C \in SUBSET Names(s), Closed(s, C), Succ(s, y) \subseteq C PROVE w \in C
      <4>1. z \in C
        BY <3>2, AfterIs
      <4> QED
        BY <3>2, <4>1 DEF Closed
    <3> QED
      BY <3>1, <3>2, AfterIs
  <2> QED
    BY <2>1 DEF Closed
<1>3. ASSUME NEW y \in Names(s), NEW C \in SUBSET Names(s), Closed(s, C), Succ(s, y) \subseteq C
      PROVE  After(s, y) \subseteq C
  BY <1>3, AfterIs
<1>4. ASSUME NEW y \in After(s, x) PROVE After(s, y) \subseteq After(s, x)
  <2>1. After(s, x) \in SUBSET Names(s) /\ y \in Names(s)
    BY DEF After
  <2>2. Succ(s, y) \subseteq After(s, x)
    BY <1>2 DEF Closed
  <2> QED
    BY <1>2, <1>3, <2>1, <2>2
<1>5. ASSUME NEW y \in After(s, x) PROVE \E z \in Succ(s, x) : z = y \/ y \in After(s, z)
  <2> DEFINE C == {w \in Names(s) : \E z \in Succ(s, x) : z = w \/ w \in After(s, z)}
  <2>1. C \in SUBSET Names(s) /\ Succ(s, x) \subseteq C
    BY SuccNames
  <2>2. ASSUME NEW w \in C, NEW v \in Succ(s, w) PROVE v \in C
    <3>1. PICK z \in Succ(s, x) : z = w \/ w \in After(s, z)
      OBVIOUS
    <3>2. z \in Names(s) /\ w \in Names(s) /\ v \in Names(s)
      BY SuccNames
    <3>3. v \in After(s, z)
      <4>1. CASE z = w
        BY <1>1, <3>2, <4>1
      <4>2. CASE w \in After(s, z)
        BY <1>2, <3>2, <4>2 DEF Closed
      <4> QED
        BY <3>1, <4>1, <4>2
    <3> QED
      BY <3>2, <3>3
  <2>3. Closed(s, C)
    <3> HIDE DEF C
    <3> QED
      BY <2>2 DEF Closed
  <2> HIDE DEF C
  <2>4. y \in C
    BY <1>3, <2>1, <2>3
  <2> QED
    BY <2>4 DEF C
<1> QED
  BY <1>1, <1>2, <1>3, <1>4, <1>5

\* A node whose successors are done and lead nowhere back may be added.
LEMMA EndsWith ==
    ASSUME NEW s, NEW D, NEW n, n \notin D, Closed(s, D), Ends(s, D), Succ(s, n) \subseteq D
    PROVE  Closed(s, D \cup {n}) /\ Ends(s, D \cup {n})
<1>1. Closed(s, D \cup {n})
  BY DEF Closed
<1>2. ASSUME NEW C \in SUBSET (D \cup {n}), C # {} PROVE \E m \in C : Succ(s, m) \cap C = {}
  <2>1. CASE n \notin C
    BY <1>2, <2>1 DEF Ends
  <2>2. CASE C = {n}
    BY <2>2
  <2>3. CASE n \in C /\ C # {n}
    <3>1. C \ {n} \in SUBSET D /\ C \ {n} # {}
      BY <2>3
    <3>2. PICK m \in C \ {n} : Succ(s, m) \cap (C \ {n}) = {}
      BY <3>1 DEF Ends
    <3>3. n \notin Succ(s, m)
      BY <3>1 DEF Closed
    <3> QED
      BY <3>2, <3>3
  <2> QED
    BY <2>1, <2>2, <2>3
<1> QED
  BY <1>1, <1>2 DEF Ends

\* The nodes that the search has finished with.
Finished(st) == st.visited \ st.path

Tidy(s, st) == /\ st.path \subseteq st.visited
               /\ Closed(s, Finished(st)) /\ Ends(s, Finished(st))

\* What a call for n makes of st, where everything on the path leads to n.
Outcome(s, st, n, en) ==
    /\ en.path = st.path /\ st.visited \subseteq en.visited
    /\ en.visited \subseteq st.visited \cup {n} \cup After(s, n)
    /\ en.cycle => \E k \in Names(s) : k \in After(s, k)
    /\ ~en.cycle => Tidy(s, en) /\ n \in Finished(en)

Asked(s, x) == ~x[1].cycle /\ Tidy(s, x[1]) /\ \A p \in x[1].path : x[2] \in After(s, p)

\* The calls that n makes, from the state after entering it.
LEMMA CallsInside ==
    ASSUME NEW s, Ready(s), NEW g, Grows(s, g), \A x \in Calls(s) : g[x] = DfsBody(s, g, x),
           NEW x \in Calls(s), Asked(s, x), x[2] \notin x[1].visited,
           \A y \in Calls(s) : Left(s, y) < Left(s, x) /\ Asked(s, y) => Outcome(s, y[1], y[2], g[y]),
           NEW e, e = Each(g, Enter(x[1], x[2]), Successors(s, x[2]))
    PROVE  /\ e \in DfsStates(s)
           /\ e.path = x[1].path \cup {x[2]} /\ x[1].visited \cup {x[2]} \subseteq e.visited
           /\ e.visited \subseteq x[1].visited \cup {x[2]} \cup After(s, x[2])
           /\ e.cycle => \E k \in Names(s) : k \in After(s, k)
           /\ ~e.cycle => Tidy(s, e) /\ Succ(s, x[2]) \subseteq Finished(e)
<1> DEFINE st == x[1]
           n  == x[2]
           q  == Successors(s, n)
           E  == Enter(st, n)
<1>0. /\ st \in DfsStates(s) /\ n \in Names(s) /\ q \in Seq(Names(s))
      /\ Len(q) \in Nat /\ DOMAIN q = 1..Len(q) /\ \A i \in 1..Len(q) : q[i] \in Names(s)
  BY CallParts DEF Ready
<1>1. E \in DfsStates(s) /\ E.visited = st.visited \cup {n} /\ E.path = st.path \cup {n} /\ ~E.cycle
  BY <1>0, EnterState DEF Asked
<1>2. PICK a : Chain(g, E, q, a) /\ e = a[Len(q)]
  BY <1>0, EachIs
<1>3. \A i \in 0..Len(q) : a[i] \in DfsStates(s) /\ E.visited \subseteq a[i].visited
  BY <1>0, <1>1, <1>2, EachGrows
<1> HIDE DEF E, q
<1> DEFINE Good(i) == /\ a[i].path = st.path \cup {n}
                      /\ a[i].visited \subseteq st.visited \cup {n} \cup After(s, n)
                      /\ a[i].cycle => \E k \in Names(s) : k \in After(s, k)
                      /\ ~a[i].cycle => Tidy(s, a[i]) /\ \A j \in 1..i : q[j] \in Finished(a[i])
           G == {i \in 0..Len(q) : Good(i)}
<1>4. 0 \in G
  <2>1. 0 \in 0..Len(q) /\ a[0] = E
    BY <1>0, <1>2 DEF Chain
  <2>2. Finished(E) = Finished(st) /\ E.path \subseteq E.visited
    BY <1>1 DEF Finished, Asked, Tidy
  <2>3. Tidy(s, E)
    BY <2>2 DEF Tidy, Asked
  <2>4. \A j \in 1..0 : q[j] \in Finished(a[0])
    OBVIOUS
  <2> QED
    BY <1>1, <2>1, <2>3, <2>4
<1>5. ASSUME NEW i \in 1..Len(q), i - 1 \in G PROVE i \in G
  <2> DEFINE b == a[i - 1]
             y == <<b, q[i]>>
  <2>0. i - 1 \in 0..Len(q) /\ i \in 0..Len(q) /\ q[i] \in Names(s) /\ Good(i - 1)
    BY <1>0, <1>5
  <2>1. /\ b \in DfsStates(s) /\ E.visited \subseteq b.visited
        /\ b.path = st.path \cup {n} /\ b.visited \subseteq st.visited \cup {n} \cup After(s, n)
        /\ b.cycle => \E k \in Names(s) : k \in After(s, k)
        /\ ~b.cycle => Tidy(s, b) /\ \A j \in 1..i - 1 : q[j] \in Finished(b)
    BY <1>3, <2>0
  <2>2. a[i] = g[y] /\ y \in Calls(s) /\ y[1] = b /\ y[2] = q[i]
    <3>1. a[i] = g[<<a[i - 1], q[i]>>]
      BY <1>2 DEF Chain
    <3> QED
      BY <2>0, <2>1, <3>1, CallParts
  <2>s. q[i] \in Succ(s, n)
    BY <1>0 DEF Succ, Range, q
  <2>a. q[i] \in After(s, n) /\ After(s, q[i]) \subseteq After(s, n)
    BY <1>0, <2>s, AfterFacts
  <2> HIDE DEF b, y
  <2>3. CASE b.cycle
    <3>1. a[i] = b
      BY <2>2, <2>3 DEF DfsBody
    <3> QED
      BY <2>0, <2>1, <2>3, <3>1
  <2>4. CASE ~b.cycle
    <3>1. ASSUME NEW p \in b.path PROVE q[i] \in After(s, p)
      <4>1. CASE p = n
        BY <2>a, <4>1
      <4>2. CASE p \in st.path
        <5>1. n \in After(s, p) /\ p \in Names(s)
          BY <1>0, <4>2, StateFields DEF Asked
        <5> QED
          BY <2>a, <5>1, AfterFacts
      <4> QED
        BY <2>1, <4>1, <4>2
    <3>2. Asked(s, y)
      BY <2>1, <2>2, <2>4, <3>1 DEF Asked
    <3>3. Left(s, y) < Left(s, x)
      <4>1. st.visited \subseteq y[1].visited /\ n \notin st.visited /\ n \in y[1].visited
        BY <1>1, <2>1, <2>2
      <4> QED
        BY <1>0, <2>2, <4>1, LessLeft
    <3>4. Outcome(s, b, q[i], a[i])
      BY <2>2, <3>2, <3>3
    <3>5. ASSUME ~a[i].cycle, NEW j \in 1..i PROVE q[j] \in Finished(a[i])
      <4>1. CASE j = i
        BY <3>4, <3>5, <4>1 DEF Outcome
      <4>2. CASE j # i
        <5>1. j \in 1..i - 1
          BY <4>2
        <5>2. q[j] \in Finished(b)
          BY <2>1, <2>4, <5>1
        <5> QED
          BY <3>4, <5>2 DEF Outcome, Finished
      <4> QED
        BY <4>1, <4>2
    <3>6. Good(i)
      BY <2>1, <2>a, <3>4, <3>5 DEF Outcome
    <3> QED
      BY <2>0, <3>6
  <2> QED
    BY <2>3, <2>4
<1>6. G \in SUBSET (0..Len(q))
  OBVIOUS
<1>7. Len(q) \in G
  <2> HIDE DEF G
  <2> QED
    BY <1>0, <1>4, <1>5, <1>6, UpTo
<1>8. e \in DfsStates(s) /\ E.visited \subseteq e.visited /\ Good(Len(q))
  BY <1>0, <1>2, <1>3, <1>7
<1>9. ASSUME ~e.cycle PROVE Succ(s, n) \subseteq Finished(e)
  BY <1>0, <1>2, <1>8, <1>9 DEF Succ, Range, q
<1> QED
  BY <1>1, <1>2, <1>8, <1>9

\* What a call of dfs does.
LEMMA DfsOutcome ==
    ASSUME NEW s, Ready(s), NEW g, Grows(s, g), \A x \in Calls(s) : g[x] = DfsBody(s, g, x),
           NEW x \in Calls(s), Asked(s, x)
    PROVE  Outcome(s, x[1], x[2], g[x])
<1> DEFINE m == [y \in Calls(s) |-> Left(s, y)]
           S == {y \in Calls(s) : Asked(s, y) => Outcome(s, y[1], y[2], g[y])}
<1>1. \A y \in Calls(s) : m[y] = Left(s, y) /\ m[y] \in Nat
  BY LessLeft
<1> HIDE DEF m
<1>2. SUFFICES ASSUME NEW y \in Calls(s), \A z \in Calls(s) : m[z] < m[y] => z \in S PROVE y \in S
  <2>1. Calls(s) \subseteq S
    <3> HIDE DEF S
    <3> QED
      BY <1>1, <1>2, Descent
  <2> QED
    BY <2>1
<1>4. SUFFICES ASSUME Asked(s, y) PROVE Outcome(s, y[1], y[2], g[y])
  OBVIOUS
<1>5. ASSUME NEW z \in Calls(s), Left(s, z) < Left(s, y), Asked(s, z)
      PROVE  Outcome(s, z[1], z[2], g[z])
  BY <1>1, <1>2, <1>5
<1> HIDE DEF S
<1> DEFINE st == y[1]
           n  == y[2]
<1>6. /\ st \in DfsStates(s) /\ n \in Names(s) /\ ~st.cycle /\ Tidy(s, st)
      /\ \A p \in st.path : n \in After(s, p)
  BY <1>4, CallParts DEF Asked
<1>7. g[y] = DfsBody(s, g, y)
  BY <1>4
<1>8. CASE n \in st.visited \ st.path
  <2>1. g[y] = st
    BY <1>7, <1>8 DEF DfsBody
  <2> QED
    BY <1>4, <1>6, <1>8, <2>1 DEF Outcome, Finished
<1>9. CASE n \in st.path
  <2>1. g[y] = [st EXCEPT !.cycle = TRUE]
    BY <1>6, <1>7, <1>9 DEF DfsBody
  <2>2. g[y].path = st.path /\ g[y].visited = st.visited /\ g[y].cycle
    BY <1>6, <2>1, CycleState
  <2>3. n \in After(s, n)
    BY <1>6, <1>9
  <2> QED
    BY <1>4, <1>6, <2>2, <2>3 DEF Outcome
<1>10. CASE n \notin st.visited
  <2> DEFINE e == Each(g, Enter(st, n), Successors(s, n))
  <2>1. n \notin st.path
    BY <1>6, <1>10 DEF Tidy
  <2>2. g[y] = Leave(e, n)
    BY <1>6, <1>7, <1>10, <2>1 DEF DfsBody
  <2>3. /\ e \in DfsStates(s)
        /\ e.path = st.path \cup {n} /\ st.visited \cup {n} \subseteq e.visited
        /\ e.visited \subseteq st.visited \cup {n} \cup After(s, n)
        /\ e.cycle => \E k \in Names(s) : k \in After(s, k)
        /\ ~e.cycle => Tidy(s, e) /\ Succ(s, n) \subseteq Finished(e)
    BY <1>4, <1>5, <1>10, CallsInside
  <2> HIDE DEF e
  <2>4. g[y].visited = e.visited /\ g[y].path = e.path \ {n} /\ g[y].cycle = e.cycle
    BY <2>2, <2>3, LeaveState
  <2>5. g[y].path = st.path
    BY <2>1, <2>3, <2>4
  <2>6. ASSUME ~e.cycle PROVE Tidy(s, g[y]) /\ n \in Finished(g[y])
    <3>1. Finished(g[y]) = Finished(e) \cup {n} /\ n \notin Finished(e)
      BY <2>3, <2>4 DEF Finished
    <3>2. Closed(s, Finished(g[y])) /\ Ends(s, Finished(g[y]))
      BY <2>3, <2>6, <3>1, EndsWith DEF Tidy
    <3>3. g[y].path \subseteq g[y].visited
      BY <2>3, <2>4, <2>6 DEF Tidy
    <3> QED
      BY <3>1, <3>2, <3>3 DEF Tidy
  <2> QED
    BY <1>4, <2>3, <2>4, <2>5, <2>6 DEF Outcome
<1> QED
  BY <1>8, <1>9, <1>10

\* What the validator's search finds out.
LEMMA SearchDecides ==
    ASSUME NEW s, Ready(s), Head(s.order) \in Names(s)
    PROVE  CheckReachabilityAndCycles(s) <=>
              \A n \in Names(s) : n \notin After(s, n) /\ (n # Head(s.order) => n \in After(s, Head(s.order)))
<1> DEFINE h  == Head(s.order)
           st == [visited |-> {}, path |-> {}, cycle |-> FALSE]
           en == Dfs(s, st, h)
<1>1. st \in DfsStates(s) /\ <<st, h>> \in Calls(s) /\ <<st, h>>[1] = st /\ <<st, h>>[2] = h
  BY DEF DfsStates, Calls
<1>2. Asked(s, <<st, h>>)
  BY <1>1 DEF Asked, Tidy, Finished, Closed, Ends
<1>3. PICK g : /\ Grows(s, g)
               /\ \A x \in Calls(s) : g[x] = DfsBody(s, g, x)
               /\ \A x \in Calls(s) : Dfs(s, x[1], x[2]) = g[x]
  BY DfsIs
<1>4. Outcome(s, st, h, en)
  <2>1. Outcome(s, <<st, h>>[1], <<st, h>>[2], g[<<st, h>>])
    BY <1>1, <1>2, <1>3, DfsOutcome
  <2>2. en = g[<<st, h>>]
    BY <1>1, <1>3
  <2> QED
    BY <1>1, <2>1, <2>2
<1>5. CheckReachabilityAndCycles(s) <=> ~en.cycle /\ Names(s) \subseteq en.visited
  BY DEF CheckReachabilityAndCycles
<1>6. en.path = {} /\ en.visited \subseteq {h} \cup After(s, h)
      /\ (en.cycle => \E k \in Names(s) : k \in After(s, k))
      /\ (~en.cycle => Closed(s, en.visited) /\ Ends(s, en.visited) /\ h \in en.visited)
  <2>1. st.visited = {} /\ st.path = {}
    OBVIOUS
  <2> HIDE DEF st, en
  <2>2. en.path = {}
    BY <1>4, <2>1 DEF Outcome
  <2>3. Finished(en) = en.visited
    BY <2>2 DEF Finished
  <2> QED
    BY <1>4, <2>1, <2>2, <2>3 DEF Outcome, Tidy
<1> HIDE DEF en, st
<1>7. ASSUME ~en.cycle, Names(s) \subseteq en.visited, NEW n \in Names(s)
      PROVE  n \notin After(s, n) /\ (n # h => n \in After(s, h))
  <2>1. n # h => n \in After(s, h)
    BY <1>6, <1>7
  <2>2. SUFFICES ASSUME n \in After(s, n) PROVE FALSE
    BY <2>1
  <2> DEFINE C == {x \in After(s, n) : n \in After(s, x)}
  <2>3. C \subseteq en.visited /\ C # {}
    BY <1>7, <2>2 DEF After
  <2>4. PICK x \in C : Succ(s, x) \cap C = {}
    <3> HIDE DEF C
    <3> QED
      BY <1>6, <1>7, <2>3 DEF Ends
  <2>5. x \in After(s, n) /\ n \in After(s, x) /\ x \in Names(s)
    BY DEF After
  <2>6. PICK z \in Succ(s, x) : z = n \/ n \in After(s, z)
    BY <2>5, AfterFacts
  <2>7. z \in After(s, n)
    BY <2>5, AfterFacts DEF Closed
  <2>8. z \in C
    BY <2>2, <2>6, <2>7
  <2> QED
    BY <2>4, <2>8
<1>8. ASSUME \A n \in Names(s) : n \notin After(s, n) /\ (n # h => n \in After(s, h))
      PROVE  ~en.cycle /\ Names(s) \subseteq en.visited
  <2>1. ~en.cycle
    BY <1>6, <1>8
  <2> DEFINE V == en.visited \cap Names(s)
  <2>2. Closed(s, V) /\ h \in V /\ V \in SUBSET Names(s)
    BY <1>6, <2>1, SuccNames DEF Closed
  <2>3. Succ(s, h) \subseteq V
    <3> HIDE DEF V
    <3> QED
      BY <2>2 DEF Closed
  <2>4. After(s, h) \subseteq V
    <3> HIDE DEF V
    <3> QED
      BY <2>2, <2>3, AfterFacts
  <2> QED
    BY <1>8, <2>1, <2>2, <2>4
<1> QED
  BY <1>5, <1>7, <1>8

-----------------------------------------------------------------------------
(***************************************************************************)
(* The validator is right about every schema.                              *)
(***************************************************************************)

\* The elements of a sequence are finitely many.
LEMMA RangeFinite ==
    ASSUME NEW q, q \in Seq(Range(q))
    PROVE  IsFiniteSet(Range(q))
<1>1. Len(q) \in Nat /\ DOMAIN q = 1..Len(q) /\ q \in [1..Len(q) -> Range(q)]
  OBVIOUS
<1>2. \A t \in Range(q) : \E i \in 1..Len(q) : q[i] = t
  BY <1>1 DEF Range
<1>3. q \in Surjection(1..Len(q), Range(q))
  BY <1>1, <1>2 DEF Surjection
<1>4. IsFiniteSet(1..Len(q))
  BY <1>1, FS_Interval
<1> QED
  BY <1>3, <1>4, FS_Surjection

\* Two sequences one after the other.
LEMMA Joined ==
    ASSUME NEW S, NEW p \in Seq(S), NEW q \in Seq(S)
    PROVE  p \o q \in Seq(S) /\ Range(p \o q) = Range(p) \cup Range(q)
<1>1. /\ p \o q \in Seq(S) /\ Len(p) \in Nat /\ Len(q) \in Nat /\ Len(p \o q) = Len(p) + Len(q)
      /\ DOMAIN p = 1..Len(p) /\ DOMAIN q = 1..Len(q) /\ DOMAIN (p \o q) = 1..Len(p) + Len(q)
  OBVIOUS
<1>2. \A i \in 1..Len(p) + Len(q) : (p \o q)[i] = IF i <= Len(p) THEN p[i] ELSE q[i - Len(p)]
  OBVIOUS
<1> DEFINE r == p \o q
<1> HIDE DEF r
<1>3. /\ DOMAIN r = 1..Len(p) + Len(q)
      /\ \A i \in 1..Len(p) + Len(q) : r[i] = IF i <= Len(p) THEN p[i] ELSE q[i - Len(p)]
  BY <1>1, <1>2 DEF r
<1>4. ASSUME NEW x \in Range(r) PROVE x \in Range(p) \cup Range(q)
  <2>1. PICK i \in 1..Len(p) + Len(q) : x = r[i]
    BY <1>3 DEF Range
  <2>2. CASE i <= Len(p)
    <3>1. i \in 1..Len(p) /\ x = p[i]
      BY <1>1, <1>3, <2>1, <2>2
    <3> QED
      BY <1>1, <3>1 DEF Range
  <2>3. CASE ~(i <= Len(p))
    <3>1. i - Len(p) \in 1..Len(q) /\ x = q[i - Len(p)]
      BY <1>1, <1>3, <2>1, <2>3
    <3> QED
      BY <1>1, <3>1 DEF Range
  <2> QED
    BY <2>2, <2>3
<1>5. ASSUME NEW x \in Range(p) PROVE x \in Range(r)
  <2>1. PICK i \in 1..Len(p) : x = p[i]
    BY <1>1 DEF Range
  <2>2. i \in 1..Len(p) + Len(q) /\ r[i] = x
    BY <1>1, <1>3, <2>1
  <2> QED
    BY <1>3, <2>2 DEF Range
<1>6. ASSUME NEW x \in Range(q) PROVE x \in Range(r)
  <2>1. PICK i \in 1..Len(q) : x = q[i]
    BY <1>1 DEF Range
  <2>2. Len(p) + i \in 1..Len(p) + Len(q) /\ ~(Len(p) + i <= Len(p)) /\ Len(p) + i - Len(p) = i
    BY <1>1
  <2>3. r[Len(p) + i] = x
    BY <1>3, <2>1, <2>2
  <2> QED
    BY <1>3, <2>2, <2>3 DEF Range
<1> QED
  BY <1>1, <1>4, <1>5, <1>6 DEF r

\* A sequence of elements of T is one of elements of S.
LEMMA WiderSeq ==
    ASSUME NEW S, NEW q, q \in Seq(Range(q)), Range(q) \subseteq S
    PROVE  q \in Seq(S)
BY DEF Range

\* Once its nodes have been validated, a schema can be searched.
LEMMA SchemaReady ==
    ASSUME NEW s, IsSchema(s), \A n \in Names(s) : ValidateNode(s, s.node[n])
    PROVE  Ready(s)
<1>1. IsFiniteSet(Names(s))
  BY RangeFinite DEF IsSchema, Names
<1>2. ASSUME NEW n \in Names(s)
      PROVE  Successors(s, n) \in Seq(Names(s)) /\ Range(Successors(s, n)) = LeadsTo(s, n)
  <2> DEFINE th == s.node[n].then
             ca == s.node[n].catch
  <2>1. th \in Seq(Range(th)) /\ ca \in Seq(Range(ca))
    BY DEF IsSchema
  <2> HIDE DEF th, ca
  <2>2. /\ Targets(th) \in Seq(Range(Targets(th))) /\ Range(Targets(th)) = {e.to : e \in Range(th)} \ {None}
        /\ Targets(ca) \in Seq(Range(Targets(ca))) /\ Range(Targets(ca)) = {e.to : e \in Range(ca)} \ {None}
    BY <2>1, TargetsAre
  <2>3. Range(Targets(th)) \cup Range(Targets(ca)) \subseteq Names(s)
    BY DEF ValidateNode, ThenTargets, CatchTargets, th, ca
  <2>4. Targets(th) \in Seq(Names(s)) /\ Targets(ca) \in Seq(Names(s))
    BY <2>2, <2>3, WiderSeq
  <2>5. Successors(s, n) = Targets(th) \o Targets(ca)
    BY DEF Successors, ThenTargets, CatchTargets, th, ca
  <2>6. LeadsTo(s, n) = {e.to : e \in Range(th) \cup Range(ca)} \ {None}
    BY DEF LeadsTo, th, ca
  <2>7. /\ Successors(s, n) \in Seq(Names(s))
        /\ Range(Successors(s, n)) = Range(Targets(th)) \cup Range(Targets(ca))
    BY <2>4, <2>5, Joined
  <2> QED
    BY <2>2, <2>6, <2>7
<1> QED
  BY <1>1, <1>2 DEF Ready

\* A schema that is not empty has a first node.
LEMMA FirstName ==
    ASSUME NEW s, IsSchema(s), s.order # <<>>
    PROVE  Head(s.order) \in Names(s)
BY DEF IsSchema

\* The validator is right about every schema.
LEMMA ValidatorIsRight ==
    ASSUME NEW s, IsSchema(s)
    PROVE  Validate(s) <=> /\ \A n \in Names(s) : ValidateNode(s, s.node[n])
                           /\ IsRootedDag(s)
                           /\ CheckTerminals(s)
<1>1. CASE s.order = <<>>
  <2>1. Names(s) = {}
    BY <1>1 DEF Names, Range
  <2> QED
    BY <1>1, <2>1 DEF Validate, CheckTerminals
<1>2. CASE s.order # <<>> /\ \A n \in Names(s) : ValidateNode(s, s.node[n])
  <2>1. CheckReachabilityAndCycles(s) <=> IsRootedDag(s)
    BY <1>2, SchemaReady, FirstName, SearchDecides DEF IsRootedDag
  <2> QED
    BY <1>2, <2>1 DEF Validate
<1>3. CASE ~ \A n \in Names(s) : ValidateNode(s, s.node[n])
  BY <1>3 DEF Validate
<1> QED
  BY <1>1, <1>2, <1>3

-----------------------------------------------------------------------------
(***************************************************************************)
(* The search of Workflow::validate meets no cycle where there is none.    *)
(***************************************************************************)

\* The steps are finitely many, and their edges lead to steps.
Searchable(w) == /\ IsFiniteSet(DOMAIN w.steps)
                 /\ \A n \in DOMAIN w.steps : StepTargets(w, n) \in Seq(DOMAIN w.steps)

\* A call of dfs_detect_cycle: the colours it finds and the step it is for.
Asks(w) == Colours(w) \X DOMAIN w.steps

Gray(st, n)  == [st EXCEPT !.gray = @ \cup {n}]
Black(st, n) == [st EXCEPT !.gray = @ \ {n}, !.black = @ \cup {n}]

\* The equation that defines the search.
ColourBody(w, f, x) ==
    IF x[1].cycle \/ x[2] \in x[1].black THEN x[1]
    ELSE IF x[2] \in x[1].gray THEN [x[1] EXCEPT !.cycle = TRUE]
    ELSE Black(Each(f, Gray(x[1], x[2]), StepTargets(w, x[2])), x[2])

\* The steps that are no longer white, and how many are.
Coloured(st) == st.gray \cup st.black
White(w, x)  == Cardinality(DOMAIN w.steps \ Coloured(x[1]))

\* The states in which the calls inside a call can be made.
Later(w, st) == {t \in Colours(w) : Coloured(st) \subseteq Coloured(t)}

\* A function that never turns a step white.
Darkens(w, g) == g \in [Asks(w) -> Colours(w)] /\ \A x \in Asks(w) : g[x] \in Later(w, x[1])

\* Entering a step makes it gray.
LEMMA GrayState ==
    ASSUME NEW w, NEW st \in Colours(w), NEW n \in DOMAIN w.steps
    PROVE  /\ Gray(st, n) \in Colours(w) /\ Coloured(Gray(st, n)) = Coloured(st) \cup {n}
           /\ Gray(st, n).gray = st.gray \cup {n} /\ Gray(st, n).cycle = st.cycle
<1>1. st.gray \subseteq DOMAIN w.steps /\ st.black \subseteq DOMAIN w.steps /\ st.cycle \in BOOLEAN
  BY DEF Colours
<1>2. /\ Gray(st, n) \in Colours(w) /\ Gray(st, n).gray = st.gray \cup {n}
      /\ Gray(st, n).black = st.black /\ Gray(st, n).cycle = st.cycle
  BY <1>1 DEF Colours, Gray
<1> QED
  BY <1>2 DEF Coloured

\* Leaving it makes it black.
LEMMA BlackState ==
    ASSUME NEW w, NEW st \in Colours(w), NEW n \in DOMAIN w.steps
    PROVE  /\ Black(st, n) \in Colours(w) /\ Coloured(st) \subseteq Coloured(Black(st, n))
           /\ Black(st, n).gray = st.gray \ {n} /\ Black(st, n).cycle = st.cycle
<1>1. st.gray \subseteq DOMAIN w.steps /\ st.black \subseteq DOMAIN w.steps /\ st.cycle \in BOOLEAN
  BY DEF Colours
<1>2. /\ Black(st, n) \in Colours(w) /\ Black(st, n).gray = st.gray \ {n}
      /\ Black(st, n).black = st.black \cup {n} /\ Black(st, n).cycle = st.cycle
  BY <1>1 DEF Colours, Black
<1> QED
  BY <1>2 DEF Coloured

\* Meeting a cycle colours nothing.
LEMMA MetState ==
    ASSUME NEW w, NEW st \in Colours(w)
    PROVE  /\ [st EXCEPT !.cycle = TRUE] \in Colours(w)
           /\ Coloured([st EXCEPT !.cycle = TRUE]) = Coloured(st)
<1>1. /\ [st EXCEPT !.cycle = TRUE] \in Colours(w) /\ [st EXCEPT !.cycle = TRUE].gray = st.gray
      /\ [st EXCEPT !.cycle = TRUE].black = st.black
  BY DEF Colours
<1> QED
  BY <1>1 DEF Coloured

\* A call is colours and a step.
LEMMA AskParts ==
    ASSUME NEW w
    PROVE  /\ \A x \in Asks(w) : x = <<x[1], x[2]>> /\ x[1] \in Colours(w) /\ x[2] \in DOMAIN w.steps
           /\ \A st \in Colours(w), n \in DOMAIN w.steps :
                 <<st, n>> \in Asks(w) /\ <<st, n>>[1] = st /\ <<st, n>>[2] = n
BY DEF Asks

\* A call inside another finds fewer white steps.
LEMMA LessWhite ==
    ASSUME NEW w, Searchable(w), NEW x \in Asks(w), NEW y \in Asks(w), y[1] \in Later(w, x[1])
    PROVE  /\ White(w, x) \in Nat /\ White(w, x) < Cardinality(DOMAIN w.steps) + 1
           /\ x[2] \notin Coloured(x[1]) /\ x[2] \in Coloured(y[1]) => White(w, y) < White(w, x)
<1> DEFINE A == DOMAIN w.steps \ Coloured(x[1])
           B == DOMAIN w.steps \ Coloured(y[1])
<1>1. IsFiniteSet(DOMAIN w.steps) /\ A \subseteq DOMAIN w.steps /\ B \subseteq A
  BY DEF Searchable, Later
<1>2. x[2] \notin Coloured(x[1]) /\ x[2] \in Coloured(y[1]) => A # B
  BY AskParts
<1> HIDE DEF A, B
<1>3. /\ IsFiniteSet(A) /\ Cardinality(A) \in Nat /\ Cardinality(DOMAIN w.steps) \in Nat
      /\ Cardinality(A) <= Cardinality(DOMAIN w.steps)
  BY <1>1, FS_Subset, FS_CardinalityType
<1>4. /\ Cardinality(B) \in Nat /\ Cardinality(B) <= Cardinality(A)
      /\ Cardinality(A) = Cardinality(B) => A = B
  BY <1>1, <1>3, FS_Subset, FS_CardinalityType
<1> QED
  BY <1>2, <1>3, <1>4 DEF A, B, White

\* A function that darkens stays among them.
LEMMA LaterStays ==
    ASSUME NEW w, NEW g, Darkens(w, g), NEW st \in Colours(w)
    PROVE  /\ st \in Later(w, st)
           /\ \A t \in Later(w, st) : \A k \in DOMAIN w.steps : g[<<t, k>>] \in Later(w, st)
<1>1. ASSUME NEW t \in Later(w, st), NEW k \in DOMAIN w.steps PROVE g[<<t, k>>] \in Later(w, st)
  <2>1. <<t, k>> \in Asks(w) /\ <<t, k>>[1] = t
    BY AskParts DEF Later
  <2>2. g[<<t, k>>] \in Later(w, t)
    BY <2>1 DEF Darkens
  <2> QED
    BY <2>2 DEF Later
<1> QED
  BY <1>1 DEF Later

\* One round of the equation keeps darkening.
LEMMA ColourBodyDarkens ==
    ASSUME NEW w, Searchable(w), NEW g, Darkens(w, g), NEW x \in Asks(w)
    PROVE  ColourBody(w, g, x) \in Later(w, x[1])
<1>0. x[1] \in Colours(w) /\ x[2] \in DOMAIN w.steps /\ StepTargets(w, x[2]) \in Seq(DOMAIN w.steps)
  BY AskParts DEF Searchable
<1>1. CASE x[1].cycle \/ x[2] \in x[1].black
  BY <1>0, <1>1 DEF ColourBody, Later
<1>2. CASE ~(x[1].cycle \/ x[2] \in x[1].black) /\ x[2] \in x[1].gray
  <2>1. ColourBody(w, g, x) = [x[1] EXCEPT !.cycle = TRUE]
    BY <1>2 DEF ColourBody
  <2> QED
    BY <1>0, <2>1, MetState DEF Later
<1>3. CASE ~(x[1].cycle \/ x[2] \in x[1].black) /\ ~(x[2] \in x[1].gray)
  <2> DEFINE e == Gray(x[1], x[2])
             r == Each(g, e, StepTargets(w, x[2]))
  <2>1. e \in Colours(w) /\ Coloured(x[1]) \subseteq Coloured(e)
    BY <1>0, GrayState
  <2>2. ColourBody(w, g, x) = Black(r, x[2])
    BY <1>3 DEF ColourBody
  <2> HIDE DEF e
  <2>3. r \in Later(w, e)
    BY <1>0, <2>1, LaterStays, EachEnds
  <2> HIDE DEF r
  <2>4. r \in Colours(w) /\ Coloured(e) \subseteq Coloured(r)
    BY <2>3 DEF Later
  <2>5. Black(r, x[2]) \in Colours(w) /\ Coloured(r) \subseteq Coloured(Black(r, x[2]))
    BY <1>0, <2>4, BlackState
  <2> QED
    BY <2>1, <2>2, <2>4, <2>5 DEF Later
<1> QED
  BY <1>1, <1>2, <1>3

\* What a call does depends on calls with fewer white steps only.
LEMMA ColourBodySame ==
    ASSUME NEW w, Searchable(w), NEW g, Darkens(w, g), NEW f, NEW x \in Asks(w),
           \A y \in Asks(w) : White(w, y) < White(w, x) => f[y] = g[y]
    PROVE  ColourBody(w, f, x) = ColourBody(w, g, x)
<1>0. x[1] \in Colours(w) /\ x[2] \in DOMAIN w.steps /\ StepTargets(w, x[2]) \in Seq(DOMAIN w.steps)
  BY AskParts DEF Searchable
<1>1. CASE x[1].cycle \/ x[2] \in x[1].black \/ x[2] \in x[1].gray
  BY <1>1 DEF ColourBody
<1>2. CASE ~(x[1].cycle \/ x[2] \in x[1].black \/ x[2] \in x[1].gray)
  <2> DEFINE e == Gray(x[1], x[2])
  <2>1. e \in Colours(w) /\ Coloured(e) = Coloured(x[1]) \cup {x[2]} /\ x[2] \notin Coloured(x[1])
    <3>1. x[2] \notin Coloured(x[1])
      BY <1>2 DEF Coloured
    <3> QED
      BY <1>0, <3>1, GrayState
  <2>2. ASSUME NEW h PROVE ColourBody(w, h, x) = Black(Each(h, e, StepTargets(w, x[2])), x[2])
    BY <1>2 DEF ColourBody
  <2> HIDE DEF e
  <2>3. ASSUME NEW t \in Later(w, e), NEW k \in DOMAIN w.steps PROVE f[<<t, k>>] = g[<<t, k>>]
    <3>1. <<t, k>> \in Asks(w) /\ <<t, k>>[1] = t
      BY AskParts DEF Later
    <3>2. t \in Later(w, x[1]) /\ x[2] \in Coloured(t)
      BY <2>1 DEF Later
    <3>3. White(w, <<t, k>>) < White(w, x)
      BY <2>1, <3>1, <3>2, LessWhite
    <3> QED
      BY <3>1, <3>3
  <2>4. Each(f, e, StepTargets(w, x[2])) = Each(g, e, StepTargets(w, x[2]))
    BY <1>0, <2>1, <2>3, LaterStays, EachAgrees
  <2> QED
    BY <2>2, <2>4
<1> QED
  BY <1>1, <1>2

\* The search is well defined.
LEMMA ColourExists ==
    ASSUME NEW w, Searchable(w)
    PROVE  \E g : Darkens(w, g) /\ g = [x \in Asks(w) |-> ColourBody(w, g, x)]
<1> DEFINE m == [x \in Asks(w) |-> White(w, x)]
           G == {g \in [Asks(w) -> Colours(w)] : Darkens(w, g)}
           F == [g \in G |-> [x \in Asks(w) |-> ColourBody(w, g, x)]]
           n == Cardinality(DOMAIN w.steps) + 1
<1>1. n \in Nat /\ \A x \in Asks(w) : m[x] = White(w, x) /\ m[x] \in Nat /\ m[x] < n
  <2>1. Cardinality(DOMAIN w.steps) \in Nat
    BY FS_CardinalityType DEF Searchable
  <2>2. ASSUME NEW x \in Asks(w) PROVE White(w, x) \in Nat /\ White(w, x) < n
    <3>1. x[1] \in Later(w, x[1])
      BY AskParts DEF Later
    <3> QED
      BY <3>1, LessWhite
  <2> QED
    BY <2>1, <2>2
<1> HIDE DEF m, n
<1>2. G # {}
  <2> DEFINE g == [x \in Asks(w) |-> x[1]]
  <2>1. Darkens(w, g)
    BY AskParts DEF Darkens, Later
  <2> QED
    BY <2>1 DEF Darkens
<1>3. \A g \in G : F[g] \in G
  <2> TAKE g \in G
  <2> DEFINE h == [x \in Asks(w) |-> ColourBody(w, g, x)]
  <2>1. \A x \in Asks(w) : h[x] = ColourBody(w, g, x)
    OBVIOUS
  <2>2. F[g] = h /\ DOMAIN h = Asks(w) /\ h = [x \in Asks(w) |-> h[x]]
    OBVIOUS
  <2> HIDE DEF h, F
  <2>3. \A x \in Asks(w) : h[x] \in Later(w, x[1])
    BY <2>1, ColourBodyDarkens
  <2>4. Darkens(w, h)
    BY <2>2, <2>3 DEF Darkens, Later
  <2> QED
    BY <2>2, <2>4 DEF Darkens
<1>4. ASSUME NEW g \in G, NEW x \in Asks(w) PROVE F[g][x] = ColourBody(w, g, x)
  OBVIOUS
<1> HIDE DEF F
<1>5. \A f, g \in G : \A x \in Asks(w) :
         (\A y \in Asks(w) : m[y] < m[x] => f[y] = g[y]) => F[f][x] = F[g][x]
  <2> TAKE f, g \in G
  <2> TAKE x \in Asks(w)
  <2> HAVE \A y \in Asks(w) : m[y] < m[x] => f[y] = g[y]
  <2>1. ColourBody(w, f, x) = ColourBody(w, g, x)
    BY <1>1, ColourBodySame
  <2> QED
    BY <1>4, <2>1
<1>6. PICK g \in G : \A x \in Asks(w) : g[x] = F[g][x]
  <2> HIDE DEF G
  <2>1. Graded(Asks(w), m, n, G, F)
    BY <1>1, <1>2, <1>3, <1>5 DEF Graded
  <2> QED
    BY <2>1, FixedPoint
<1>7. Darkens(w, g) /\ g = [x \in Asks(w) |-> g[x]]
  BY DEF Darkens
<1>8. \A x \in Asks(w) : g[x] = ColourBody(w, g, x)
  BY <1>4, <1>6
<1> QED
  BY <1>7, <1>8

\* Colour is the one function that solves its equation.
LEMMA ColourIs ==
    ASSUME NEW w, Searchable(w)
    PROVE  /\ \A x \in Asks(w) : Colour(w)[x] = ColourBody(w, Colour(w), x)
           /\ Darkens(w, Colour(w))
<1>1. PICK g : Darkens(w, g) /\ g = [x \in Asks(w) |-> ColourBody(w, g, x)]
  BY ColourExists
<1> DEFINE c == CHOOSE f : f = [x \in Asks(w) |-> ColourBody(w, f, x)]
<1>2. c = [x \in Asks(w) |-> ColourBody(w, c, x)]
  BY <1>1
<1>3. Colour(w) = c
  BY DEF Colour, ColourBody, Gray, Black, Asks
<1>4. DOMAIN c = Asks(w) /\ \A x \in Asks(w) : c[x] = ColourBody(w, c, x)
  BY <1>2
<1>5. \A x \in Asks(w) : g[x] = ColourBody(w, g, x)
  BY <1>1
<1> HIDE DEF c
<1>6. \A x \in Asks(w) : c[x] = g[x]
  <2> DEFINE m == [x \in Asks(w) |-> White(w, x)]
             S == {x \in Asks(w) : c[x] = g[x]}
  <2>1. \A x \in Asks(w) : m[x] = White(w, x) /\ m[x] \in Nat
    <3>1. ASSUME NEW x \in Asks(w) PROVE White(w, x) \in Nat
      <4>1. x[1] \in Later(w, x[1])
        BY AskParts DEF Later
      <4> QED
        BY <4>1, LessWhite
    <3> QED
      BY <3>1
  <2> HIDE DEF m
  <2>2. ASSUME NEW x \in Asks(w), \A y \in Asks(w) : m[y] < m[x] => y \in S PROVE x \in S
    <3>1. ColourBody(w, c, x) = ColourBody(w, g, x)
      BY <1>1, <2>1, <2>2, ColourBodySame
    <3> QED
      BY <1>4, <1>5, <3>1
  <2>3. Asks(w) \subseteq S
    <3> HIDE DEF S
    <3> QED
      BY <2>1, <2>2, Descent
  <2> QED
    BY <2>3
<1>7. c = g
  BY <1>1, <1>2, <1>4, <1>5, <1>6 DEF Darkens
<1> QED
  BY <1>1, <1>3, <1>4, <1>7

\* The workflow leads where the schema does, and nothing in it leads back.
Within(w, s) == /\ Ready(s) /\ DOMAIN w.steps = Names(s)
                /\ \A n \in Names(s) : /\ StepTargets(w, n) \in Seq(Succ(s, n))
                                       /\ n \notin After(s, n)

\* Such a workflow can be searched.
LEMMA WithinSearchable ==
    ASSUME NEW w, NEW s, Within(w, s)
    PROVE  Searchable(w)
<1>1. ASSUME NEW n \in Names(s) PROVE StepTargets(w, n) \in Seq(Names(s))
  <2>1. StepTargets(w, n) \in Seq(Succ(s, n)) /\ Succ(s, n) \subseteq Names(s)
    BY SuccNames DEF Within
  <2> QED
    BY <2>1
<1> QED
  BY <1>1 DEF Within, Searchable, Ready

\* So a call that everything gray leads to meets no cycle and leaves the path as
\* it was.
LEMMA NoCycleMet ==
    ASSUME NEW w, NEW s, Within(w, s), NEW x \in Asks(w),
           ~x[1].cycle, \A p \in x[1].gray : x[2] \in After(s, p)
    PROVE  Colour(w)[x] \in Colours(w) /\ ~Colour(w)[x].cycle /\ Colour(w)[x].gray = x[1].gray
<1> DEFINE g == Colour(w)
           m == [y \in Asks(w) |-> White(w, y)]
           Led(y)  == ~y[1].cycle /\ \A p \in y[1].gray : y[2] \in After(s, p)
           Fine(y) == ~g[y].cycle /\ g[y].gray = y[1].gray
           S == {y \in Asks(w) : Led(y) => Fine(y)}
<1>0. Searchable(w) /\ Darkens(w, g) /\ \A y \in Asks(w) : g[y] = ColourBody(w, g, y)
  BY WithinSearchable, ColourIs
<1>1. \A y \in Asks(w) : m[y] = White(w, y) /\ m[y] \in Nat
  <2>1. ASSUME NEW y \in Asks(w) PROVE White(w, y) \in Nat
    <3>1. y[1] \in Later(w, y[1])
      BY AskParts DEF Later
    <3> QED
      BY <1>0, <3>1, LessWhite
  <2> QED
    BY <2>1
<1> HIDE DEF g, m
<1>2. ASSUME NEW y \in Asks(w), \A z \in Asks(w) : m[z] < m[y] => z \in S PROVE y \in S
  <2>1. SUFFICES ASSUME Led(y) PROVE Fine(y)
    OBVIOUS
  <2> DEFINE st == y[1]
             n  == y[2]
  <2>2. /\ st \in Colours(w) /\ n \in DOMAIN w.steps /\ n \in Names(s) /\ n \notin After(s, n)
        /\ StepTargets(w, n) \in Seq(Succ(s, n)) /\ Ready(s)
        /\ ~st.cycle /\ \A p \in st.gray : p \in Names(s) /\ n \in After(s, p)
    BY <2>1, AskParts DEF Within, Colours
  <2>3. n \notin st.gray
    BY <2>2
  <2>4. CASE n \in st.black
    BY <1>0, <2>4 , <2>2 DEF ColourBody
  <2>5. CASE n \notin st.black
    <3> DEFINE e == Gray(st, n)
               r == Each(g, e, StepTargets(w, n))
               D == {t \in Later(w, e) : ~t.cycle /\ t.gray = st.gray \cup {n}}
    <3>1. g[y] = Black(r, n)
      BY <1>0, <2>2, <2>3, <2>5 DEF ColourBody
    <3>2. e \in Colours(w) /\ Coloured(e) = Coloured(st) \cup {n} /\ e.gray = st.gray \cup {n} /\ ~e.cycle
      BY <2>2, GrayState
    <3>3. n \notin Coloured(st)
      BY <2>3, <2>5 DEF Coloured
    <3> HIDE DEF e
    <3>4. e \in D
      BY <3>2 DEF Later
    <3>5. ASSUME NEW t \in D, NEW k \in Succ(s, n) PROVE g[<<t, k>>] \in D
      <4> DEFINE z == <<t, k>>
      <4>1. k \in DOMAIN w.steps /\ k \in After(s, n) /\ t \in Later(w, e) /\ t \in Colours(w)
        BY <2>2, SuccNames, AfterFacts DEF Within, Later
      <4>2. z \in Asks(w) /\ z[1] = t /\ z[2] = k
        BY <4>1, AskParts
      <4> HIDE DEF z
      <4>3. White(w, z) < White(w, y)
        <5>1. t \in Later(w, st) /\ n \in Coloured(t)
          BY <3>2, <4>1 DEF Later
        <5> QED
          BY <1>0, <3>3, <4>2, <5>1, LessWhite
      <4>4. ASSUME NEW p \in t.gray PROVE k \in After(s, p)
        <5>1. CASE p = n
          BY <4>1, <5>1
        <5>2. CASE p \in st.gray
          BY <2>2, <4>1, <5>2, AfterFacts
        <5> QED
          BY <5>1, <5>2
      <4>5. Led(z)
        BY <4>2, <4>4
      <4>6. z \in S
        BY <1>1, <1>2, <4>2, <4>3
      <4>7. Fine(z)
        BY <4>5, <4>6
      <4>8. g[z] \in Later(w, e)
        BY <1>0, <3>2, <4>1, LaterStays DEF z
      <4> QED
        BY <4>2, <4>7, <4>8 DEF z
    <3>6. r \in D
      <4> HIDE DEF D
      <4> QED
        BY <2>2, <3>4, <3>5, EachEnds
    <3> HIDE DEF r
    <3>7. r \in Colours(w) /\ ~r.cycle /\ r.gray = st.gray \cup {n}
      BY <3>6 DEF Later
    <3>8. g[y].gray = r.gray \ {n} /\ g[y].cycle = r.cycle
      BY <2>2, <3>1, <3>7, BlackState
    <3> QED
      BY <2>3, <3>7, <3>8
  <2> QED
    BY <2>4, <2>5
<1>3. Asks(w) \subseteq S
  <2> HIDE DEF S
  <2> QED
    BY <1>1, <1>2, Descent
<1>4. g[x] \in Colours(w)
  BY <1>0 DEF Darkens
<1> QED
  BY <1>3, <1>4 DEF g

\* So neither does the search from the entry and from all the steps.
LEMMA NoCycleDetected ==
    ASSUME NEW w, NEW s, Within(w, s), w.entry \in Names(s), w.order \in Seq(Names(s))
    PROVE  ~DetectCycles(w)
<1> DEFINE D == {t \in Colours(w) : ~t.cycle /\ t.gray = {}}
           st == [gray |-> {}, black |-> {}, cycle |-> FALSE]
           q  == <<w.entry>> \o w.order
<1>1. st \in D
  BY DEF Colours
<1>2. q \in Seq(Names(s))
  OBVIOUS
<1>3. ASSUME NEW t \in D, NEW k \in Names(s) PROVE Colour(w)[<<t, k>>] \in D
  <2>1. <<t, k>> \in Asks(w) /\ <<t, k>>[1] = t /\ <<t, k>>[2] = k
    BY AskParts DEF Within
  <2> QED
    BY <2>1, NoCycleMet
<1> HIDE DEF D, st, q
<1>4. Each(Colour(w), st, q) \in D
  BY <1>1, <1>2, <1>3, EachEnds
<1>5. DetectCycles(w) = Each(Colour(w), st, q).cycle
  BY DEF DetectCycles, st, q
<1> QED
  BY <1>4, <1>5 DEF D

-----------------------------------------------------------------------------
(***************************************************************************)
(* What is compiled from a schema leads where the schema does.             *)
(***************************************************************************)

\* A function on 1..n is a sequence.
LEMMA ListIsSeq ==
    ASSUME NEW S, NEW n \in Nat, NEW f, f = [i \in 1..n |-> f[i]], \A i \in 1..n : f[i] \in S
    PROVE  f \in Seq(S)
OBVIOUS

\* A list of one element or none.
LEMMA AtMostOne ==
    ASSUME NEW S, NEW r \in S, NEW c, NEW A, A = IF c THEN <<r>> ELSE <<>>
    PROVE  A \in Seq(S) /\ Range(A) = IF c THEN {r} ELSE {}
<1>1. Range(<<r>>) = {r} /\ Range(<<>>) = {} /\ <<r>> \in Seq(S) /\ <<>> \in Seq(S)
  BY DEF Range
<1> QED
  BY <1>1

\* The edges of a compiled node: its return, and its branches that have a target.
LEMMA EdgesAre ==
    ASSUME NEW node, node.then \in Seq(Range(node.then))
    PROVE  /\ Edges(node) \in Seq(Range(Edges(node)))
           /\ {e.to : e \in Range(Edges(node))} \ {None} = {b.to : b \in Range(node.then)} \ {None}
           /\ node.return => \E e \in Range(Edges(node)) : e.to = Return
<1> DEFINE th == node.then
           R  == [to |-> Return, when |-> FALSE, priority |-> 0]
           A  == IF node.return THEN <<R>> ELSE <<>>
           E(i) == [to |-> th[i].to, when |-> th[i].when,
                    priority |-> IF node.conditional THEN i - 1 ELSE 0]
           B  == [i \in DOMAIN th |-> E(i)]
           S  == {R} \cup Range(B)
<1>1. Len(th) \in Nat /\ DOMAIN th = 1..Len(th)
  OBVIOUS
<1>2. DOMAIN B = DOMAIN th /\ \A i \in DOMAIN th : B[i] = E(i) /\ B[i].to = th[i].to
  OBVIOUS
<1>3. Edges(node) = A \o WithTarget(B)
  BY DEF Edges
<1>12. A = IF node.return THEN <<R>> ELSE <<>>
  OBVIOUS
<1>13. B = [i \in 1..Len(th) |-> B[i]] /\ R \in S /\ S = {R} \cup Range(B)
  BY <1>1
<1>6. R.to = Return
  OBVIOUS
<1> HIDE DEF A, B, R, S, th, E
<1>4. A \in Seq(S) /\ Range(A) = IF node.return THEN {R} ELSE {}
  BY <1>12, <1>13, AtMostOne
<1>5. B \in Seq(S)
  <2>1. \A i \in 1..Len(th) : B[i] \in S
    BY <1>1, <1>2, <1>13 DEF Range
  <2> QED
    BY <1>1, <1>13, <2>1, ListIsSeq
<1>7. {e.to : e \in Range(B)} = {b.to : b \in Range(th)}
  BY <1>2 DEF Range
<1>8. WithTarget(B) \in Seq(S) /\ Range(WithTarget(B)) = {e \in Range(B) : e.to # None}
  BY <1>5, WithTargetHas
<1>9. Edges(node) \in Seq(S) /\ Range(Edges(node)) = Range(A) \cup {e \in Range(B) : e.to # None}
  BY <1>3, <1>4, <1>8, Joined
<1>10. Edges(node) \in Seq(Range(Edges(node)))
  BY <1>9 DEF Range
<1>11. {e.to : e \in Range(Edges(node))} \ {None} = {e.to : e \in Range(B)} \ {None}
  BY <1>4, <1>6, <1>9 DEF Return
<1> QED
  BY <1>4, <1>6, <1>7, <1>9, <1>10, <1>11 DEF th

\* The parts of a compiled workflow.
LEMMA CompiledParts ==
    ASSUME NEW s
    PROVE  /\ Compile(s).entry = Head(s.order) /\ Compile(s).order = s.order
           /\ DOMAIN Compile(s).steps = Names(s)
           /\ \A n \in Names(s) : /\ Compile(s).steps[n].edges = Edges(s.node[n])
                                  /\ Compile(s).steps[n].dependsOn = DependenciesOf(s, n)
BY DEF Compile

\* What is compiled from a valid schema is a valid workflow.
LEMMA CompilerIsRight ==
    ASSUME NEW s, IsSchema(s), Validate(s)
    PROVE  ValidateWorkflow(Compile(s))
<1> DEFINE w == Compile(s)
<1>1. /\ s.order # <<>> /\ CheckTerminals(s) /\ IsRootedDag(s)
      /\ \A n \in Names(s) : ValidateNode(s, s.node[n])
  BY ValidatorIsRight DEF Validate
<1>2. Ready(s) /\ Head(s.order) \in Names(s) /\ s.order \in Seq(Names(s))
  BY <1>1, SchemaReady, FirstName DEF IsSchema
<1>3. /\ w.entry = Head(s.order) /\ w.order = s.order /\ DOMAIN w.steps = Names(s)
      /\ \A n \in Names(s) : w.steps[n].edges = Edges(s.node[n])
                             /\ w.steps[n].dependsOn = DependenciesOf(s, n)
  BY CompiledParts
<1> HIDE DEF w
<1>4. ASSUME NEW n \in Names(s)
      PROVE  /\ StepTargets(w, n) \in Seq(Succ(s, n)) /\ Range(StepTargets(w, n)) \subseteq Names(s)
             /\ s.node[n].return => \E e \in Range(w.steps[n].edges) : e.to = Return
  <2> DEFINE node == s.node[n]
  <2>1. node.then \in Seq(Range(node.then))
    BY DEF IsSchema
  <2>2. LeadsTo(s, n) = {b.to : b \in Range(node.then) \cup Range(node.catch)} \ {None}
    BY DEF LeadsTo
  <2>3. w.steps[n].edges = Edges(node)
    BY <1>3
  <2> HIDE DEF node
  <2>4. /\ Edges(node) \in Seq(Range(Edges(node)))
        /\ {e.to : e \in Range(Edges(node))} \ {None} = {b.to : b \in Range(node.then)} \ {None}
        /\ node.return => \E e \in Range(Edges(node)) : e.to = Return
    BY <2>1, EdgesAre
  <2>5. /\ StepTargets(w, n) \in Seq(Range(StepTargets(w, n)))
        /\ Range(StepTargets(w, n)) = {e.to : e \in Range(Edges(node))} \ {None}
    BY <2>3, <2>4, TargetsAre DEF StepTargets
  <2>6. Succ(s, n) = LeadsTo(s, n) /\ Succ(s, n) \subseteq Names(s)
    BY <1>2, SuccNames DEF Ready, Succ
  <2>7. Range(StepTargets(w, n)) \subseteq Succ(s, n)
    BY <2>2, <2>4, <2>5, <2>6
  <2>8. StepTargets(w, n) \in Seq(Succ(s, n))
    BY <2>5, <2>7, WiderSeq
  <2> QED
    BY <2>3, <2>4, <2>6, <2>7, <2>8 DEF node
<1>5. Within(w, s)
  BY <1>1, <1>2, <1>3, <1>4 DEF Within, IsRootedDag
<1>6. ~DetectCycles(w)
  BY <1>2, <1>3, <1>5, NoCycleDetected
<1>7. \A n \in Names(s) : w.steps[n].dependsOn \subseteq Names(s)
  BY <1>3 DEF DependenciesOf
<1>8. \E n \in Names(s) : \E e \in Range(w.steps[n].edges) : e.to = Return
  BY <1>1, <1>4 DEF CheckTerminals
<1>9. ValidateWorkflow(w)
  BY <1>2, <1>3, <1>4, <1>6, <1>7, <1>8 DEF ValidateWorkflow
<1> QED
  BY <1>9 DEF w

-----------------------------------------------------------------------------
\* The validator accepts a schema just when its nodes are valid, it ends, and
\* then and catch make it a DAG with the first node as its root: dfs, which stops
\* at the first error and shares its visited set between branches, overlooks no
\* cycle and no unreachable node (validator.rs), whatever the schema.
THEOREM ValidatorSound ==
    ASSUME NEW s, IsSchema(s)
    PROVE  RightlyValidated(s)
BY ValidatorIsRight DEF RightlyValidated

\* Whatever the parser accepts, Workflow::validate accepts once it is compiled:
\* entry, targets and dependencies are steps, a step returns, and its own search
\* finds no cycle (workflow.rs).
THEOREM CompilerSound ==
    ASSUME NEW s, IsSchema(s), Parses(s)
    PROVE  ValidateWorkflow(Compile(s))
BY CompilerIsRight DEF Parses

\* The validator decides what it is meant to, in every state of the runs, for any
\* schemas that deserialize.
THEOREM ValidatorAlwaysDecides == Spec => []ValidatorDecides
<1>1. ValidatorDecides
  BY SchemasAssumption, ValidatorSound DEF ValidatorDecides, AllRightlyValidated
<1> QED
  BY <1>1, PTL

\* The two validators agree on what is compiled, in every state of the runs, for
\* any schemas that deserialize.
THEOREM CompiledAlwaysValid == Spec => []CompiledIsValid
<1>1. CompiledIsValid
  BY SchemasAssumption, CompilerSound DEF CompiledIsValid, AllCompiledValid
<1> QED
  BY <1>1, PTL

=============================================================================
