-------------------------------- MODULE Boot --------------------------------
(***************************************************************************)
(* konf-init: the boot sequence, the registries it fills from the files in *)
(* the config directory, config:reload, and the MCP sessions that are told *)
(* of a new tool list (konf-init/src/lib.rs, config.rs, the engine's       *)
(* registries and watch channel, konf-mcp).                                *)
(*                                                                         *)
(* The files change under the running process.  config:reload is a tool:   *)
(* any number of calls of it may run at once, and from the first workflow  *)
(* on a timer's run may call it while boot still registers workflows.      *)
(***************************************************************************)
EXTENDS Parser

CONSTANTS
    Files,          \* workflows/*.yaml
    Contents,       \* what they may hold, see Parser
    FirstDisks,     \* bound: what they hold before boot
    ToolsYamls,     \* the guards that tools.yaml may have
    Broken,         \* a file that cannot be read (tools.yaml: or parsed)
    Absent,         \* a file that is not there
    MaxReloads,     \* bound: calls of config:reload
    Clients,        \* MCP clients on stdio
    MaxEdits,       \* bound: changes of the files
    SomeSchemas     \* bound: what the parser is checked on

ASSUME BootAssumption == MaxReloads \in Nat /\ Absent \notin Contents
ASSUME SchemasAssumption == \A s \in SomeSchemas : IsSchema(s)

Reloads == 1..MaxReloads     \* the calls of config:reload, in the order they start
BootJob == 0                 \* boot itself, which registers workflows too
Jobs    == Reloads \cup {BootJob}

VARIABLES
    disk,           \* the workflow files
    dir,            \* workflows/ exists
    toolsYaml,      \* tools.yaml
    edits,          \* changes so far
    phase,          \* how far boot is
    config,         \* the product config that boot has read
    registry,       \* workflow tools: id -> file content
    resources,      \* the workflow files registered as resources
    guards,         \* Runtime::tool_guards
    job,            \* boot and the calls of config:reload
    version,        \* the watch channel's version
    session,        \* MCP sessions
    batch,          \* history: the calls of config:reload that overlap, see below
    before,         \* history: what they found
    told            \* history: the last job to end has notified

files    == <<disk, dir, toolsYaml, edits>>
platform == <<registry, resources, guards>>
history  == <<batch, before, told>>
vars     == <<files, phase, config, platform, job, version, session, history>>

NoJob == [pc |-> "new", names |-> {}, todo |-> {}, file |-> None, content |-> None]

NoSession == [pc |-> "closed", seen |-> 0, list |-> {}, relist |-> FALSE]

Init ==
    /\ disk \in FirstDisks
    /\ dir = TRUE
    /\ toolsYaml \in ToolsYamls
    /\ edits = 0
    /\ phase = "config" /\ config = Absent
    /\ registry = <<>> /\ resources = {} /\ guards = {}
    /\ job = [j \in Jobs |-> NoJob]
    /\ version = 0
    /\ session = [c \in Clients |-> NoSession]
    /\ batch = "none" /\ before = [registry |-> <<>>, guards |-> {}] /\ told = FALSE

-----------------------------------------------------------------------------
(* The operator edits the config directory.                                *)

\* A change crosses the calls that are under way, and dates those that are not.
Disturb == /\ phase # "failed"
           /\ edits < MaxEdits /\ edits' = edits + 1
           /\ batch' = "none"
           /\ UNCHANGED <<phase, config, platform, job, version, session, before, told>>

EditFile(f) ==
    /\ Disturb /\ dir
    /\ \E c \in Contents \cup {Absent, Broken} : c # disk[f] /\ disk' = [disk EXCEPT ![f] = c]
    /\ UNCHANGED <<dir, toolsYaml>>

RemoveDir ==
    /\ Disturb /\ dir
    /\ dir' = FALSE /\ disk' = [f \in Files |-> Absent]
    /\ UNCHANGED toolsYaml

EditToolsYaml ==
    /\ Disturb
    /\ \E y \in ToolsYamls \cup {Absent, Broken} : y # toolsYaml /\ toolsYaml' = y
    /\ UNCHANGED <<disk, dir>>

-----------------------------------------------------------------------------
(* boot: the steps before and after the workflows.                         *)

\* The next step, or an error, which ends the process.
BootStep(from, to) ==
    /\ phase = from /\ phase' \in {to, "failed"}
    /\ UNCHANGED <<files, version, session, history>>

\* PlatformConfig::load and validate, and tools.yaml.
LoadConfig ==
    /\ BootStep("config", "tools")
    /\ phase' = "tools" => toolsYaml # Broken
    /\ config' = toolsYaml
    /\ UNCHANGED <<platform, job>>

\* register_builtins and register_tools: a backend that cannot be reached ends
\* boot, an MCP server that cannot is skipped.
RegisterTools ==
    /\ BootStep("tools", "storage")
    /\ UNCHANGED <<config, platform, job>>

\* KonfStorage::open, the runtime, the scheduler, config:reload, the schedule
\* and runner tools; then register_workflows, if there is a directory.
InitRuntime ==
    /\ BootStep("storage", IF dir THEN "workflows" ELSE "guards")
    /\ job' = [job EXCEPT ![BootJob].pc = IF phase' = "workflows" THEN "scan" ELSE @]
    /\ UNCHANGED <<config, platform>>

\* apply_tool_guards: no guards, no change.
ApplyToolGuards(y) == guards' = IF y \in {Absent, Broken, {}} THEN guards ELSE y

BootGuards ==
    /\ phase = "guards" /\ phase' = "schedules"
    /\ ApplyToolGuards(config)
    /\ UNCHANGED <<files, config, registry, resources, job, version, session, history>>

\* Replay and schedules.yaml, which Runner and Scheduler model.
FinishBoot ==
    /\ BootStep("schedules", "up")
    /\ UNCHANGED <<config, platform, job>>

-----------------------------------------------------------------------------
(* register_workflows, for boot and for config:reload.                     *)

\* What a step of job j leaves alone.
Frame == UNCHANGED <<files, config, version, session>>

At(j, pc) == job[j].pc = pc /\ phase # "failed"

\* The job ends with an error, which for boot is the end of the process.
JobFails(j) ==
    /\ job' = [job EXCEPT ![j] = [NoJob EXCEPT !.pc = "done"]]
    /\ phase' = IF j = BootJob THEN "failed" ELSE phase
    /\ batch' = IF batch = "calm" THEN "failed" ELSE batch
    /\ told' = FALSE
    /\ UNCHANGED <<platform, before>>

\* read_dir.
Scan(j) ==
    /\ At(j, "scan") /\ job[j].names = {} /\ Frame
    /\ \/ /\ dir
          /\ job' = [job EXCEPT ![j].pc = "load", ![j].todo = {f \in Files : disk[f] # Absent}]
          /\ UNCHANGED <<phase, platform, history>>
       \/ JobFails(j)

\* One file: one that cannot be read ends the job, one that does not parse is
\* skipped.
Load(j, f) ==
    /\ At(j, "load") /\ f \in job[j].todo /\ Frame
    /\ \/ /\ disk[f] \in Contents
          /\ job' = [job EXCEPT ![j].todo = @ \ {f},
                                ![j].pc = IF Parses(disk[f]) THEN "register" ELSE @,
                                ![j].file = IF Parses(disk[f]) THEN f ELSE @,
                                ![j].content = IF Parses(disk[f]) THEN disk[f] ELSE @]
          /\ UNCHANGED <<phase, platform, history>>
       \/ disk[f] \in {Absent, Broken} /\ JobFails(j)

\* The parsed file becomes a resource and, if it says so, a tool: one with the
\* same id is replaced.
Register(j) ==
    /\ At(j, "register") /\ Frame
    /\ resources' = resources \cup {job[j].file}
    /\ LET c == job[j].content
       IN  registry' = IF c.tool THEN [n \in DOMAIN registry \cup {c.id} |->
                                         IF n = c.id THEN c ELSE registry[n]]
                       ELSE registry
    /\ job' = [job EXCEPT ![j].pc = "load", ![j].file = None, ![j].content = None]
    /\ UNCHANGED <<phase, guards, history>>

BootRegistered ==
    /\ At(BootJob, "load") /\ job[BootJob].todo = {} /\ Frame
    /\ phase' = "guards"
    /\ job' = [job EXCEPT ![BootJob] = [NoJob EXCEPT !.pc = "done"]]
    /\ UNCHANGED <<platform, history>>

-----------------------------------------------------------------------------
(* config:reload.                                                          *)

Busy(j) == job[j].pc \notin {"new", "done"}

\* Mutant: the tools of workflows that are gone stay.
WorkflowTools_None == {}

\* registry().list(), the names that start with "workflow:".
WorkflowTools == DOMAIN registry

Idle == phase = "up" /\ \A j \in Jobs : ~Busy(j)

\* The call joins those it overlaps with, or is the first of a new batch.
Join(kind) ==
    /\ batch' = IF Idle THEN kind ELSE batch
    /\ before' = IF Idle THEN [registry |-> registry, guards |-> guards] ELSE before

\* A client, or a workflow that the scheduler has fired, calls the tool.  With
\* no directory it answers "reloaded" and does nothing.
StartReload(r) ==
    /\ job[r].pc = "new" /\ \A q \in 1..r - 1 : job[q].pc # "new"
    /\ \/ phase = "up"
       \/ phase \in {"workflows", "guards", "schedules"} /\ DOMAIN registry # {}
    /\ Frame
    /\ IF dir THEN /\ job' = [job EXCEPT ![r].pc = "scan", ![r].names = WorkflowTools]
                   /\ Join("calm")
              ELSE /\ job' = [job EXCEPT ![r].pc = "done"]
                   /\ Join("kept")
    /\ UNCHANGED <<phase, platform, told>>

\* remove_tool, one name after the other, before the directory is read.
RemoveTool(r, n) ==
    /\ At(r, "scan") /\ n \in job[r].names /\ Frame
    /\ registry' = [m \in DOMAIN registry \ {n} |-> registry[m]]
    /\ job' = [job EXCEPT ![r].names = @ \ {n}]
    /\ UNCHANGED <<phase, resources, guards, history>>

\* tools.yaml is read again; if that fails the guards stay.
ReloadGuards(r) ==
    /\ r \in Reloads /\ At(r, "load") /\ job[r].todo = {} /\ Frame
    /\ ApplyToolGuards(toolsYaml)
    /\ job' = [job EXCEPT ![r].pc = "notify"]
    /\ UNCHANGED <<phase, registry, resources, history>>

\* Engine::notify_tools_changed; the call has succeeded.
Notify(r) ==
    /\ At(r, "notify")
    /\ version' = version + 1
    /\ told' = TRUE
    /\ job' = [job EXCEPT ![r] = [NoJob EXCEPT !.pc = "done"]]
    /\ UNCHANGED <<files, phase, config, platform, session, batch, before>>

-----------------------------------------------------------------------------
(* MCP sessions (konf-mcp).  Clients are external: one lists the tools     *)
(* when the session begins and when it is told to.                         *)

SetSession(c, s) ==
    /\ phase = "up"
    /\ session' = [session EXCEPT ![c] = s]
    /\ UNCHANGED <<files, phase, config, platform, job, version, history>>

\* serve: a stdio server has subscribed before, with a receiver that has seen
\* nothing yet.
Connect(c) ==
    /\ session[c].pc = "closed"
    /\ SetSession(c, [NoSession EXCEPT !.pc = "open", !.relist = TRUE])

\* Mutant: the task subscribes when it starts.
SpawnWatcher_Subscribes(c) ==
    /\ session[c].pc = "open"
    /\ SetSession(c, [session[c] EXCEPT !.pc = "watched", !.seen = version])

\* serve_stdio, after the handshake: the task that watches for changes.
SpawnWatcher(c) ==
    /\ session[c].pc = "open"
    /\ SetSession(c, [session[c] EXCEPT !.pc = "watched"])

\* changed() and notify_tool_list_changed; the client is gone if that fails.
Watch(c) ==
    /\ session[c].pc = "watched" /\ session[c].seen # version
    /\ \/ SetSession(c, [session[c] EXCEPT !.seen = version, !.relist = TRUE])
       \/ SetSession(c, [NoSession EXCEPT !.pc = "gone"])

\* list_tools.
ListTools(c) ==
    /\ session[c].pc \in {"open", "watched"} /\ session[c].relist
    /\ SetSession(c, [session[c] EXCEPT !.list = DOMAIN registry, !.relist = FALSE])

-----------------------------------------------------------------------------
Next ==
    \/ \E f \in Files : EditFile(f)
    \/ RemoveDir \/ EditToolsYaml
    \/ LoadConfig \/ RegisterTools \/ InitRuntime \/ BootGuards \/ FinishBoot
    \/ \E j \in Jobs : Scan(j) \/ Register(j)
    \/ \E j \in Jobs, f \in Files : Load(j, f)
    \/ BootRegistered
    \/ \E r \in Reloads : StartReload(r) \/ ReloadGuards(r) \/ Notify(r)
    \/ \E r \in Reloads : \E n \in job[r].names : RemoveTool(r, n)
    \/ \E c \in Clients : Connect(c) \/ SpawnWatcher(c) \/ Watch(c) \/ ListTools(c)

Spec == Init /\ [][Next]_vars

\* Nothing in a job waits: tokio runs it to its end, and the task that watches
\* likewise.  A client that was told to lists the tools.
FairSpec ==
    /\ Spec
    /\ \A j \in Jobs :
        WF_vars(\/ Scan(j) \/ Register(j) \/ \E f \in Files : Load(j, f)
                \/ j \in Reloads /\ (\/ ReloadGuards(j) \/ Notify(j)
                                     \/ \E n \in job[j].names : RemoveTool(j, n)))
    /\ \A c \in Clients : /\ WF_vars(SpawnWatcher(c)) /\ WF_vars(Watch(c))
                               /\ WF_vars(ListTools(c))

-----------------------------------------------------------------------------
(* Properties.                                                             *)

\* Calls of config:reload that began when boot was over, that overlap in any
\* way and that no edit crosses: when the last has ended every tool is one that
\* the files define, however many of the calls have failed; if none has, all of
\* these are there, with the guards of tools.yaml if it has any and the guards
\* from before if not.  (A call that fails may leave tools out: they are removed
\* before the files are read.)  The exception is a call that finds no workflows/:
\* the files then define nothing, it answers that it has reloaded, and every tool
\* and guard is the one from before.
ReloadTakesEffect ==
    LET eligible == {c \in {disk[f] : f \in Files} \cap Contents : Parses(c) /\ c.tool}
        wanted   == IF toolsYaml \in {Absent, Broken, {}} THEN before.guards ELSE toolsYaml
    IN  Idle => /\ batch \in {"calm", "failed"} => /\ \A n \in DOMAIN registry : registry[n] \in eligible
                                                 /\ guards \in {before.guards, wanted}
                /\ batch = "calm" => DOMAIN registry = {c.id : c \in eligible} /\ guards = wanted
                /\ batch = "kept" => eligible = {} /\ registry = before.registry /\ guards = before.guards

\* Whatever the files went through and however calls of config:reload overlap,
\* once the last of them has ended with success a stdio client lists what is
\* registered.
ClientCatchesUp ==
    \A c \in Clients :
        LET settled == phase = "up" /\ told /\ \A j \in Jobs : ~Busy(j)
        IN  settled /\ session[c].pc # "closed"
              ~> \/ session[c].list = DOMAIN registry
                 \/ session[c].pc = "gone" \/ ~settled

\* (The parser is a pure function: it is enough to ask before boot.)
Untouched == phase = "config" /\ edits = 0

\* Then and catch make a DAG that is rooted in the first node, the targets
\* exist, the tools are allowed, and some node returns.
RightlyValidated(s) ==
    Validate(s) <=> /\ \A n \in Names(s) : ValidateNode(s, s.node[n])
                    /\ IsRootedDag(s)
                    /\ CheckTerminals(s)

AllRightlyValidated == \A s \in SomeSchemas : RightlyValidated(s)
AllCompiledValid    == \A s \in SomeSchemas : Parses(s) => ValidateWorkflow(Compile(s))

\* The validator accepts just the schemas that are rooted DAGs.
ValidatorDecides == Untouched => AllRightlyValidated

\* What the parser accepts, Workflow::validate accepts: the executor, which calls
\* neither, may rely on both.
CompiledIsValid == Untouched => AllCompiledValid

=============================================================================
