--------------------------- MODULE ConfigPipeline ---------------------------
(***************************************************************************)
(* The configuration pipeline of clj-pulse: which projects the workspace   *)
(* has, whose sources and libraries are in the index, and which of several *)
(* config changes in a row has the last word.                              *)
(*                                                                         *)
(* Every change ends in a config application, a tokio task that takes the  *)
(* ConfigApplyLock, resolves the project list again and applies what has   *)
(* changed: sources, stage 2 (the cached classpath of a project) and stage *)
(* 3 (its classpath command, which may run for minutes). Startup is two    *)
(* tasks: the library task, which was given the lock by initialize, and    *)
(* the source scan, which runs beside it without.                          *)
(*                                                                         *)
(* Outside the server, files change and are reported later, in any order   *)
(* and together, by the client's file watchers. Library entries are        *)
(* abstracted to classpaths: what a cache file holds or a command answers. *)
(***************************************************************************)
EXTENDS Integers, Sequences, FiniteSets

CONSTANTS
  Projects,    \* relative paths a project can have
  Root,        \* the workspace root, which is always a project
  Cmds,        \* classpath commands
  Choices,     \* bound: what the user may set for each project, None to drop it
  Start,       \* bound: what the settings may be at startup
  Tasks,       \* application tasks that are in flight at a time, at most
  Startup,     \* the startup library task, one of them
  MaxChanges,  \* bound: changes of the settings, the files and rescans
  None         \* no project, no task, no command

\* A listed project: its classpath_enabled flag and command. Every project here
\* has a command, that is, is not of the lgx kind.
Settings  == [enabled : BOOLEAN, cmd : Cmds]
Active(c) == c # None /\ c.enabled

\* A classpath is known by where it comes from: the command and the manifest it
\* read, or another tool's run. Empty is no entry at all.
Empty      == [by |-> None, manifest |-> 0]
Classpaths == [by : Cmds \cup {None}, manifest : Nat]

ASSUME PipelineAssumption ==
  /\ Root \in Projects
  /\ Startup \in Tasks
  /\ MaxChanges \in Nat
  /\ None \notin Projects \cup Tasks \cup Cmds
  /\ None \notin Settings /\ None \notin Classpaths
  /\ \A p \in Projects : Choices[p] \subseteq Settings \cup {None}
  /\ None \notin Choices[Root]
  /\ \A list \in Start : /\ list \in [Projects -> Settings \cup {None}]
                        /\ \A p \in Projects : list[p] \in Choices[p]

\* Watched files: the two config files of the workspace, and each project's own.
Files == ({"pulse", "kondo"} \X {Root}) \cup ({"manifest", "cpcache"} \X Projects)

VARIABLES
  (* outside the server *)
  wanted,      \* what the two config layers and detection resolve to
  manifest,    \* version of each project's manifest
  missing,     \* the projects that have no manifest
  settings,    \* version of the files settings::load reads
  cache,       \* what stage-2 discovery finds for each project
  pending,     \* file changes not yet reported
  changes,     \* changes made so far
  (* shared state of the server *)
  projects,    \* the project list: settings, or None for one not listed
  generation,  \* ConfigGeneration
  entries,     \* ProjectState::entries, None without a state
  status,      \* ProjectState::status
  libs,        \* the classpaths whose libraries are indexed
  sources,     \* what each project's indexed source files are of
  config,      \* the version of the extraction config in the index
  (* the locks *)
  queue,       \* the ConfigApplyLock, first in first out: its head holds it
  cli,         \* holder of the ClasspathCliLock
  (* the tasks *)
  pc,          \* where each is
  job,         \* what it was spawned for and has learnt since
  todo,        \* projects to run stage 3 for
  ran,         \* projects whose stage 3 this application has begun
  command,     \* the command that runs
  (* the startup scan *)
  scan,        \* where it is, and what it holds
  raced        \* history: the startup scan wrote over a newer application

outside  == <<wanted, manifest, missing, settings, cache, pending, changes>>
shared   == <<projects, generation, entries, status, libs, sources, config>>
locks    == <<queue, cli>>
taskVars == <<pc, job, todo, ran, command>>
scanVars == <<scan, raced>>
vars == <<outside, shared, locks, taskVars, scanVars>>

Listed(list)  == {p \in Projects : list[p] # None}
NoCommand     == [project |-> None, cmd |-> None, gen |-> 0, manifest |-> 0]
NoJob         == [kind |-> "editor", files |-> {}, old |-> [p \in Projects |-> None],
                  pruned |-> FALSE, phase |-> "diff"]
Stage2Status(e) == IF e = Empty THEN "unresolved" ELSE "cached"

\* The union rebuild: every listed project's entries and nothing else.
Union(list, es) == {es[p] : p \in Listed(list)} \ {Empty, None}

\* What a scan of the source paths of these projects puts into the index.
ScanOf(list, cfg) ==
  [p \in Projects |-> IF list[p] = None THEN None
                      ELSE [config |-> cfg, manifest |-> manifest[p]]]

\* Variant: asking is enough.
HoldsWhenAsked(t) == \E i \in DOMAIN queue : queue[i] = t

Holds(t) == queue # <<>> /\ Head(queue) = t

-----------------------------------------------------------------------------
(* Changes. *)

Change == changes < MaxChanges /\ changes' = changes + 1

Spawn(t, kind, files) ==
  /\ pc[t] = "free"
  /\ pc' = [pc EXCEPT ![t] = "spawned"]
  /\ job' = [job EXCEPT ![t] = [NoJob EXCEPT !.kind = kind, !.files = files]]
  /\ UNCHANGED <<todo, ran, command>>

\* Configuration lists a project only where there is a manifest.
MayWant(p, c) == p \in missing => c = None

\* didChangeConfiguration stores the editor layer, then spawns.
DidChangeConfiguration(t, p, c) ==
  /\ Change /\ c # wanted[p] /\ MayWant(p, c)
  /\ wanted' = [wanted EXCEPT ![p] = c]
  /\ Spawn(t, "editor", {})
  /\ UNCHANGED <<manifest, missing, settings, cache, pending, shared, locks, scanVars>>

\* clojurePulse/rescan
Rescan(t) ==
  /\ Change
  /\ Spawn(t, "rescan", {})
  /\ UNCHANGED <<wanted, manifest, missing, settings, cache, pending, shared, locks, scanVars>>

EditPulseConfig(p, c) ==
  /\ Change /\ MayWant(p, c)
  /\ wanted' = [wanted EXCEPT ![p] = c]
  /\ settings' = settings + 1
  /\ pending' = pending \cup {<<"pulse", Root>>}
  /\ UNCHANGED <<manifest, missing, cache, shared, locks, taskVars, scanVars>>

EditKondoConfig ==
  /\ Change
  /\ settings' = settings + 1
  /\ pending' = pending \cup {<<"kondo", Root>>}
  /\ UNCHANGED <<wanted, manifest, missing, cache, shared, locks, taskVars, scanVars>>

\* Editing a manifest, creating one or deleting one: the last two add and
\* remove a project. A project with a manifest that is not listed is one that
\* detection does not look at, and that no configuration names.
EditManifest(p, c) ==
  /\ Change
  /\ wanted' = [wanted EXCEPT ![p] = c]
  /\ \/ c = None /\ missing' = missing \cup {p}
     \/ missing' = missing \ {p}
  /\ manifest' = [manifest EXCEPT ![p] = @ + 1]
  /\ pending' = pending \cup {<<"manifest", p>>}
  /\ UNCHANGED <<settings, cache, shared, locks, taskVars, scanVars>>

\* Another tool resolves the classpath and caches it.
EditCache(p) ==
  /\ Change
  /\ cache' = [cache EXCEPT ![p] = [by |-> None, manifest |-> manifest[p] + 1]]
  /\ pending' = pending \cup {<<"cpcache", p>>}
  /\ UNCHANGED <<wanted, manifest, missing, settings, shared, locks, taskVars, scanVars>>

\* didChangeWatchedFiles: the client reports some of what has changed.
DidChangeWatchedFiles(t, files) ==
  /\ files # {} /\ files \subseteq pending
  /\ pending' = pending \ files
  /\ Spawn(t, "watch", files)
  /\ UNCHANGED <<wanted, manifest, missing, settings, cache, changes, shared, locks, scanVars>>

-----------------------------------------------------------------------------
(* A config application. *)

Goto(t, to) == pc' = [pc EXCEPT ![t] = to]

Manifests(t)     == {p \in Projects : <<"manifest", p>> \in job[t].files}
ConfigChanged(t) == job[t].files \cap {<<"pulse", Root>>, <<"kondo", Root>>} # {}

\* Variant: an application gives up when another one is under way.
TryLock(t) ==
  /\ pc[t] = "spawned"
  /\ IF queue = <<>> THEN queue' = <<t>> /\ Goto(t, "queued")
                     ELSE UNCHANGED queue /\ Goto(t, "free")
  /\ UNCHANGED <<outside, shared, cli, job, todo, ran, command, scanVars>>

\* apply_lock.lock().await: a task asks for the lock when it is first polled,
\* in no particular order, and is served in the order of asking.
AskLock(t) ==
  /\ pc[t] = "spawned"
  /\ queue' = Append(queue, t)
  /\ Goto(t, "queued")
  /\ UNCHANGED <<outside, shared, cli, job, todo, ran, command, scanVars>>

\* The states refresh_projects drops, and whether any had libraries.
\* Variants: none is dropped; none counts.
GoneNone == {}
Gone == {p \in Projects : wanted[p] = None /\ entries[p] # None}
PrunedNone == FALSE
Pruned == \E p \in Gone : entries[p] # Empty

\* With the lock: set_extract_config(settings::load(&root)) for a changed config
\* file, and refresh_projects.
Refresh(t) ==
  /\ pc[t] = "queued" /\ Holds(t)
  /\ config' = IF ConfigChanged(t) THEN settings ELSE config
  /\ projects' = wanted
  /\ generation' = generation + 1
  /\ entries' = [p \in Projects |-> IF p \in Gone THEN None ELSE entries[p]]
  /\ status' = [p \in Projects |-> IF p \in Gone THEN "none" ELSE status[p]]
  /\ job' = [job EXCEPT ![t].old = projects, ![t].pruned = Pruned]
  /\ Goto(t, "sources")
  /\ UNCHANGED <<outside, libs, sources, locks, todo, ran, command, scanVars>>

Added(t)   == Listed(projects) \ Listed(job[t].old)
Removed(t) == Listed(job[t].old) \ Listed(projects)

Changed(t) == job[t].old # projects

\* The watcher rescans all sources when they can have changed; otherwise the diff
\* does when projects were removed.
\* Variant: the added projects' sources are thought to be enough.
WholeForWatch(t) ==
  job[t].kind = "watch" /\ (Manifests(t) # {} \/ ConfigChanged(t))
Whole(t) ==
  \/ Removed(t) # {}
  \/ job[t].kind = "watch" /\ (Manifests(t) # {} \/ ConfigChanged(t) \/ Changed(t))

\* All sources, or those of the added projects. The watcher skips the diff when
\* neither the list nor config.edn has changed.
IndexSources(t) ==
  LET all == ScanOf(projects, config)
  IN  /\ pc[t] = "sources"
      /\ sources' = [p \in Projects |-> IF Whole(t) \/ p \in Added(t) THEN all[p] ELSE sources[p]]
      /\ IF job[t].kind = "watch" /\ ~Changed(t) /\ <<"pulse", Root>> \notin job[t].files
         THEN Goto(t, "stage3") ELSE Goto(t, "libraries")
      /\ UNCHANGED <<outside, projects, generation, entries, status, libs, config, locks,
                     job, todo, ran, command, scanVars>>

WasActive(t, p) == Active(job[t].old[p])
NewCommand(t, p) == job[t].old[p] = None \/ job[t].old[p].cmd # projects[p].cmd
Stage3Runs(t) == {p \in Listed(projects) : /\ Active(projects[p])
                                           /\ ~WasActive(t, p) \/ NewCommand(t, p)}

Stage3Status == {"resolving", "resolved", "error"}

\* reconcile_projects: the projects it reverts to stage 2.
Reverted(force, sts) == {p \in Listed(projects) : /\ ~projects[p].enabled \/ p \in force
                                                  /\ sts[p] \in Stage3Status}

\* Entries and status once stage 2 has been found out again for these.
Stage2Entries(ps) == [p \in Projects |-> IF p \in ps THEN cache[p] ELSE entries[p]]
Stage2Statuses(ps) ==
  [p \in Projects |-> IF p \in ps THEN Stage2Status(cache[p]) ELSE status[p]]

\* run_stage2_all for the added projects, reconcile_projects, and the projects
\* whose stage 3 is to run.
DiffLibraries(t) ==
  LET added  == Added(t)
      force  == {p \in Stage3Runs(t) : WasActive(t, p)}
      revert == Reverted(force, Stage2Statuses(added))
      es     == Stage2Entries(added \cup revert)
      rebuilt == job[t].pruned \/ \E p \in revert : cache[p] # entries[p]
  IN  /\ pc[t] = "libraries"
      /\ entries' = es
      /\ status' = Stage2Statuses(added \cup revert)
      /\ libs' = IF rebuilt THEN Union(projects, es)
                 ELSE libs \cup ({cache[p] : p \in added} \ {Empty})
      /\ todo' = [todo EXCEPT ![t] = Stage3Runs(t)]
      /\ Goto(t, "stage3")
      /\ UNCHANGED <<outside, projects, generation, sources, config, locks, job, ran,
                     command, scanVars>>

(* run_stage3_project *)

HasManifest(p) == p \notin missing

\* Takes the ClasspathCliLock and looks the project up again under it.
BeginStage3(t, p) ==
  /\ pc[t] = "stage3" /\ p \in todo[t]
  /\ cli = None
  /\ todo' = [todo EXCEPT ![t] = @ \ {p}]
  /\ ran' = [ran EXCEPT ![t] = @ \cup {p}]
  /\ IF Active(projects[p]) /\ HasManifest(p)
     THEN /\ cli' = t
          /\ status' = [status EXCEPT ![p] = "resolving"]
          /\ command' = [command EXCEPT ![t] = [project |-> p, cmd |-> projects[p].cmd,
                                                gen |-> generation, manifest |-> manifest[p]]]
          /\ Goto(t, "run")
     ELSE UNCHANGED <<cli, status, command, pc>>
  /\ UNCHANGED <<outside, projects, generation, entries, libs, sources, config, queue,
                 job, scanVars>>

\* The stale-result guard.
Fresh(t) ==
  LET c == command[t]
  IN  /\ generation = c.gen
      /\ Active(projects[c.project]) /\ projects[c.project].cmd = c.cmd

\* Variant: a failure is only logged.
CommandFailsSilently(t) == pc[t] = "run" /\ UNCHANGED <<status, entries, libs, cache, pending>>

\* The command fails, or times out.
CommandFails(t) ==
  LET p == command[t].project IN
  /\ pc[t] = "run"
  /\ status' = IF Fresh(t) THEN [status EXCEPT ![p] = "error"] ELSE status
  /\ UNCHANGED <<entries, libs, cache, pending>>

\* It answers with a classpath, of the manifest as it found it, which the clojure
\* tool also caches. The answer is applied unless it is stale.
CommandAnswers(t) ==
  LET p == command[t].project IN
  /\ pc[t] = "run"
  /\ \E m \in {command[t].manifest, manifest[p]} :
       LET cp == [by |-> command[t].cmd, manifest |-> m]
           es == [entries EXCEPT ![p] = cp]
       IN  /\ \/ UNCHANGED <<cache, pending>>
              \/ /\ cache' = [cache EXCEPT ![p] = cp]
                 /\ pending' = pending \cup {<<"cpcache", p>>}
           /\ IF Fresh(t)
              THEN /\ entries' = es
                   /\ status' = [status EXCEPT ![p] = "resolved"]
                   /\ libs' = IF entries[p] # cp THEN Union(projects, es) ELSE libs
              ELSE UNCHANGED <<entries, status, libs>>

EndStage3(t) ==
  /\ CommandFails(t) \/ CommandAnswers(t)
  /\ cli' = None
  /\ command' = [command EXCEPT ![t] = NoCommand]
  /\ Goto(t, "stage3")
  /\ UNCHANGED <<wanted, manifest, missing, settings, changes, projects, generation, sources, config,
                 queue, job, todo, ran, scanVars>>

\* Stage 3 of apply_project_diff is over.
DiffOver(t, kind) ==
  /\ pc[t] = "stage3" /\ todo[t] = {}
  /\ job[t].kind = kind /\ job[t].phase = "diff"
  /\ job' = [job EXCEPT ![t].phase = "rest"]

\* owning_project: of the longest prefix, which is the root's for a directory
\* that is no project.
OwningProject(p) == IF projects[p] = None THEN Root ELSE p

\* stage2_refresh for the projects that own the changed files, and stage 3 for
\* those whose manifest has changed.
RouteStage2(t) ==
  LET owners == {OwningProject(f[2]) : f \in {g \in job[t].files : g[1] = "cpcache"}}
      manifests == Manifests(t) \cap Listed(projects)
      stale == {p \in manifests \cup owners : entries[p] # cache[p]}
      es    == Stage2Entries(stale)
  IN  /\ DiffOver(t, "watch")
      /\ entries' = es
      /\ status' = Stage2Statuses(stale)
      /\ libs' = IF stale # {} THEN Union(projects, es) ELSE libs
      /\ todo' = [todo EXCEPT ![t] = manifests \ ran[t]]
      /\ UNCHANGED <<outside, projects, generation, sources, config, locks, pc, ran, command,
                     scanVars>>

\* rescan: every eligible project that the diff skipped, reverted first.
ForceStage3(t) ==
  LET forced == {p \in Listed(projects) : Active(projects[p]) /\ HasManifest(p)} \ ran[t]
      revert == Reverted(forced, status)
      es     == Stage2Entries(revert)
  IN  /\ DiffOver(t, "rescan")
      /\ entries' = es
      /\ status' = Stage2Statuses(revert)
      /\ libs' = IF \E p \in revert : cache[p] # entries[p] THEN Union(projects, es) ELSE libs
      /\ todo' = [todo EXCEPT ![t] = forced]
      /\ UNCHANGED <<outside, projects, generation, sources, config, locks, pc, ran, command,
                     scanVars>>

\* The task ends and its guard is dropped.
Release(t) ==
  /\ pc[t] = "stage3" /\ todo[t] = {}
  /\ job[t].kind = "editor" \/ job[t].phase = "rest"
  /\ queue' = Tail(queue)
  /\ Goto(t, "free")
  /\ job' = [job EXCEPT ![t] = NoJob]
  /\ ran' = [ran EXCEPT ![t] = {}]
  /\ UNCHANGED <<outside, shared, cli, todo, command, scanVars>>

-----------------------------------------------------------------------------
(* Startup. *)

\* The first task of initialize resolves the list, from the editor layer of the
\* initialize request and the files as they are now, and spawns the library
\* task.
StartupResolve ==
  /\ scan.at = "resolve"
  /\ \E list \in [Projects -> Settings \cup {None}] :
       /\ \A p \in Projects : list[p] \in {scan.list[p], wanted[p]}
       /\ projects' = list
       /\ entries' = [p \in Projects |-> IF list[p] = None THEN None ELSE Empty]
       /\ status' = [p \in Projects |-> IF list[p] = None THEN "none"
                                        ELSE IF list[p].enabled THEN "unresolved"
                                        ELSE "disabled"]
       /\ scan' = [scan EXCEPT !.at = "load", !.list = list]
  /\ Goto(Startup, "stage2")
  /\ UNCHANGED <<outside, generation, libs, sources, config, locks, job, todo, ran, command,
                 raced>>

\* run_stage2_all on the startup list; then stage 3 for what is eligible.
StartupStage2 ==
  LET list == Listed(projects) IN
  /\ pc[Startup] = "stage2"
  /\ entries' = Stage2Entries(list)
  /\ status' = Stage2Statuses(list)
  /\ libs' = libs \cup ({cache[p] : p \in list} \ {Empty})
  /\ todo' = [todo EXCEPT ![Startup] = {p \in list : Active(projects[p]) /\ HasManifest(p)}]
  /\ Goto(Startup, "stage3")
  /\ UNCHANGED <<outside, projects, generation, sources, config, locks, job, ran, command,
                 scanVars>>

\* A newer application has begun to write.
Overtaken == generation > 0

\* The scan: settings::load with set_extract_config, the walk over the files, and
\* merge_project_from, which prunes what the walk did not meet.
StartupLoad ==
  /\ scan.at = "load"
  /\ config' = settings
  /\ scan' = [scan EXCEPT !.at = "walk"]
  /\ UNCHANGED <<outside, projects, generation, entries, status, libs, sources, locks, taskVars,
                 raced>>

StartupWalk ==
  /\ scan.at = "walk"
  /\ scan' = [scan EXCEPT !.at = "merge", !.found = ScanOf(scan.list, config)]
  /\ UNCHANGED <<outside, shared, locks, taskVars, raced>>

StartupMerge ==
  /\ scan.at = "merge"
  /\ sources' = scan.found
  /\ scan' = [scan EXCEPT !.at = "done", !.found = [p \in Projects |-> None]]
  /\ raced' = (raced \/ Overtaken)
  /\ UNCHANGED <<outside, projects, generation, entries, status, libs, config, locks, taskVars>>

-----------------------------------------------------------------------------
\* The session at the end of initialize.
Init ==
  /\ wanted \in Start /\ missing \in SUBSET (Projects \ Listed(wanted))
  /\ manifest = [p \in Projects |-> 0] /\ settings = 0
  /\ cache = [p \in Projects |-> Empty]
  /\ pending = {} /\ changes = 0
  /\ projects = [p \in Projects |-> None] /\ generation = 0
  /\ entries = [p \in Projects |-> None] /\ status = [p \in Projects |-> "none"]
  /\ libs = {} /\ sources = [p \in Projects |-> None] /\ config = 0
  /\ queue = <<Startup>> /\ cli = None
  /\ pc = [t \in Tasks |-> IF t = Startup THEN "initialize" ELSE "free"]
  /\ job = [t \in Tasks |-> NoJob]
  /\ todo = [t \in Tasks |-> {}] /\ ran = [t \in Tasks |-> {}]
  /\ command = [t \in Tasks |-> NoCommand]
  /\ scan = [at |-> "resolve", list |-> wanted,
             found |-> [p \in Projects |-> None]]
  /\ raced = FALSE

TaskStep(t) ==
  \/ AskLock(t) \/ Refresh(t) \/ IndexSources(t) \/ DiffLibraries(t)
  \/ \E p \in Projects : BeginStage3(t, p)
  \/ EndStage3(t)
  \/ RouteStage2(t) \/ ForceStage3(t) \/ Release(t)

StartupStep ==
  \/ StartupResolve \/ StartupStage2
  \/ StartupLoad \/ StartupWalk \/ StartupMerge

Report(t) == \E files \in SUBSET pending : DidChangeWatchedFiles(t, files)

UserInput ==
  \/ \E t \in Tasks \ {Startup} :
       \/ \E p \in Projects : \E c \in Choices[p] : DidChangeConfiguration(t, p, c)
       \/ Rescan(t)
  \/ \E p \in Projects : \E c \in Choices[p] :
       EditPulseConfig(p, c) \/ EditManifest(p, c)
  \/ EditKondoConfig
  \/ \E p \in Projects : EditCache(p)

Next ==
  \/ UserInput
  \/ \E t \in Tasks \ {Startup} : Report(t)
  \/ \E t \in Tasks : TaskStep(t)
  \/ StartupStep

Spec == Init /\ [][Next]_vars

\* The runtime runs every task that can run, a command answers or is killed at
\* its timeout, and the client reports every file that has changed.
Fairness ==
  /\ \A t \in Tasks : WF_vars(TaskStep(t))
  /\ WF_vars(StartupStep)
  /\ WF_vars(\E t \in Tasks \ {Startup} : Report(t))

FairSpec == Spec /\ Fairness

-----------------------------------------------------------------------------
(* Properties. *)

Pcs == {"initialize", "stage2", "free", "spawned", "queued", "sources", "libraries", "stage3",
        "run"}
Statuses == {"none", "unresolved", "disabled", "cached", "resolving", "resolved", "error"}
Jobs == [kind : {"editor", "watch", "rescan"}, files : SUBSET Files,
         old : [Projects -> Settings \cup {None}], pruned : BOOLEAN, phase : {"diff", "rest"}]
Commands == [project : Projects \cup {None}, cmd : Cmds \cup {None}, gen : Nat,
             manifest : Nat]
Scanned == [Projects -> [config : Nat, manifest : Nat] \cup {None}]

OutsideTyped ==
  /\ wanted \in [Projects -> Settings \cup {None}] /\ wanted[Root] # None
  /\ missing \subseteq Projects \ Listed(wanted)
  /\ manifest \in [Projects -> Nat] /\ settings \in Nat
  /\ cache \in [Projects -> Classpaths]
  /\ pending \subseteq Files /\ changes \in 0..MaxChanges

SharedTyped ==
  /\ projects \in [Projects -> Settings \cup {None}] /\ generation \in Nat
  /\ entries \in [Projects -> Classpaths \cup {None}]
  /\ status \in [Projects -> Statuses]
  /\ libs \subseteq Classpaths \ {Empty}
  /\ sources \in Scanned /\ config \in Nat
  /\ \A p \in Projects : /\ projects[p] = None => entries[p] = None
                         /\ entries[p] = None <=> status[p] = "none"

TasksTyped ==
  /\ queue \in Seq(Tasks) /\ cli \in Tasks \cup {None}
  /\ pc \in [Tasks -> Pcs]
  /\ job \in [Tasks -> Jobs]
  /\ todo \in [Tasks -> SUBSET Projects] /\ ran \in [Tasks -> SUBSET Projects]
  /\ command \in [Tasks -> Commands]

ScanTyped ==
  /\ scan \in [at : {"resolve", "load", "walk", "merge", "done"},
               list : [Projects -> Settings \cup {None}], found : Scanned]
  /\ raced \in BOOLEAN

\* Every variable keeps to its type; the list, the entries and the statuses are of
\* the same projects whatever refresh_projects drops.
TypeOK == OutsideTyped /\ SharedTyped /\ TasksTyped /\ ScanTyped

\* While a classpath command runs, the list cannot change under it: its project
\* stays listed and enabled with this command, of this generation, because the
\* task that waits for it also holds the ConfigApplyLock. So the answer is never
\* thrown away, and one command runs at a time (run_stage3_project).
Stage3NeverStale ==
  \A t \in Tasks : pc[t] = "run" =>
    /\ Fresh(t)
    /\ Holds(t) /\ cli = t

\* A project is shown as resolving only while its command runs: every way out of
\* run_stage3_project leaves another status behind.
ResolvingIsRunning ==
  \A p \in Projects : status[p] = "resolving" => \E t \in Tasks : command[t].project = p

\* A refresh has dropped projects whose libraries the diff has yet to drop.
MidDiff == \E t \in Tasks : pc[t] \in {"sources", "libraries"}

\* The library index is that of every listed project's entries and of no other,
\* however it came about: libraries added by stage 2, or a rebuild of the union
\* when some entry set has changed (rebuild_libs and its callers).
LibsAreUnion == ~MidDiff => libs = Union(projects, entries)

Quiet ==
  /\ pending = {}
  /\ \A t \in Tasks : pc[t] = "free"
  /\ scan.at = "done"

\* The command a project's libraries come from is the one it is now set to, on
\* its newest manifest; without a successful command they are what stage 2 finds,
\* whatever commands have run or failed before.
RightEntries(p) ==
  entries[p] = IF status[p] = "resolved"
               THEN [by |-> projects[p].cmd, manifest |-> manifest[p]] ELSE cache[p]

\* Once every change is reported and every task is through, what is in the index
\* is what the settings and the files now say: each application works on the
\* list it has resolved itself, and the newest has the last word.
Applied ==
  /\ projects = wanted
  /\ config = settings /\ sources = ScanOf(wanted, settings)
  /\ \A p \in Listed(wanted) : RightEntries(p) /\ (status[p] = "resolved" => wanted[p].enabled)

QuietIsApplied == Quiet /\ ~raced => Applied

\* docs/MEMORY.md on Leiningen, "direct deps only when it is off or fails": what a
\* command has answered in this application is not put back to what stage 2 finds
\* by the rest of the application, which will not run the command again.
CommandHasTheLastWord ==
  [][\A t \in Tasks : job[t].phase = "diff" /\ job'[t].phase = "rest" =>
       \A p \in ran[t] : status[p] = "resolved" => status'[p] = "resolved"]_vars

\* Every change is applied in the end: no application waits forever for a lock,
\* for a command or for another application.
Settles == <>[](Quiet /\ projects = wanted)
=========================================================================================================================================================
