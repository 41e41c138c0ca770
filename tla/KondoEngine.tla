---------------------------- MODULE KondoEngine ----------------------------
(***************************************************************************)
(* The clj-kondo engine of a session: the probes that find out whether     *)
(* there is one, and the scans that warm its dependency cache from the     *)
(* classpath of each project.                                              *)
(*                                                                         *)
(* A reload (spawn_kondo_reload) probes and, when the engine has changed,  *)
(* warms. A config application (ConfigPipeline, of which only what the     *)
(* warmer sees is kept here) changes the project list and the entries, and *)
(* warms as well. Both run warm_kondo_caches, each in its own task, and    *)
(* meet at KONDO_WARM_LOCK. An application holds the ConfigApplyLock all   *)
(* the while; a reload does not.                                           *)
(***************************************************************************)
EXTENDS Integers, FiniteSets

CONSTANTS
  Projects,      \* relative paths a project can have
  KondoDirs,     \* the projects with a .clj-kondo directory at or above them
  Classpaths,    \* entry sets a project's classpath can have
  Engines,       \* what a probe can establish
  KondoEngines,  \* those of them that found a clj-kondo binary
  Reloads,       \* reload tasks in flight at a time, at most
  Applies,       \* config applications in flight at a time, at most
  Startup,       \* the startup library task, one of them
  MaxChanges,    \* bound: changes of settings and files, and rescans
  None           \* no engine, no task, no project, no classpath

ASSUME KondoAssumption ==
  /\ KondoDirs \subseteq Projects
  /\ KondoEngines \subseteq Engines
  /\ Startup \in Applies /\ Reloads \cap Applies = {}
  /\ Reloads # {} /\ Engines \ KondoEngines # {}
  /\ MaxChanges \in Nat
  /\ None \notin Projects \cup Engines \cup Reloads \cup Applies \cup Classpaths

Tasks == Reloads \cup Applies
Kinds == {"editor", "rescan", "pulse", "files"}

VARIABLES
  (* the settings *)
  wanted,      \* the engine the two config layers now resolve to
  unreported,  \* .clj-pulse/config.edn has changed and was not reported yet
  changes,     \* changes made so far
  (* shared state of the server *)
  engine,      \* KondoState
  projects,    \* the project list
  entries,     \* each project's classpath, None without entries or state
  generation,  \* ConfigGeneration
  warmed,      \* WarmedSets
  (* the locks: each the task that holds it *)
  probing,     \* KONDO_PROBE_LOCK
  applying,    \* ConfigApplyLock
  warming,     \* KONDO_WARM_LOCK
  (* the tasks *)
  pc,          \* where each is
  kind,        \* what an application was spawned for
  config,      \* the engine a probe will find, by the layers as it read them
  changed,     \* engine_changed
  todo,        \* projects still to settle, or to warm
  scan,        \* what the warmer captured: project, entries, generation
  (* history *)
  tried,       \* each project's classpaths that clj-kondo has been run over
  last,        \* what its last scan was of, None when that was not recorded
  missed       \* projects whose entries changed after the last warm

settings  == <<wanted, unreported, changes>>
shared    == <<engine, projects, entries, generation, warmed>>
locks     == <<probing, applying, warming>>
taskVars  == <<pc, kind, config, changed, todo, scan>>
history   == <<tried, last, missed>>
vars == <<settings, shared, locks, taskVars, history>>

NoScan == [project |-> None, entries |-> None, gen |-> 0]

Goto(t, to) == pc' = [pc EXCEPT ![t] = to]

-----------------------------------------------------------------------------
(* Changes. *)

Change == changes < MaxChanges /\ changes' = changes + 1

Spawn(reloads, a, why) ==
  /\ \A t \in reloads \cup {a} : pc[t] = "free"
  /\ pc' = [t \in Tasks |-> IF t = a THEN "spawned"
                           ELSE IF t \in reloads THEN "queue" ELSE pc[t]]
  /\ kind' = [kind EXCEPT ![a] = why]
  /\ UNCHANGED <<shared, locks, config, changed, todo, scan, history>>

\* The editor layer is stored, then a reload and an application are spawned.
DidChangeConfiguration(r, a) ==
  /\ Change
  /\ wanted' \in Engines
  /\ UNCHANGED unreported
  /\ Spawn({r}, a, "editor")

\* The user edits .clj-pulse/config.edn, and the client reports it later.
EditPulseConfig ==
  /\ Change
  /\ wanted' \in Engines
  /\ unreported' = TRUE
  /\ UNCHANGED <<shared, locks, taskVars, history>>

DidChangePulseConfig(r, a) ==
  /\ unreported /\ unreported' = FALSE
  /\ UNCHANGED <<wanted, changes>>
  /\ Spawn({r}, a, "pulse")

\* Manifests, .cpcache or .clj-kondo/config.edn: no probe.
DidChangeFiles(a) ==
  /\ Change
  /\ UNCHANGED <<wanted, unreported>>
  /\ Spawn({}, a, "files")

Rescan(a) ==
  /\ Change
  /\ UNCHANGED <<wanted, unreported>>
  /\ Spawn({}, a, "rescan")

-----------------------------------------------------------------------------
(* probe_and_announce. *)

\* Variant: probes overlap.
LockProbeNoLock(r) ==
  /\ pc[r] = "queue"
  /\ probing' = r
  /\ config' = [config EXCEPT ![r] = wanted]
  /\ Goto(r, "probe")
  /\ UNCHANGED <<settings, shared, applying, warming, kind, changed, todo, scan, history>>

\* KONDO_PROBE_LOCK; both layers are read once it is held.
LockProbe(r) ==
  /\ pc[r] = "queue" /\ probing = None
  /\ probing' = r
  /\ config' = [config EXCEPT ![r] = wanted]
  /\ Goto(r, "probe")
  /\ UNCHANGED <<settings, shared, applying, warming, kind, changed, todo, scan, history>>

\* The probe answers.
Probe(r) ==
  /\ pc[r] = "probe"
  /\ engine' = config[r]
  /\ changed' = [changed EXCEPT ![r] = engine # config[r]]
  /\ Goto(r, "announce")
  /\ UNCHANGED <<settings, projects, entries, generation, warmed, locks, kind, config, todo,
                 scan, history>>

\* Variant: a gained engine waits for the next application to be warmed.
AnnounceOnly(r) ==
  /\ pc[r] = "announce"
  /\ probing' = None
  /\ config' = [config EXCEPT ![r] = None]
  /\ changed' = [changed EXCEPT ![r] = FALSE]
  /\ Goto(r, "free")
  /\ UNCHANGED <<settings, shared, applying, warming, kind, todo, scan, history>>

\* Announced, the lock is dropped; a changed engine is warmed from the projects
\* as they are.
Announce(r) ==
  /\ pc[r] = "announce"
  /\ probing' = None
  /\ config' = [config EXCEPT ![r] = None]
  /\ changed' = [changed EXCEPT ![r] = FALSE]
  /\ Goto(r, IF changed[r] THEN "warm" ELSE "free")
  /\ UNCHANGED <<settings, shared, applying, warming, kind, todo, scan, history>>

-----------------------------------------------------------------------------
(* What the warmer sees of a config application. *)

LockApply(a) ==
  /\ pc[a] = "spawned" /\ applying = None
  /\ applying' = a
  /\ Goto(a, "refresh")
  /\ UNCHANGED <<settings, shared, probing, warming, kind, config, changed, todo, scan, history>>

\* refresh_projects: the list is resolved again, the generation bumped, and the
\* state of removed projects dropped. Without a change of the list or of
\* config.edn the watcher skips the diff, and with it the warm.
Refresh(a) ==
  /\ pc[a] = "refresh"
  /\ \E list \in SUBSET Projects :
       /\ projects' = list
       /\ entries' = [p \in Projects |-> IF p \in list THEN entries[p] ELSE None]
       /\ todo' = [todo EXCEPT ![a] = list]
       /\ \/ Goto(a, "settle")
          \/ kind[a] = "files" /\ list = projects /\ Goto(a, "rest")
  /\ generation' = generation + 1
  /\ UNCHANGED <<settings, engine, warmed, locks, kind, config, changed, scan, history>>

\* One project after another is given the entries that stage 2, or its command
\* in stage 3, has found.
SetEntries(a, p) ==
  /\ p \in todo[a]
  /\ entries' \in {[entries EXCEPT ![p] = e] : e \in Classpaths \cup {None}}
  /\ todo' = [todo EXCEPT ![a] = @ \ {p}]

\* apply_project_diff, or the startup stages, up to the warm.
Settle(a, p) ==
  /\ pc[a] = "settle"
  /\ SetEntries(a, p)
  /\ UNCHANGED <<settings, engine, projects, generation, warmed, locks, pc, kind, config,
                 changed, scan, history>>

Settled(a) ==
  /\ pc[a] = "settle" /\ todo[a] = {}
  /\ Goto(a, "warm")
  /\ UNCHANGED <<settings, shared, locks, kind, config, changed, todo, scan, history>>

\* After the diff: the commands a rescan forces, and those of changed manifests
\* and caches. Nothing is warmed from what they find.
SettleRest(a, p) ==
  /\ pc[a] = "rest"
  /\ SetEntries(a, p)
  /\ missed' = IF entries' # entries THEN missed \cup {p} ELSE missed
  /\ UNCHANGED <<settings, engine, projects, generation, warmed, locks, pc, kind, config,
                 changed, scan, tried, last>>

Release(a) ==
  /\ pc[a] = "rest" /\ todo[a] = {}
  /\ applying' = None
  /\ Goto(a, "free")
  /\ UNCHANGED <<settings, shared, probing, warming, kind, config, changed, todo, scan, history>>

-----------------------------------------------------------------------------
(* warm_kondo_caches, in a reload or an application. *)

\* Both go on where they came from: a reload ends.
EndWarm(t) ==
  /\ pc[t] = "next" /\ todo[t] = {}
  /\ todo' = [todo EXCEPT ![t] = IF kind[t] \in {"editor", "none"} THEN {} ELSE projects]
  /\ Goto(t, IF t \in Reloads THEN "free" ELSE "rest")
  /\ UNCHANGED <<settings, shared, locks, kind, config, changed, scan, history>>

\* Without a binary there is nothing to do; the list is copied.
BeginWarm(t) ==
  /\ pc[t] = "warm"
  /\ todo' = [todo EXCEPT ![t] = IF engine \in KondoEngines THEN projects ELSE {}]
  /\ Goto(t, "next")
  /\ UNCHANGED <<settings, shared, locks, kind, config, changed, scan, history>>

Worthwhile(p) == p \in KondoDirs /\ entries[p] # None /\ warmed[p] # entries[p]

\* The next project's entries, unless it has nothing to warm.
Capture(t, p) ==
  /\ pc[t] = "next" /\ p \in todo[t]
  /\ IF Worthwhile(p)
     THEN /\ scan' = [scan EXCEPT ![t] = [NoScan EXCEPT !.project = p, !.entries = entries[p]]]
          /\ Goto(t, "gen")
          /\ UNCHANGED todo
     ELSE /\ todo' = [todo EXCEPT ![t] = @ \ {p}]
          /\ UNCHANGED <<scan, pc>>
  /\ missed' = missed \ {p}
  /\ UNCHANGED <<settings, shared, locks, kind, config, changed, tried, last>>

ReadGeneration(t) ==
  /\ pc[t] = "gen"
  /\ scan' = [scan EXCEPT ![t].gen = generation]
  /\ Goto(t, "wait")
  /\ UNCHANGED <<settings, shared, locks, kind, config, changed, todo, history>>

\* The project is done with: on to the next.
NextProject(t) ==
  /\ todo' = [todo EXCEPT ![t] = @ \ {scan[t].project}]
  /\ scan' = [scan EXCEPT ![t] = NoScan]
  /\ Goto(t, "next")

\* Variant: only the classpath is looked at again.
StillWorthwhileClasspath(t) == entries[scan[t].project] = scan[t].entries

StillWorthwhile(t) ==
  /\ entries[scan[t].project] = scan[t].entries
  /\ warmed[scan[t].project] # scan[t].entries

\* KONDO_WARM_LOCK: both guards are looked at again once it is held.
LockWarm(t) ==
  /\ pc[t] = "wait" /\ warming = None
  /\ IF StillWorthwhile(t)
     THEN warming' = t /\ Goto(t, "scan") /\ UNCHANGED <<todo, scan>>
     ELSE NextProject(t) /\ UNCHANGED warming
  /\ UNCHANGED <<settings, shared, probing, applying, kind, config, changed, history>>

\* Variant: the lock is not dropped.
EndScanKeepsLock(t) ==
  /\ pc[t] = "scan"
  /\ warmed' = [warmed EXCEPT ![scan[t].project] = scan[t].entries]
  /\ NextProject(t)
  /\ UNCHANGED <<settings, engine, projects, entries, generation, locks, kind, config, changed,
                 history>>

\* clj-kondo is done. Only a scan that succeeded under an unchanged configuration
\* is recorded.
EndScan(t) ==
  LET p == scan[t].project IN
  /\ pc[t] = "scan"
  /\ warming' = None
  /\ \/ /\ generation = scan[t].gen
        /\ warmed' = [warmed EXCEPT ![p] = scan[t].entries]
        /\ last' = [last EXCEPT ![p] = scan[t].entries]
     \/ /\ last' = [last EXCEPT ![p] = None]   \* failed, or discarded
        /\ UNCHANGED warmed
  /\ tried' = [tried EXCEPT ![p] = @ \cup {scan[t].entries}]
  /\ NextProject(t)
  /\ UNCHANGED <<settings, engine, projects, entries, generation, probing, applying, kind,
                 config, changed, missed>>

-----------------------------------------------------------------------------
\* The end of initialize: its reload is under way, and startup holds the lock.
Init ==
  /\ wanted \in Engines /\ unreported = FALSE /\ changes = 0
  /\ engine \in Engines \ KondoEngines
  /\ projects = {} /\ entries = [p \in Projects |-> None] /\ generation = 0
  /\ warmed = [p \in Projects |-> None]
  /\ probing = None /\ applying = Startup /\ warming = None
  /\ \E r \in Reloads :
       pc = [t \in Tasks |-> IF t = r THEN "queue" ELSE IF t = Startup THEN "resolve" ELSE "free"]
  /\ kind = [t \in Tasks |-> IF t \in Reloads THEN "none" ELSE "editor"]
  /\ config = [t \in Tasks |-> None] /\ changed = [t \in Tasks |-> FALSE]
  /\ todo = [t \in Tasks |-> {}] /\ scan = [t \in Tasks |-> NoScan]
  /\ tried = [p \in Projects |-> {}] /\ last = [p \in Projects |-> None]
  /\ missed = {}

\* Startup sets the list without bumping the generation.
StartupResolve ==
  /\ pc[Startup] = "resolve"
  /\ projects' \in SUBSET Projects
  /\ todo' = [todo EXCEPT ![Startup] = projects']
  /\ Goto(Startup, "settle")
  /\ UNCHANGED <<settings, engine, entries, generation, warmed, locks, kind, config, changed,
                 scan, history>>

UserInput ==
  \/ EditPulseConfig
  \/ \E a \in Applies \ {Startup} :
       \/ DidChangeFiles(a) \/ Rescan(a)
       \/ \E r \in Reloads : DidChangeConfiguration(r, a)

Report == \E r \in Reloads, a \in Applies \ {Startup} : DidChangePulseConfig(r, a)

ReloadStep(r) == LockProbe(r) \/ Probe(r) \/ Announce(r)

ApplyStep(a) ==
  \/ LockApply(a) \/ Refresh(a) \/ Settled(a) \/ Release(a)
  \/ \E p \in Projects : Settle(a, p) \/ SettleRest(a, p)

WarmStep(t) ==
  \/ BeginWarm(t) \/ \E p \in Projects : Capture(t, p)
  \/ ReadGeneration(t) \/ LockWarm(t) \/ EndScan(t) \/ EndWarm(t)

Next ==
  \/ UserInput \/ Report \/ StartupResolve
  \/ \E r \in Reloads : ReloadStep(r)
  \/ \E a \in Applies : ApplyStep(a)
  \/ \E t \in Tasks : WarmStep(t)

Spec == Init /\ [][Next]_vars

\* The runtime runs every task that can run, the locks are fair, a probe and a
\* scan end or are killed at their timeout, and a changed file is reported.
Fairness ==
  /\ WF_vars(StartupResolve) /\ WF_vars(Report)
  /\ \A r \in Reloads : WF_vars(ReloadStep(r) \/ WarmStep(r))
  /\ \A a \in Applies : WF_vars(ApplyStep(a) \/ WarmStep(a))

FairSpec == Spec /\ Fairness

-----------------------------------------------------------------------------
(* Properties. *)

Pcs == {"free", "queue", "probe", "announce", "spawned", "resolve", "refresh", "settle", "rest",
        "warm", "next", "gen", "wait", "scan"}

\* The type of every variable, and who holds a lock is where it is needed.
TypeOK ==
  /\ wanted \in Engines /\ unreported \in BOOLEAN /\ changes \in 0..MaxChanges
  /\ engine \in Engines /\ projects \subseteq Projects
  /\ entries \in [Projects -> Classpaths \cup {None}] /\ generation \in Nat
  /\ warmed \in [Projects -> Classpaths \cup {None}]
  /\ probing \in Reloads \cup {None} /\ applying \in Applies \cup {None}
  /\ warming \in Tasks \cup {None}
  /\ pc \in [Tasks -> Pcs] /\ kind \in [Tasks -> Kinds \cup {"none"}]
  /\ config \in [Tasks -> Engines \cup {None}] /\ changed \in [Tasks -> BOOLEAN]
  /\ todo \in [Tasks -> SUBSET Projects]
  /\ scan \in [Tasks -> [project : Projects \cup {None}, entries : Classpaths \cup {None},
                         gen : Nat]]
  /\ tried \in [Projects -> SUBSET Classpaths]
  /\ last \in [Projects -> Classpaths \cup {None}]
  /\ missed \subseteq Projects
  /\ \A p \in Projects \ projects : entries[p] = None
  /\ \A t \in Tasks : warming = t <=> pc[t] = "scan"

\* With no probe queued or running and every config change reported, the engine
\* is the one the newest settings ask for: a slow probe never lands last with
\* obsolete settings (KONDO_PROBE_LOCK, and the layers read under it).
NewestSettingsWin ==
  /\ ~unreported
  /\ \A r \in Reloads : pc[r] \notin {"queue", "probe"}
  => engine = wanted

\* A scan takes minutes: a classpath that was scanned, and recorded, last is not
\* scanned again, though reloads and applications race to do it (the guards
\* looked at again under KONDO_WARM_LOCK).
NoRepeatedScan ==
  [][\A t \in Tasks : pc[t] # "scan" /\ pc'[t] = "scan" =>
       last[scan[t].project] # scan[t].entries]_vars

Quiet == ~unreported /\ \A t \in Tasks : pc[t] = "free"

\* With an engine and nothing under way, clj-kondo has been run over every
\* project's classpath: the probe and the indexing, which end in either order, do
\* not each leave the work to the other. Not so for entries that were found after
\* the warm of their application, or by one that does not warm.
QuietIsWarmed ==
  Quiet /\ engine \in KondoEngines =>
    \A p \in (projects \cap KondoDirs) \ missed : entries[p] \in tried[p] \cup {None}

\* Every task ends, although applications wait for KONDO_WARM_LOCK with the
\* ConfigApplyLock in their hands.
EngineSettles == <>[]Quiet
=============================================================================
