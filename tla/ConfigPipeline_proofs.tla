----------------------- MODULE ConfigPipeline_proofs ------------------------
(***************************************************************************)
(* The configuration pipeline for any number of projects, commands,        *)
(* application tasks and changes, in three parts: what its two locks give  *)
(* (one application at a time, so an answer is never stale), that the set  *)
(* of library sources is the union of the classpaths, and that a quiet     *)
(* server has applied the newest list, settings, manifests and cached      *)
(* classpaths.                                                             *)
(***************************************************************************)
EXTENDS ConfigPipeline, TLAPS

(***************************************************************************)
(* Stage3NeverStale says what is so of a task whose command runs. It is    *)
(* kept by the other tasks because none of them can be past its own        *)
(* refresh: every task at work, not only one that runs a command, is the   *)
(* head of the lock's queue. Startup holds the lock before its task is     *)
(* spawned, which matters as long as the startup list is not set.          *)
(***************************************************************************)
AtWork(t) == pc[t] \notin {"free", "spawned", "queued"}

Shapes ==
  /\ queue \in Seq(Tasks)
  /\ pc \in [Tasks -> Pcs]
  /\ command = [t \in Tasks |-> command[t]]
  /\ status = [p \in Projects |-> status[p]]
  /\ scan = [at |-> scan.at, list |-> scan.list, found |-> scan.found]

AtWorkHolds == \A t \in Tasks : AtWork(t) => Holds(t)

StartupFirst == scan.at = "resolve" => pc[Startup] = "initialize"

Running(t) == pc[t] = "run" => /\ cli = t
                               /\ command[t].project \in Projects
                               /\ Fresh(t)

ResolvingRuns ==
  \A p \in Projects : status[p] = "resolving" =>
    \E t \in Tasks : pc[t] = "run" /\ command[t].project = p

IInv ==
  /\ Shapes
  /\ AtWorkHolds
  /\ StartupFirst
  /\ \A t \in Tasks : Running(t)
  /\ ResolvingRuns

-----------------------------------------------------------------------------
\* Two tasks at work are one: both are the head of the queue.
LEMMA OneAtWork ==
  ASSUME AtWorkHolds, NEW t \in Tasks, NEW u \in Tasks, AtWork(t), AtWork(u)
  PROVE  t = u
BY DEF AtWorkHolds, Holds

\* Asking for a lock that is held does not change who holds it.
LEMMA HeadStays ==
  ASSUME queue \in Seq(Tasks), queue # <<>>, NEW t \in Tasks
  PROVE  /\ Append(queue, t) # <<>>
         /\ Head(Append(queue, t)) = Head(queue)
OBVIOUS

\* The initial states satisfy the inductive invariant.
LEMMA InitIInv == Init => IInv
<1> SUFFICES ASSUME Init PROVE IInv
  OBVIOUS
<1> USE PipelineAssumption
<1>1. Shapes
  BY DEF Init, Shapes, Pcs
<1>2. AtWorkHolds
  BY DEF Init, AtWorkHolds, AtWork, Holds
<1>3. StartupFirst
  BY DEF Init, StartupFirst
<1>4. (\A t \in Tasks : Running(t)) /\ ResolvingRuns
  BY DEF Init, Running, ResolvingRuns
<1> QED
  BY <1>1, <1>2, <1>3, <1>4 DEF IInv

-----------------------------------------------------------------------------
\* No project becomes resolving.
NoneResolves ==
  /\ status' = [p \in Projects |-> status'[p]]
  /\ \A p \in Projects : status'[p] = "resolving" => status[p] = "resolving"

ScanMoves ==
  /\ scan' = [at |-> scan'.at, list |-> scan'.list, found |-> scan'.found]
  /\ scan'.at = "resolve" => scan.at = "resolve"

\* The invariant is kept by a step that moves no task and changes neither the
\* list nor a lock.
LEMMA QuietStep ==
  ASSUME IInv, UNCHANGED <<queue, cli, pc, command, projects, generation>>,
         NoneResolves, ScanMoves
  PROVE  IInv'
BY DEF IInv, NoneResolves, ScanMoves, Shapes, AtWorkHolds, AtWork, Holds, StartupFirst,
       Running, Fresh, ResolvingRuns

\* What a step that leaves the statuses or the scan alone owes these lemmas.
LEMMA SameStatus == IInv /\ UNCHANGED status => NoneResolves
BY DEF IInv, Shapes, NoneResolves

LEMMA SameScan == IInv /\ UNCHANGED scan => ScanMoves
BY DEF IInv, Shapes, ScanMoves

\* Stage 2 never makes a project resolving.
LEMMA Stage2NotResolving ==
  ASSUME NEW ps \in SUBSET Projects, status' = Stage2Statuses(ps)
  PROVE  NoneResolves
BY DEF NoneResolves, Stage2Statuses, Stage2Status

\* A task is spawned, for a change of the settings, a rescan or changed files.
LEMMA SpawnIInv ==
  ASSUME IInv, NEW t \in Tasks, NEW kind, NEW files, Spawn(t, kind, files),
         UNCHANGED <<shared, locks, scanVars>>
  PROVE  IInv'
<1> USE DEF Spawn, shared, locks, scanVars
<1>1. Shapes'
  BY DEF IInv, Shapes, Pcs
<1>2. AtWorkHolds' /\ StartupFirst'
  BY DEF IInv, Shapes, AtWorkHolds, AtWork, Holds, StartupFirst
<1>3. (\A u \in Tasks : Running(u))'
  BY DEF IInv, Shapes, Running, Fresh
<1>4. ResolvingRuns'
  BY DEF IInv, Shapes, ResolvingRuns
<1> QED
  BY <1>1, <1>2, <1>3, <1>4 DEF IInv

\* Nothing the user or the client does disturbs the invariant.
LEMMA OutsideIInv ==
  ASSUME IInv, UserInput \/ \E t \in Tasks \ {Startup} : Report(t)
  PROVE  IInv'
<1>1. ASSUME NEW t \in Tasks, NEW p \in Projects, NEW c, DidChangeConfiguration(t, p, c)
      PROVE IInv'
  BY <1>1, SpawnIInv DEF DidChangeConfiguration
<1>2. ASSUME NEW t \in Tasks, Rescan(t) PROVE IInv'
  BY <1>2, SpawnIInv DEF Rescan
<1>3. ASSUME NEW t \in Tasks, NEW files, DidChangeWatchedFiles(t, files) PROVE IInv'
  BY <1>3, SpawnIInv DEF DidChangeWatchedFiles
<1>4. ASSUME NEW p \in Projects, NEW c, EditPulseConfig(p, c) \/ EditManifest(p, c) PROVE IInv'
  BY <1>4, QuietStep, SameStatus, SameScan DEF EditPulseConfig, EditManifest, shared, locks, taskVars,
                         scanVars
<1>5. CASE EditKondoConfig
  BY <1>5, QuietStep, SameStatus, SameScan DEF EditKondoConfig, shared, locks, taskVars, scanVars
<1>6. ASSUME NEW p \in Projects, EditCache(p) PROVE IInv'
  BY <1>6, QuietStep, SameStatus, SameScan DEF EditCache, shared, locks, taskVars, scanVars
<1> QED
  BY <1>1, <1>2, <1>3, <1>4, <1>5, <1>6 DEF UserInput, Report

-----------------------------------------------------------------------------
\* A task joins the queue of the lock: its head stays.
LEMMA AskLockIInv ==
  ASSUME IInv, NEW t \in Tasks, AskLock(t)
  PROVE  IInv'
<1> USE DEF AskLock, Goto, shared, scanVars
<1>1. Shapes'
  BY DEF IInv, Shapes, Pcs
<1>2. AtWorkHolds'
  <2> SUFFICES ASSUME NEW u \in Tasks, AtWork(u)' PROVE Holds(u)'
    BY DEF AtWorkHolds
  <2>1. AtWork(u) /\ Holds(u)
    BY DEF IInv, Shapes, AtWork, AtWorkHolds
  <2> QED
    BY <2>1, HeadStays DEF IInv, Shapes, Holds
<1>3. StartupFirst'
  BY DEF IInv, Shapes, StartupFirst
<1>4. (\A u \in Tasks : Running(u))'
  BY DEF IInv, Shapes, Running, Fresh
<1>5. ResolvingRuns'
  BY DEF IInv, Shapes, ResolvingRuns
<1> QED
  BY <1>1, <1>2, <1>3, <1>4, <1>5 DEF IInv

\* A refresh changes the list and the generation. No command runs meanwhile: its
\* task would be the head of the queue too.
LEMMA RefreshIInv ==
  ASSUME IInv, NEW t \in Tasks, Refresh(t)
  PROVE  IInv'
<1> USE DEF Refresh, Goto, locks, scanVars
<1>1. Shapes'
  BY DEF IInv, Shapes, Pcs
<1>2. AtWorkHolds'
  BY DEF IInv, Shapes, AtWorkHolds, AtWork, Holds
<1>3. StartupFirst'
  BY DEF IInv, Shapes, StartupFirst
<1>4. \A u \in Tasks : pc[u] # "run"
  BY DEF IInv, AtWorkHolds, AtWork, Holds
<1>5. (\A u \in Tasks : Running(u))'
  BY <1>4 DEF IInv, Shapes, Running
<1>6. ResolvingRuns'
  BY <1>4 DEF IInv, Shapes, ResolvingRuns
<1> QED
  BY <1>1, <1>2, <1>3, <1>5, <1>6 DEF IInv

\* A task at work goes from one step to another, other than to or from running
\* a command, and no status becomes resolving.
LEMMA AtWorkStep ==
  ASSUME IInv, NEW t \in Tasks, AtWork(t), pc[t] \notin {"run", "initialize"},
         NEW to \in {"libraries", "stage3"}, Goto(t, to),
         UNCHANGED <<queue, cli, command, projects, generation, scan>>, NoneResolves
  PROVE  IInv'
<1> USE DEF Goto
<1>1. Shapes'
  BY DEF IInv, Shapes, Pcs, NoneResolves
<1>2. AtWorkHolds'
  BY DEF IInv, Shapes, AtWorkHolds, AtWork, Holds
<1>3. StartupFirst'
  BY DEF IInv, Shapes, StartupFirst
<1>4. (\A u \in Tasks : Running(u))'
  BY DEF IInv, Shapes, Running, Fresh
<1>5. ResolvingRuns'
  BY DEF IInv, Shapes, ResolvingRuns, NoneResolves
<1> QED
  BY <1>1, <1>2, <1>3, <1>4, <1>5 DEF IInv

\* The steps that apply the difference and route stage 2.
LEMMA ApplyIInv ==
  ASSUME IInv, NEW t \in Tasks,
         IndexSources(t) \/ DiffLibraries(t) \/ RouteStage2(t) \/ ForceStage3(t)
  PROVE  IInv'
<1>1. CASE IndexSources(t)
  <2>1. Goto(t, "stage3") \/ Goto(t, "libraries")
    BY <1>1 DEF IndexSources
  <2> QED
    BY <1>1, <2>1, AtWorkStep, SameStatus DEF IndexSources, AtWork, locks, scanVars
<1>2. CASE DiffLibraries(t)
  <2>1. PICK ps \in SUBSET Projects : status' = Stage2Statuses(ps)
    BY <1>2 DEF DiffLibraries, Added, Reverted, Listed
  <2> QED
    BY <1>2, <2>1, AtWorkStep, Stage2NotResolving DEF DiffLibraries, AtWork, locks, scanVars
<1>3. CASE RouteStage2(t)
  <2>1. PICK ps \in SUBSET Projects : status' = Stage2Statuses(ps)
    <3> DEFINE owners == {OwningProject(f[2]) : f \in {g \in job[t].files : g[1] = "cpcache"}}
               stale  == {p \in (Manifests(t) \cap Listed(projects)) \cup owners :
                            entries[p] # cache[p]}
    <3>1. status' = Stage2Statuses(stale)
      BY <1>3 DEF RouteStage2
    <3>2. Stage2Statuses(stale) = Stage2Statuses(stale \cap Projects)
      BY DEF Stage2Statuses
    <3> QED
      BY <3>1, <3>2
  <2> QED
    BY <1>3, <2>1, QuietStep, SameScan, Stage2NotResolving DEF RouteStage2, locks, scanVars
<1>4. CASE ForceStage3(t)
  <2>1. PICK ps \in SUBSET Projects : status' = Stage2Statuses(ps)
    BY <1>4 DEF ForceStage3, Reverted, Listed
  <2> QED
    BY <1>4, <2>1, QuietStep, SameScan, Stage2NotResolving DEF ForceStage3, locks, scanVars
<1> QED
  BY <1>1, <1>2, <1>3, <1>4

\* A command begins: on what the list says now, and no other runs.
LEMMA BeginStage3IInv ==
  ASSUME IInv, NEW t \in Tasks, NEW p \in Projects, BeginStage3(t, p)
  PROVE  IInv'
<1> USE DEF BeginStage3, Goto, scanVars
<1>1. CASE UNCHANGED <<cli, status, command, pc>>
  BY <1>1, QuietStep, SameStatus, SameScan
<1>2. CASE ~UNCHANGED <<cli, status, command, pc>>
  <2>1. /\ Active(projects[p])
        /\ cli' = t
        /\ status' = [status EXCEPT ![p] = "resolving"]
        /\ command' = [command EXCEPT ![t] = [project |-> p, cmd |-> projects[p].cmd,
                                              gen |-> generation, manifest |-> manifest[p]]]
        /\ pc' = [pc EXCEPT ![t] = "run"]
    BY <1>2
  <2>2. UNCHANGED <<queue, projects, generation, scan>> /\ pc[t] = "stage3"
    OBVIOUS
  <2>3. \A u \in Tasks : pc[u] # "run"
    BY <2>2, OneAtWork DEF IInv, AtWork
  <2> HIDE DEF BeginStage3, Goto, scanVars
  <2>4. Shapes'
    BY <2>1, <2>2 DEF IInv, Shapes, Pcs
  <2>5. AtWorkHolds' /\ StartupFirst'
    BY <2>1, <2>2 DEF IInv, Shapes, AtWorkHolds, AtWork, Holds, StartupFirst
  <2>6. Running(t)'
    BY <2>1, <2>2 DEF IInv, Shapes, Running, Fresh
  <2>7. (\A u \in Tasks : Running(u))'
    BY <2>1, <2>3, <2>6 DEF IInv, Shapes, Running
  <2>8. ResolvingRuns'
    BY <2>1, <2>3 DEF IInv, Shapes, ResolvingRuns
  <2> QED
    BY <2>4, <2>5, <2>7, <2>8 DEF IInv
<1> QED
  BY <1>1, <1>2

\* A command ends. Its answer or failure is not stale, so that its project does
\* not stay resolving.
LEMMA EndStage3IInv ==
  ASSUME IInv, NEW t \in Tasks, EndStage3(t)
  PROVE  IInv'
<1> DEFINE q == command[t].project
<1>1. /\ pc[t] = "run"
      /\ pc' = [pc EXCEPT ![t] = "stage3"]
      /\ command' = [command EXCEPT ![t] = NoCommand]
      /\ UNCHANGED <<queue, projects, generation, scan>>
  BY DEF EndStage3, CommandFails, CommandAnswers, Goto, scanVars
<1>2. Fresh(t) /\ q \in Projects
  BY <1>1 DEF IInv, Running
<1>3. PICK st \in {"error", "resolved"} : status' = [status EXCEPT ![q] = st]
  BY <1>2 DEF EndStage3, CommandFails, CommandAnswers
<1>4. \A u \in Tasks : pc[u] = "run" => u = t
  BY <1>1, OneAtWork DEF IInv, AtWork
<1> HIDE DEF q
<1>5. Shapes'
  BY <1>1, <1>2, <1>3 DEF IInv, Shapes, Pcs
<1>6. AtWorkHolds' /\ StartupFirst'
  BY <1>1 DEF IInv, Shapes, AtWorkHolds, AtWork, Holds, StartupFirst
<1>7. (\A u \in Tasks : Running(u))'
  BY <1>1, <1>4 DEF IInv, Shapes, Running
<1>8. ResolvingRuns'
  <2> SUFFICES ASSUME NEW p \in Projects, status'[p] = "resolving" PROVE FALSE
    BY DEF ResolvingRuns
  <2>1. p # q /\ status[p] = "resolving"
    BY <1>2, <1>3 DEF IInv, Shapes
  <2>2. command[t].project = p
    BY <1>4, <2>1 DEF IInv, ResolvingRuns
  <2> QED
    BY <2>1, <2>2 DEF q
<1> QED
  BY <1>5, <1>6, <1>7, <1>8 DEF IInv

\* The lock is given up: no one else is at work until the next is served.
LEMMA ReleaseIInv ==
  ASSUME IInv, NEW t \in Tasks, Release(t)
  PROVE  IInv'
<1>1. /\ pc[t] = "stage3"
      /\ queue' = Tail(queue)
      /\ pc' = [pc EXCEPT ![t] = "free"]
      /\ UNCHANGED <<cli, command, projects, generation, status, scan>>
  BY DEF Release, Goto, shared, scanVars
<1>2. \A u \in Tasks : AtWork(u) => u = t
  BY <1>1, OneAtWork DEF IInv, AtWork
<1>3. Shapes'
  <2>1. Holds(t)
    BY <1>1 DEF IInv, AtWorkHolds, AtWork
  <2> QED
    BY <1>1, <2>1 DEF IInv, Shapes, Pcs, Holds
<1>4. \A u \in Tasks : ~AtWork(u)'
  BY <1>1, <1>2 DEF IInv, Shapes, AtWork
<1>5. AtWorkHolds' /\ (\A u \in Tasks : Running(u))'
  BY <1>4 DEF AtWorkHolds, AtWork, Running
<1>6. StartupFirst'
  BY <1>1 DEF IInv, Shapes, StartupFirst
<1>7. ResolvingRuns'
  BY <1>1, <1>2 DEF IInv, Shapes, AtWork, ResolvingRuns
<1> QED
  BY <1>3, <1>5, <1>6, <1>7 DEF IInv

-----------------------------------------------------------------------------
\* Startup sets its list while it holds the lock and no command can run.
LEMMA StartupResolveIInv ==
  ASSUME IInv, StartupResolve
  PROVE  IInv'
<1> USE PipelineAssumption
<1>1. /\ scan.at = "resolve"
      /\ pc' = [pc EXCEPT ![Startup] = "stage2"]
      /\ UNCHANGED <<queue, cli, command, generation>>
  BY DEF StartupResolve, Goto, locks
<1>2. /\ scan' = [at |-> "load", list |-> scan'.list, found |-> scan'.found]
      /\ status' = [p \in Projects |-> status'[p]]
      /\ \A p \in Projects : status'[p] # "resolving"
  BY DEF StartupResolve, IInv, Shapes
<1>3. pc[Startup] = "initialize" /\ AtWork(Startup)
  BY <1>1 DEF IInv, StartupFirst, AtWork
<1>4. \A u \in Tasks : pc[u] # "run"
  BY <1>3, OneAtWork DEF IInv, AtWork
<1>5. Shapes'
  BY <1>1, <1>2 DEF IInv, Shapes, Pcs
<1>6. AtWorkHolds'
  BY <1>1, <1>3 DEF IInv, Shapes, AtWorkHolds, AtWork, Holds
<1>7. StartupFirst'
  BY <1>2 DEF StartupFirst
<1>8. (\A u \in Tasks : Running(u))' /\ ResolvingRuns'
  BY <1>1, <1>2, <1>4 DEF IInv, Shapes, Running, ResolvingRuns
<1> QED
  BY <1>5, <1>6, <1>7, <1>8 DEF IInv

\* The rest of startup: stage 2, under the lock, and the scan, without.
LEMMA StartupIInv ==
  ASSUME IInv, StartupStep
  PROVE  IInv'
<1>1. CASE StartupResolve
  BY <1>1, StartupResolveIInv
<1>2. CASE StartupStage2
  <2>1. PICK ps \in SUBSET Projects : status' = Stage2Statuses(ps)
    BY <1>2 DEF StartupStage2, Listed
  <2> QED
    BY <1>2, <2>1, PipelineAssumption, AtWorkStep, Stage2NotResolving
       DEF StartupStage2, AtWork, locks, scanVars
<1>3. CASE StartupLoad \/ StartupWalk \/ StartupMerge
  <2>1. ScanMoves
    BY <1>3 DEF StartupLoad, StartupWalk, StartupMerge, IInv, Shapes, ScanMoves
  <2> QED
    BY <1>3, <2>1, QuietStep, SameStatus
       DEF StartupLoad, StartupWalk, StartupMerge, shared, locks, taskVars
<1> QED
  BY <1>1, <1>2, <1>3 DEF StartupStep

\* Every step preserves the inductive invariant.
LEMMA StepIInv == IInv /\ [Next]_vars => IInv'
<1> SUFFICES ASSUME IInv, [Next]_vars PROVE IInv'
  OBVIOUS
<1>1. CASE UserInput \/ \E t \in Tasks \ {Startup} : Report(t)
  BY <1>1, OutsideIInv
<1>2. ASSUME NEW t \in Tasks, TaskStep(t) PROVE IInv'
  BY <1>2, AskLockIInv, RefreshIInv, ApplyIInv, BeginStage3IInv, EndStage3IInv, ReleaseIInv
     DEF TaskStep
<1>3. CASE StartupStep
  BY <1>3, StartupIInv
<1>4. CASE UNCHANGED vars
  BY <1>4, QuietStep, SameStatus, SameScan DEF vars, shared, locks, taskVars, scanVars
<1> QED
  BY <1>1, <1>2, <1>3, <1>4 DEF Next

\* The inductive invariant holds in every reachable state.
LEMMA AlwaysIInv == Spec => []IInv
  BY InitIInv, StepIInv, PTL DEF Spec

\* The list never changes under a classpath command: however many applications
\* are asked for while it runs, its answer is never stale, and it is the only one
\* (the guard at the end of run_stage3_project never discards a result).
THEOREM AnswersNeverStale == Spec => []Stage3NeverStale
<1>1. IInv => Stage3NeverStale
  BY DEF IInv, Running, AtWorkHolds, AtWork, Stage3NeverStale
<1> QED
  BY <1>1, AlwaysIInv, PTL

\* A project is shown as resolving only while its command runs.
THEOREM ResolvingEnds == Spec => []ResolvingIsRunning
<1>1. IInv => ResolvingIsRunning
  BY DEF IInv, ResolvingRuns, ResolvingIsRunning
<1> QED
  BY <1>1, AlwaysIInv, PTL

-----------------------------------------------------------------------------
(***************************************************************************)
(* The libraries. Between two diffs the list has an entry per project and  *)
(* the library sources are the union of the entries. During a diff, the    *)
(* entries are those of the projects that were in the old list too, and    *)
(* the union is either still right or marked as pruned, so that the diff   *)
(* rebuilds it.                                                            *)
(***************************************************************************)

\* t is between its refresh and the end of its diffs, with the old list in hand.
Diffing(t) == pc[t] \in {"sources", "libraries"}

\* The root project is listed from the moment startup has set the list.
Rooted ==
  /\ scan.list[Root] # None
  /\ scan.at # "resolve" => projects[Root] # None

\* Every listed project has an entry; during t's diff, every one the old list had.
Entered == \A p \in Projects : projects[p] # None => entries[p] # None
EnteredSince(t) ==
  \A p \in Projects : entries[p] # None <=> job[t].old[p] # None /\ projects[p] # None

\* Startup sets the list with empty entries.
StartsEmpty ==
  pc[Startup] \in {"initialize", "stage2"} => \A p \in Projects : entries[p] \in {None, Empty}

EntriesKept ==
  /\ ~MidDiff => Entered
  /\ \A t \in Tasks : Diffing(t) => EnteredSince(t)
  /\ StartsEmpty

\* The union, and during a diff either the union or a diff that must rebuild it.
LibsHeld == libs = Union(projects, entries)
LibsKept ==
  /\ LibsAreUnion
  /\ \A t \in Tasks : Diffing(t) => IF job[t].pruned THEN Changed(t) ELSE LibsHeld

\* The invariant of the lists.
LInv == IInv /\ TypeOK /\ Rooted /\ EntriesKept /\ LibsKept

\* Only one application is at work at a time.
LEMMA Alone ==
  ASSUME IInv, NEW t \in Tasks, AtWork(t), NEW u \in Tasks, u # t
  PROVE  ~AtWork(u)
BY OneAtWork DEF IInv

\* What a task in stage 3 may rely on: the list has its entries, the libraries are
\* their union, startup has set the list and nobody else is at work.
LEMMA StageThree ==
  ASSUME LInv, NEW t \in Tasks, pc[t] \in {"stage3", "run"}
  PROVE  /\ ~MidDiff /\ Entered /\ LibsHeld
         /\ scan.at # "resolve" /\ projects[Root] # None
         /\ \A u \in Tasks \ {t} : ~AtWork(u)
<1>1. AtWork(t)
  BY DEF AtWork
<1>2. \A u \in Tasks \ {t} : ~AtWork(u)
  BY <1>1, Alone DEF LInv
<1>3. ~MidDiff
  BY <1>2 DEF MidDiff, AtWork
<1>4. scan.at # "resolve"
  BY <1>2, PipelineAssumption DEF AtWork, LInv, IInv, StartupFirst
<1> QED
  BY <1>2, <1>3, <1>4 DEF LInv, Rooted, EntriesKept, LibsKept, LibsAreUnion, LibsHeld

\* A step that leaves the list, the entries and the libraries alone keeps both facts.
LEMMA ListsStay ==
  ASSUME LInv, UNCHANGED <<projects, entries, libs>>,
         \A t \in Tasks : /\ Diffing(t) <=> Diffing(t)'
                          /\ Diffing(t) => UNCHANGED job[t],
         pc'[Startup] \in {"initialize", "stage2"} => pc[Startup] \in {"initialize", "stage2"}
  PROVE  EntriesKept' /\ LibsKept'
<1>1. MidDiff' <=> MidDiff
  BY DEF MidDiff, Diffing
<1>2. EntriesKept'
  BY <1>1 DEF LInv, EntriesKept, Entered, EnteredSince, StartsEmpty, Diffing
<1>3. LibsKept'
  BY <1>1 DEF LInv, LibsKept, LibsAreUnion, LibsHeld, Union, Listed, Changed, Diffing
<1> QED
  BY <1>2, <1>3

\* A diff that ends with an entry per listed project and the union rebuilt.
LEMMA DiffEnds ==
  ASSUME NEW t \in Tasks, \A u \in Tasks \ {t} : ~AtWork(u)',
         pc'[t] \in {"stage3", "run", "free"}, Entered', LibsHeld'
  PROVE  EntriesKept' /\ LibsKept'
<1>1. \A u \in Tasks : ~Diffing(u)'
  BY DEF Diffing, AtWork
<1>2. pc'[Startup] \notin {"initialize", "stage2"}
  BY PipelineAssumption DEF AtWork
<1> QED
  BY <1>1, <1>2 DEF EntriesKept, LibsKept, LibsAreUnion, LibsHeld, StartsEmpty, Diffing

\* The types of the shared state after a step that changes entries and statuses only.
LEMMA SharedStays ==
  ASSUME SharedTyped, UNCHANGED <<projects, generation, sources, config>>,
         entries' \in [Projects -> Classpaths \cup {None}],
         status' \in [Projects -> Statuses],
         libs' \subseteq Classpaths \ {Empty},
         \A p \in Projects : /\ projects[p] = None => entries'[p] = None
                             /\ entries'[p] = None <=> status'[p] = "none"
  PROVE  SharedTyped'
BY DEF SharedTyped

\* Taking the cached classpath of some listed projects keeps the types.
LEMMA Stage2Typed ==
  ASSUME OutsideTyped, SharedTyped, NEW ps \in SUBSET Listed(projects),
         entries' = Stage2Entries(ps), status' = Stage2Statuses(ps), UNCHANGED projects
  PROVE  /\ entries' \in [Projects -> Classpaths \cup {None}]
         /\ status' \in [Projects -> Statuses]
         /\ \A p \in Projects : /\ projects'[p] = None => entries'[p] = None
                                /\ entries'[p] = None <=> status'[p] = "none"
<1>1. \A p \in ps : p \in Projects /\ projects[p] # None /\ cache[p] \in Classpaths
  BY DEF Listed, OutsideTyped
<1>2. \A p \in ps : Stage2Status(cache[p]) \in Statuses \ {"none"}
  BY DEF Stage2Status, Statuses
<1>3. entries' \in [Projects -> Classpaths \cup {None}] /\ status' \in [Projects -> Statuses]
  BY <1>1, <1>2 DEF SharedTyped, Stage2Entries, Stage2Statuses
<1> QED
  BY <1>1, <1>2, <1>3, PipelineAssumption DEF SharedTyped, Stage2Entries, Stage2Statuses

\* A union of entries is a set of classpaths, never the empty one.
LEMMA UnionTyped ==
  ASSUME NEW list, NEW es \in [Projects -> Classpaths \cup {None}]
  PROVE  Union(list, es) \subseteq Classpaths \ {Empty}
BY DEF Union, Listed

\* Types: the refresh.
LEMMA RefreshTyped ==
  ASSUME LInv, NEW t \in Tasks, Refresh(t)
  PROVE  TasksTyped'
<1>1. job[t] \in Jobs /\ projects \in [Projects -> Settings \cup {None}] /\ Pruned \in BOOLEAN
  BY DEF LInv, TypeOK, TasksTyped, SharedTyped, Pruned
<1>2. job' = [job EXCEPT ![t] = [job[t] EXCEPT !.old = projects, !.pruned = Pruned]]
  BY DEF Refresh, LInv, TypeOK, TasksTyped
<1>3. [job[t] EXCEPT !.old = projects, !.pruned = Pruned] \in Jobs
  BY <1>1 DEF Jobs
<1> QED
  BY <1>2, <1>3 DEF LInv, TypeOK, TasksTyped, Refresh, Goto, Pcs, locks

\* Types: the diff of the libraries.
LEMMA DiffLibrariesTyped ==
  ASSUME LInv, NEW t \in Tasks, DiffLibraries(t)
  PROVE  SharedTyped' /\ TasksTyped'
<1>1. PICK ps \in SUBSET Listed(projects) :
          /\ entries' = Stage2Entries(ps)
          /\ status' = Stage2Statuses(ps)
          /\ libs' = Union(projects, entries') \/ libs' = libs \cup ({cache[p] : p \in Added(t)} \ {Empty})
  BY DEF DiffLibraries, Added, Reverted
<1>2. {cache[p] : p \in Added(t)} \subseteq Classpaths
  BY DEF LInv, TypeOK, OutsideTyped, Added, Listed
<1>3. SharedTyped'
  <2>1. UNCHANGED <<projects, generation, sources, config>>
    BY DEF DiffLibraries
  <2>2. /\ entries' \in [Projects -> Classpaths \cup {None}]
        /\ status' \in [Projects -> Statuses]
        /\ \A p \in Projects : /\ projects'[p] = None => entries'[p] = None
                               /\ entries'[p] = None <=> status'[p] = "none"
    <3>1. OutsideTyped /\ SharedTyped
      BY DEF LInv, TypeOK
    <3>2. entries' = Stage2Entries(ps) /\ status' = Stage2Statuses(ps)
      BY <1>1
    <3> QED
      BY <2>1, <3>1, <3>2, Stage2Typed
  <2>3. libs' \subseteq Classpaths \ {Empty}
    BY <1>1, <1>2, <2>2, UnionTyped DEF LInv, TypeOK, SharedTyped
  <2> QED
    BY <2>1, <2>2, <2>3 DEF LInv, TypeOK, SharedTyped
<1>4. Stage3Runs(t) \subseteq Projects
  BY DEF Stage3Runs, Listed
<1>5. TasksTyped'
  BY <1>4 DEF LInv, TypeOK, TasksTyped, Goto, Pcs, DiffLibraries, locks
<1> QED
  BY <1>3, <1>5

\* Types: a classpath command starts.
LEMMA BeginStage3Typed ==
  ASSUME LInv, NEW t \in Tasks, NEW p \in Projects, BeginStage3(t, p)
  PROVE  SharedTyped' /\ TasksTyped'
<1>1. projects \in [Projects -> Settings \cup {None}] /\ generation \in Nat /\ manifest \in [Projects -> Nat]
  BY DEF LInv, TypeOK, SharedTyped, OutsideTyped
<1>2. todo' \in [Tasks -> SUBSET Projects] /\ ran' \in [Tasks -> SUBSET Projects]
  BY DEF LInv, TypeOK, TasksTyped, BeginStage3
<1>3. CASE Active(projects[p]) /\ HasManifest(p)
  <2>1. [project |-> p, cmd |-> projects[p].cmd, gen |-> generation, manifest |-> manifest[p]]
          \in Commands
    BY <1>1, <1>3 DEF Commands, Active, Settings
  <2>2. entries[p] # None
    BY <1>3, StageThree DEF BeginStage3, Active, Entered
  <2>3. SharedTyped'
    BY <1>3, <2>2 DEF LInv, TypeOK, SharedTyped, BeginStage3, Statuses
  <2>4. TasksTyped'
    BY <1>2, <1>3, <2>1 DEF LInv, TypeOK, TasksTyped, BeginStage3, Goto, Pcs
  <2> QED
    BY <2>3, <2>4
<1>4. CASE ~(Active(projects[p]) /\ HasManifest(p))
  BY <1>2, <1>4 DEF LInv, TypeOK, SharedTyped, TasksTyped, BeginStage3
<1> QED
  BY <1>3, <1>4

\* What is so when a classpath command ends: its project is listed, with the command
\* that ran and an entry to replace.
LEMMA Answer ==
  ASSUME LInv, NEW t \in Tasks, pc[t] = "run"
  PROVE  /\ Fresh(t) /\ command[t].project \in Listed(projects)
         /\ entries[command[t].project] # None
         /\ command[t].cmd \in Cmds /\ command[t].manifest \in Nat
<1>1. Fresh(t) /\ command[t].project \in Projects
  BY DEF LInv, IInv, Running
<1> QED
  BY <1>1, StageThree DEF LInv, TypeOK, TasksTyped, SharedTyped, Commands, Settings, Fresh, Active, Listed, Entered

\* Types: a classpath command ends, with an answer or without.
LEMMA EndStage3Typed ==
  ASSUME LInv, NEW t \in Tasks, EndStage3(t)
  PROVE  OutsideTyped' /\ SharedTyped'
<1> DEFINE q == command[t].project
<1>1. pc[t] = "run"
  BY DEF EndStage3, CommandFails, CommandAnswers
<1>2. /\ Fresh(t) /\ q \in Projects /\ projects[q] # None /\ entries[q] # None
      /\ command[t].cmd \in Cmds /\ command[t].manifest \in Nat
  BY <1>1, Answer DEF Listed
<1>3. CASE CommandFails(t)
  BY <1>2, <1>3 DEF LInv, TypeOK, OutsideTyped, SharedTyped, EndStage3, CommandFails, Statuses, Listed
<1>4. CASE CommandAnswers(t)
  <2>1. PICK m \in {command[t].manifest, manifest[q]} :
       LET cp == [by |-> command[t].cmd, manifest |-> m]
           es == [entries EXCEPT ![q] = cp]
       IN  /\ \/ UNCHANGED <<cache, pending>>
              \/ /\ cache' = [cache EXCEPT ![q] = cp]
                 /\ pending' = pending \cup {<<"cpcache", q>>}
           /\ entries' = es
           /\ status' = [status EXCEPT ![q] = "resolved"]
           /\ libs' = Union(projects, es) \/ libs' = libs
    BY <1>2, <1>4 DEF CommandAnswers
  <2> DEFINE cp == [by |-> command[t].cmd, manifest |-> m]
             es == [entries EXCEPT ![q] = cp]
  <2>2. cp \in Classpaths
    BY <1>2 DEF Classpaths, LInv, TypeOK, OutsideTyped
  <2>3. OutsideTyped'
    BY <1>2, <2>1, <2>2 DEF LInv, TypeOK, OutsideTyped, EndStage3, Files, Listed
  <2>4. es \in [Projects -> Classpaths \cup {None}] /\ Union(projects, es) \subseteq Classpaths \ {Empty}
    BY <1>2, <2>2, UnionTyped DEF LInv, TypeOK, SharedTyped
  <2>5. cp # None
    BY <2>2, PipelineAssumption
  <2>6. /\ entries' = es
        /\ status' = [status EXCEPT ![q] = "resolved"]
        /\ libs' \subseteq Classpaths \ {Empty}
    BY <2>1, <2>4 DEF LInv, TypeOK, SharedTyped
  <2> HIDE DEF q, cp
  <2>7. \A p \in Projects : /\ projects[p] = None => entries'[p] = None
                            /\ entries'[p] = None <=> status'[p] = "none"
    BY <1>2, <2>5, <2>6 DEF LInv, TypeOK, SharedTyped
  <2>8. UNCHANGED <<projects, generation, sources, config>>
    BY DEF EndStage3
  <2>9. /\ entries' \in [Projects -> Classpaths \cup {None}]
        /\ status' \in [Projects -> Statuses]
    BY <2>4, <2>6 DEF LInv, TypeOK, SharedTyped, Statuses
  <2> HIDE DEF es
  <2>10. SharedTyped'
    BY <2>6, <2>7, <2>8, <2>9, SharedStays DEF LInv, TypeOK
  <2> QED
    BY <2>3, <2>10
<1> QED
  BY <1>3, <1>4 DEF EndStage3

\* The project that owns a changed file is listed, once the root is.
LEMMA Owners ==
  ASSUME NEW t \in Tasks, TypeOK, projects[Root] # None, NEW f \in job[t].files
  PROVE  OwningProject(f[2]) \in Listed(projects)
BY PipelineAssumption DEF TypeOK, TasksTyped, Jobs, Files, OwningProject, Listed

\* Types: the changed caches and manifests are routed.
LEMMA RouteStage2Typed ==
  ASSUME LInv, NEW t \in Tasks, RouteStage2(t)
  PROVE  SharedTyped' /\ TasksTyped'
<1> DEFINE owners == {OwningProject(f[2]) : f \in {g \in job[t].files : g[1] = "cpcache"}}
           manifests == Manifests(t) \cap Listed(projects)
           stale == {p \in manifests \cup owners : entries[p] # cache[p]}
<1>1. owners \subseteq Listed(projects)
  BY Owners, StageThree DEF RouteStage2, DiffOver, LInv
<1>2. stale \subseteq Listed(projects)
  BY <1>1
<1> HIDE DEF owners
<1>3. /\ entries' = Stage2Entries(stale)
      /\ status' = Stage2Statuses(stale)
      /\ libs' = Union(projects, entries') \/ libs' = libs
      /\ todo' = [todo EXCEPT ![t] = manifests \ ran[t]]
  BY DEF RouteStage2, owners
<1> HIDE DEF stale
<1>4. SharedTyped'
  BY <1>2, <1>3, Stage2Typed, UnionTyped DEF LInv, TypeOK, SharedTyped, RouteStage2
<1>5. manifests \ ran[t] \in SUBSET Projects
  BY DEF Listed
<1>6. job' \in [Tasks -> Jobs]
  BY DEF LInv, TypeOK, TasksTyped, RouteStage2, DiffOver, Jobs
<1> HIDE DEF manifests
<1>7. TasksTyped'
  BY <1>3, <1>5, <1>6 DEF LInv, TypeOK, TasksTyped, RouteStage2, locks
<1> QED
  BY <1>4, <1>7

\* Types: every active project is run again after a change of configuration.
LEMMA ForceStage3Typed ==
  ASSUME LInv, NEW t \in Tasks, ForceStage3(t)
  PROVE  SharedTyped' /\ TasksTyped'
<1>1. PICK ps \in SUBSET Listed(projects) :
          /\ entries' = Stage2Entries(ps)
          /\ status' = Stage2Statuses(ps)
          /\ libs' = Union(projects, entries') \/ libs' = libs
  BY DEF ForceStage3, Reverted
<1>2. SharedTyped'
  BY <1>1, Stage2Typed, UnionTyped DEF LInv, TypeOK, SharedTyped, ForceStage3
<1>3. PICK ps2 \in SUBSET Projects : todo' = [todo EXCEPT ![t] = ps2]
  BY DEF ForceStage3, Listed
<1>4. job' \in [Tasks -> Jobs]
  BY DEF LInv, TypeOK, TasksTyped, ForceStage3, DiffOver, Jobs
<1>5. TasksTyped'
  BY <1>3, <1>4 DEF LInv, TypeOK, TasksTyped, ForceStage3, locks
<1> QED
  BY <1>2, <1>5

\* Types: the lock is given back.
LEMMA ReleaseTyped ==
  ASSUME LInv, NEW t \in Tasks, Release(t)
  PROVE  TasksTyped'
<1>1. Holds(t)
  BY DEF LInv, IInv, AtWorkHolds, AtWork, Release
<1>2. queue' \in Seq(Tasks)
  BY <1>1 DEF LInv, TypeOK, TasksTyped, Release, Holds
<1>3. NoJob \in Jobs
  BY DEF NoJob, Jobs
<1> QED
  BY <1>2, <1>3 DEF LInv, TypeOK, TasksTyped, Release, Goto, Pcs

\* Types: startup takes every cached classpath.
LEMMA StartupStage2Typed ==
  ASSUME LInv, StartupStage2
  PROVE  SharedTyped' /\ TasksTyped'
<1> DEFINE list == Listed(projects)
<1>1. /\ entries' = Stage2Entries(list)
      /\ status' = Stage2Statuses(list)
      /\ libs' = libs \cup ({cache[p] : p \in list} \ {Empty})
  BY DEF StartupStage2
<1>2. {cache[p] : p \in list} \subseteq Classpaths
  BY DEF LInv, TypeOK, OutsideTyped, Listed
<1>3. SharedTyped'
  BY <1>1, <1>2, Stage2Typed DEF LInv, TypeOK, SharedTyped, StartupStage2
<1>4. PICK ps \in SUBSET Projects : todo' = [todo EXCEPT ![Startup] = ps]
  BY DEF StartupStage2, Listed
<1>5. TasksTyped'
  BY <1>4, PipelineAssumption DEF LInv, TypeOK, TasksTyped, Goto, Pcs, StartupStage2, locks
<1> QED
  BY <1>3, <1>5

\* Types: the startup scan.
LEMMA StartupScanTyped ==
  ASSUME LInv, StartupLoad \/ StartupWalk \/ StartupMerge
  PROVE  ScanTyped'
<1>1. ScanOf(scan.list, config) \in Scanned
  BY DEF ScanOf, Scanned, LInv, TypeOK, OutsideTyped, SharedTyped
<1>2. [p \in Projects |-> None] \in Scanned
  BY DEF Scanned
<1>3. CASE StartupLoad
  BY <1>3 DEF StartupLoad, LInv, TypeOK, ScanTyped
<1>4. CASE StartupWalk
  BY <1>1, <1>4 DEF StartupWalk, LInv, TypeOK, ScanTyped
<1>5. CASE StartupMerge
  BY <1>2, <1>5 DEF StartupMerge, LInv, TypeOK, ScanTyped, Overtaken, SharedTyped
<1> QED
  BY <1>3, <1>4, <1>5

\* The refresh drops the entries of the projects that went; libraries they left are
\* noticed as pruned.
LEMMA RefreshLists ==
  ASSUME LInv, NEW t \in Tasks, Refresh(t)
  PROVE  EntriesKept' /\ LibsKept'
<1>1. \A u \in Tasks : ~AtWork(u)
  BY DEF LInv, IInv, AtWorkHolds, AtWork, Holds, Refresh
<1>2. Entered /\ LibsHeld /\ ~MidDiff
  BY <1>1 DEF LInv, EntriesKept, LibsKept, LibsAreUnion, LibsHeld, MidDiff, AtWork
<1>3. /\ pc' = [pc EXCEPT ![t] = "sources"]
      /\ projects' = wanted
      /\ entries' = [p \in Projects |-> IF p \in Gone THEN None ELSE entries[p]]
      /\ libs' = libs
      /\ job'[t].old = projects /\ job'[t].pruned = Pruned
  BY DEF Refresh, Goto, LInv, TypeOK, TasksTyped, Jobs
<1>4. \A u \in Tasks : Diffing(u)' <=> u = t
  BY <1>1, <1>3 DEF Diffing, AtWork, LInv, TypeOK, TasksTyped
<1>5. EnteredSince(t)'
  BY <1>2, <1>3 DEF EnteredSince, Entered, Gone, LInv, TypeOK, SharedTyped
<1>6. StartsEmpty'
  BY <1>1, <1>3, PipelineAssumption DEF StartsEmpty, AtWork, LInv, TypeOK, TasksTyped
<1>7. CASE Pruned
  <2>1. Changed(t)'
    BY <1>3, <1>7, <1>2 DEF Pruned, Gone, Changed, LInv, TypeOK, SharedTyped
  <2> QED
    BY <1>3, <1>4, <1>5, <1>6, <1>7, <2>1 DEF EntriesKept, LibsKept, LibsAreUnion, MidDiff, Diffing
<1>8. CASE ~Pruned
  <2>1. \A p \in Gone : entries[p] = Empty
    BY <1>8 DEF Pruned
  <2>2. \A p \in Projects \ Gone : wanted[p] = None => entries[p] = None
    BY DEF Gone
  <2>3. \A p \in Projects : projects[p] = None => entries[p] = None
    BY DEF LInv, TypeOK, SharedTyped
  <2>4. LibsHeld'
    BY <1>2, <1>3, <2>1, <2>2, <2>3 DEF LibsHeld, Union, Listed
  <2> QED
    BY <1>3, <1>4, <1>5, <1>6, <1>8, <2>4 DEF EntriesKept, LibsKept, LibsAreUnion, MidDiff, Diffing
<1> QED
  BY <1>7, <1>8

\* The diff of the sources ends early only when there is nothing to do for libraries.
LEMMA IndexSourcesLists ==
  ASSUME LInv, NEW t \in Tasks, IndexSources(t)
  PROVE  EntriesKept' /\ LibsKept'
<1>1. AtWork(t) /\ Diffing(t)
  BY DEF AtWork, Diffing, IndexSources
<1>2. \A u \in Tasks \ {t} : ~AtWork(u)
  BY <1>1, Alone DEF LInv
<1>3. UNCHANGED <<projects, entries, libs, job>>
  BY DEF IndexSources
<1>4. CASE pc' = [pc EXCEPT ![t] = "libraries"]
  BY <1>3, <1>4, <1>1, ListsStay, PipelineAssumption DEF Diffing, LInv, TypeOK, TasksTyped
<1>5. CASE pc' = [pc EXCEPT ![t] = "stage3"] /\ ~Changed(t)
  <2>1. EnteredSince(t) /\ LibsHeld
    BY <1>1, <1>5 DEF LInv, EntriesKept, LibsKept
  <2>2. Entered
    BY <1>5, <2>1 DEF Entered, EnteredSince, Changed
  <2>3. Entered' /\ LibsHeld'
    BY <1>3, <2>1, <2>2 DEF Entered, LibsHeld, Union, Listed
  <2>4. \A u \in Tasks \ {t} : ~AtWork(u)'
    BY <1>2, <1>5 DEF AtWork, LInv, TypeOK, TasksTyped
  <2> QED
    BY <1>5, <2>3, <2>4, DiffEnds DEF LInv, TypeOK, TasksTyped
<1> QED
  BY <1>4, <1>5 DEF IndexSources, Goto

\* The diff of the libraries gives an entry to each added project and rebuilds the
\* union, or extends it when nothing was taken away.
LEMMA DiffLibrariesLists ==
  ASSUME LInv, NEW t \in Tasks, DiffLibraries(t)
  PROVE  EntriesKept' /\ LibsKept'
<1> DEFINE revert == Reverted({p \in Stage3Runs(t) : WasActive(t, p)}, Stage2Statuses(Added(t)))
           rebuilt == job[t].pruned \/ \E p \in revert : cache[p] # entries[p]
<1>1. AtWork(t) /\ Diffing(t)
  BY DEF AtWork, Diffing, DiffLibraries
<1>2. \A u \in Tasks \ {t} : ~AtWork(u)
  BY <1>1, Alone DEF LInv
<1>3. /\ pc' = [pc EXCEPT ![t] = "stage3"] /\ projects' = projects
      /\ entries' = Stage2Entries(Added(t) \cup revert)
      /\ libs' = IF rebuilt THEN Union(projects, entries')
                 ELSE libs \cup ({cache[p] : p \in Added(t)} \ {Empty})
  BY DEF DiffLibraries, Goto
<1>4. revert \subseteq Listed(projects) /\ Added(t) \subseteq Listed(projects)
  BY DEF Reverted, Added
<1> HIDE DEF revert
<1>5. EnteredSince(t)
  BY <1>1 DEF LInv, EntriesKept
<1>6. \A p \in Projects : cache[p] # None
  BY PipelineAssumption DEF LInv, TypeOK, OutsideTyped
<1>7. Entered'
  BY <1>3, <1>5, <1>6 DEF Entered, EnteredSince, Stage2Entries, Added, Listed
<1>8. LibsHeld'
  <2>1. CASE rebuilt
    BY <1>3, <2>1 DEF LibsHeld
  <2>2. CASE ~rebuilt
    <3>1. libs = Union(projects, entries)
      BY <1>1, <2>2 DEF LInv, LibsKept, LibsHeld
    <3>2. \A p \in revert : cache[p] = entries[p]
      BY <2>2
    <3>3. libs' = libs \cup ({cache[p] : p \in Added(t)} \ {Empty})
      BY <1>3, <2>2
    <3>4. \A p \in Added(t) : entries[p] = None
      BY <1>5 DEF EnteredSince, Added, Listed
    <3>5. \A p \in Projects : entries'[p] = IF p \in Added(t) THEN cache[p] ELSE entries[p]
      BY <1>3, <3>2 DEF Stage2Entries
    <3>6. Added(t) \subseteq Listed(projects) /\ projects' = projects
      BY <1>3, <1>4
    <3> HIDE DEF rebuilt
    <3>7. Union(projects, entries) =
            {entries[p] : p \in Listed(projects) \ Added(t)} \ {Empty, None}
      BY <3>4, <3>6 DEF Union
    <3>8. Union(projects, entries') =
            ({entries[p] : p \in Listed(projects) \ Added(t)} \ {Empty, None})
              \cup ({cache[p] : p \in Added(t)} \ {Empty})
      BY <1>6, <3>5, <3>6 DEF Union, Listed
    <3> QED
      BY <3>1, <3>3, <3>6, <3>7, <3>8 DEF LibsHeld
  <2> QED
    BY <2>1, <2>2
<1>9. \A u \in Tasks \ {t} : ~AtWork(u)'
  BY <1>2, <1>3 DEF AtWork, LInv, TypeOK, TasksTyped
<1> QED
  BY <1>3, <1>7, <1>8, <1>9, DiffEnds DEF LInv, TypeOK, TasksTyped

\* Starting a command leaves the lists alone.
LEMMA BeginStage3Lists ==
  ASSUME LInv, NEW t \in Tasks, NEW p \in Projects, BeginStage3(t, p)
  PROVE  EntriesKept' /\ LibsKept'
<1>1. UNCHANGED <<projects, entries, libs, job>> /\ pc[t] = "stage3"
  BY DEF BeginStage3
<1>2. pc' = pc \/ pc' = [pc EXCEPT ![t] = "run"]
  BY DEF BeginStage3, Goto
<1> QED
  BY <1>1, <1>2, ListsStay, PipelineAssumption DEF Diffing, LInv, TypeOK, TasksTyped

\* An answer replaces an entry and rebuilds the union when the entry differs.
LEMMA EndStage3Lists ==
  ASSUME LInv, NEW t \in Tasks, EndStage3(t)
  PROVE  EntriesKept' /\ LibsKept'
<1> DEFINE q == command[t].project
<1>1. pc[t] = "run" /\ pc' = [pc EXCEPT ![t] = "stage3"] /\ projects' = projects
  BY DEF EndStage3, CommandFails, CommandAnswers, Goto
<1>2. Fresh(t) /\ q \in Listed(projects)
  BY <1>1, Answer
<1>3. Entered /\ LibsHeld /\ \A u \in Tasks \ {t} : ~AtWork(u)
  BY <1>1, StageThree
<1>4. \/ UNCHANGED <<entries, libs>>
      \/ \E cp \in Classpaths : /\ entries' = [entries EXCEPT ![q] = cp]
                                /\ libs' = IF entries[q] # cp THEN Union(projects, entries') ELSE libs
  <2>1. CASE CommandFails(t)
    BY <2>1 DEF CommandFails
  <2>2. CASE CommandAnswers(t)
    <3>1. PICK m \in {command[t].manifest, manifest[q]} :
            LET cp == [by |-> command[t].cmd, manifest |-> m]
                es == [entries EXCEPT ![q] = cp]
            IN  /\ entries' = es
                /\ libs' = IF entries[q] # cp THEN Union(projects, es) ELSE libs
      BY <1>2, <2>2 DEF CommandAnswers
    <3>2. [by |-> command[t].cmd, manifest |-> m] \in Classpaths
      BY <1>1, Answer DEF Classpaths, LInv, TypeOK, OutsideTyped, Listed
    <3> QED
      BY <3>1, <3>2
  <2> QED
    BY <2>1, <2>2 DEF EndStage3
<1>5. q \in Projects /\ projects[q] # None
  BY <1>2 DEF Listed
<1> HIDE DEF q
<1>6. Entered'
  BY <1>1, <1>3, <1>4, <1>5, PipelineAssumption DEF Entered, LInv, TypeOK, SharedTyped
<1>7. LibsHeld'
  BY <1>1, <1>3, <1>4, <1>5 DEF LibsHeld, Union, Listed, LInv, TypeOK, SharedTyped
<1>8. \A u \in Tasks \ {t} : ~AtWork(u)'
  BY <1>1, <1>3 DEF AtWork, LInv, TypeOK, TasksTyped
<1> QED
  BY <1>1, <1>6, <1>7, <1>8, DiffEnds DEF LInv, TypeOK, TasksTyped

\* Putting listed projects back to their cached classpath, with the union rebuilt
\* when one differs.
LEMMA Stage2Keeps ==
  ASSUME LInv, NEW t \in Tasks, pc[t] = "stage3", NEW ps \in SUBSET Listed(projects),
         UNCHANGED <<pc, projects>>, entries' = Stage2Entries(ps),
         libs' = IF \E p \in ps : cache[p] # entries[p] THEN Union(projects, entries') ELSE libs
  PROVE  EntriesKept' /\ LibsKept'
<1>1. Entered /\ LibsHeld /\ \A u \in Tasks \ {t} : ~AtWork(u)
  BY StageThree
<1>2. \A p \in Projects : cache[p] # None
  BY PipelineAssumption DEF LInv, TypeOK, OutsideTyped
<1>3. Entered'
  BY <1>1, <1>2 DEF Entered, Stage2Entries
<1>4. LibsHeld'
  <2>1. CASE \E p \in ps : cache[p] # entries[p]
    BY <2>1 DEF LibsHeld
  <2>2. CASE \A p \in ps : cache[p] = entries[p]
    BY <1>1, <2>2 DEF LibsHeld, Stage2Entries, Union, Listed
  <2> QED
    BY <2>1, <2>2
<1> QED
  BY <1>1, <1>3, <1>4, DiffEnds DEF AtWork

\* Routing and the forced run put projects back to their cached classpath.
LEMMA PutBackLists ==
  ASSUME LInv, NEW t \in Tasks, RouteStage2(t) \/ ForceStage3(t)
  PROVE  EntriesKept' /\ LibsKept'
<1>1. pc[t] = "stage3" /\ UNCHANGED <<pc, projects>>
  BY DEF RouteStage2, ForceStage3, DiffOver
<1>2. CASE RouteStage2(t)
  <2> DEFINE owners == {OwningProject(f[2]) : f \in {g \in job[t].files : g[1] = "cpcache"}}
             manifests == Manifests(t) \cap Listed(projects)
             stale == {p \in manifests \cup owners : entries[p] # cache[p]}
  <2>1. owners \subseteq Listed(projects)
    BY <1>1, Owners, StageThree DEF LInv
  <2>2. stale \subseteq Listed(projects)
    BY <2>1
  <2>3. /\ entries' = Stage2Entries(stale)
        /\ libs' = IF stale # {} THEN Union(projects, entries') ELSE libs
    BY <1>2 DEF RouteStage2
  <2>4. stale # {} <=> \E p \in stale : cache[p] # entries[p]
    OBVIOUS
  <2> HIDE DEF stale
  <2> QED
    BY <1>1, <2>2, <2>3, <2>4, Stage2Keeps
<1>3. CASE ForceStage3(t)
  <2>1. PICK ps \in SUBSET Listed(projects) :
          /\ entries' = Stage2Entries(ps)
          /\ libs' = IF \E p \in ps : cache[p] # entries[p] THEN Union(projects, entries') ELSE libs
    BY <1>3 DEF ForceStage3, Reverted
  <2> QED
    BY <1>1, <2>1, Stage2Keeps
<1> QED
  BY <1>2, <1>3

\* Startup sets the list, with an empty entry for each project.
LEMMA StartupResolveLists ==
  ASSUME LInv, StartupResolve
  PROVE  EntriesKept' /\ LibsKept'
<1>1. pc[Startup] = "initialize" /\ AtWork(Startup)
  BY DEF LInv, IInv, StartupFirst, AtWork, StartupResolve
<1>2. \A u \in Tasks \ {Startup} : ~AtWork(u)
  BY <1>1, Alone, PipelineAssumption DEF LInv
<1>3. ~MidDiff
  BY <1>1, <1>2 DEF AtWork, MidDiff
<1>4. libs = {}
  BY <1>1, <1>3 DEF LInv, EntriesKept, StartsEmpty, LibsKept, LibsAreUnion, Union, Listed
<1>5. /\ pc' = [pc EXCEPT ![Startup] = "stage2"] /\ UNCHANGED libs
      /\ entries' = [p \in Projects |-> IF projects'[p] = None THEN None ELSE Empty]
  BY DEF StartupResolve, Goto
<1>6. \A u \in Tasks : ~Diffing(u)'
  BY <1>1, <1>2, <1>5 DEF Diffing, AtWork, LInv, TypeOK, TasksTyped
<1>7. Empty # None
  BY PipelineAssumption DEF Empty, Classpaths
<1>8. Entered' /\ StartsEmpty' /\ LibsHeld'
  BY <1>4, <1>5, <1>7 DEF Entered, StartsEmpty, LibsHeld, Union, Listed
<1> QED
  BY <1>6, <1>8 DEF EntriesKept, LibsKept, LibsAreUnion, LibsHeld, Diffing, MidDiff

\* Startup takes every cached classpath and adds them to the libraries.
LEMMA StartupStage2Lists ==
  ASSUME LInv, StartupStage2
  PROVE  EntriesKept' /\ LibsKept'
<1>1. AtWork(Startup) /\ pc[Startup] = "stage2"
  BY DEF AtWork, StartupStage2
<1>2. \A u \in Tasks \ {Startup} : ~AtWork(u)
  BY <1>1, Alone, PipelineAssumption DEF LInv
<1>3. ~MidDiff
  BY <1>1, <1>2 DEF AtWork, MidDiff
<1>4. libs = {}
  BY <1>1, <1>3 DEF LInv, EntriesKept, StartsEmpty, LibsKept, LibsAreUnion, Union, Listed
<1>5. /\ pc' = [pc EXCEPT ![Startup] = "stage3"] /\ projects' = projects
      /\ entries' = Stage2Entries(Listed(projects))
      /\ libs' = libs \cup ({cache[p] : p \in Listed(projects)} \ {Empty})
  BY DEF StartupStage2, Goto
<1>6. \A p \in Projects : cache[p] # None
  BY PipelineAssumption DEF LInv, TypeOK, OutsideTyped
<1>7. Entered' /\ LibsHeld'
  BY <1>4, <1>5, <1>6 DEF Entered, LibsHeld, Union, Listed, Stage2Entries
<1>8. \A u \in Tasks \ {Startup} : ~AtWork(u)'
  BY <1>2, <1>5 DEF AtWork, LInv, TypeOK, TasksTyped
<1> QED
  BY <1>5, <1>7, <1>8, DiffEnds, PipelineAssumption DEF LInv, TypeOK, TasksTyped

\* Variables that do not change keep their types.
LEMMA TypesStay ==
  ASSUME TypeOK
  PROVE  /\ UNCHANGED outside => OutsideTyped'
         /\ UNCHANGED shared => SharedTyped'
         /\ UNCHANGED <<locks, taskVars>> => TasksTyped'
         /\ UNCHANGED scanVars => ScanTyped'
<1>1. UNCHANGED outside => OutsideTyped'
  BY DEF TypeOK, OutsideTyped, outside, Listed
<1>2. UNCHANGED shared => SharedTyped'
  BY DEF TypeOK, SharedTyped, shared
<1>3. UNCHANGED <<locks, taskVars>> => TasksTyped'
  BY DEF TypeOK, TasksTyped, locks, taskVars
<1>4. UNCHANGED scanVars => ScanTyped'
  BY DEF TypeOK, ScanTyped, scanVars
<1> QED
  BY <1>1, <1>2, <1>3, <1>4

\* What a step has to keep, once the locks are known to be kept.
Kept == TypeOK' /\ Rooted' /\ EntriesKept' /\ LibsKept'

\* A step outside the server keeps the facts about the lists.
LEMMA OutsideKeeps ==
  ASSUME LInv, OutsideTyped', UNCHANGED <<shared, locks, taskVars, scanVars>>
  PROVE  Kept
<1>1. TypeOK'
  BY TypesStay DEF LInv, TypeOK
<1>2. UNCHANGED <<projects, entries, libs, job, pc, scan>>
  BY DEF shared, taskVars, scanVars
<1>3. Rooted'
  BY <1>2 DEF LInv, Rooted
<1>4. EntriesKept' /\ LibsKept'
  BY <1>2, ListsStay DEF Diffing
<1> QED
  BY <1>1, <1>3, <1>4 DEF Kept

\* So does a step that spawns a task.
LEMMA SpawnKeeps ==
  ASSUME LInv, OutsideTyped', NEW t \in Tasks \ {Startup}, NEW files \in SUBSET Files,
         NEW kind \in {"editor", "watch", "rescan"}, Spawn(t, kind, files),
         UNCHANGED <<shared, locks, scanVars>>
  PROVE  Kept
<1>1. [NoJob EXCEPT !.kind = kind, !.files = files] \in Jobs
  BY DEF NoJob, Jobs
<1>2. TasksTyped'
  BY <1>1 DEF LInv, TypeOK, TasksTyped, Spawn, Pcs, locks
<1>3. TypeOK'
  BY <1>2, TypesStay DEF LInv, TypeOK
<1>4. UNCHANGED <<projects, entries, libs, scan>>
  BY DEF shared, scanVars
<1>5. Rooted'
  BY <1>4 DEF LInv, Rooted
<1>6. /\ \A u \in Tasks : Diffing(u)' <=> Diffing(u)
      /\ \A u \in Tasks : Diffing(u) => UNCHANGED job[u]
      /\ UNCHANGED pc[Startup]
  BY PipelineAssumption DEF Diffing, Spawn, LInv, TypeOK, TasksTyped
<1>7. EntriesKept' /\ LibsKept'
  BY <1>4, <1>6, ListsStay
<1> QED
  BY <1>3, <1>5, <1>7 DEF Kept

\* So does every step of the user and every report of the client.
LEMMA UserKeeps ==
  ASSUME LInv, UserInput \/ \E t \in Tasks \ {Startup} : Report(t)
  PROVE  Kept
<1> USE DEF Change, MayWant, OutsideTyped, Listed
<1>1. ASSUME NEW t \in Tasks \ {Startup}, NEW p \in Projects, NEW c \in Choices[p],
             DidChangeConfiguration(t, p, c)
      PROVE Kept
  <2>1. OutsideTyped'
    BY <1>1, PipelineAssumption DEF LInv, TypeOK, DidChangeConfiguration
  <2> QED
    BY <1>1, <2>1, SpawnKeeps DEF DidChangeConfiguration
<1>2. ASSUME NEW t \in Tasks \ {Startup}, Rescan(t) PROVE Kept
  <2>1. OutsideTyped'
    BY <1>2, PipelineAssumption DEF LInv, TypeOK, Rescan
  <2> QED
    BY <1>2, <2>1, SpawnKeeps DEF Rescan
<1>3. ASSUME NEW t \in Tasks \ {Startup}, NEW files, DidChangeWatchedFiles(t, files) PROVE Kept
  <2>1. OutsideTyped' /\ files \in SUBSET Files
    BY <1>3 DEF LInv, TypeOK, DidChangeWatchedFiles
  <2> QED
    BY <1>3, <2>1, SpawnKeeps DEF DidChangeWatchedFiles
<1>4. ASSUME NEW p \in Projects, NEW c \in Choices[p], EditPulseConfig(p, c) PROVE Kept
  <2>1. OutsideTyped'
    BY <1>4, PipelineAssumption DEF LInv, TypeOK, EditPulseConfig, Files
  <2> QED
    BY <1>4, <2>1, OutsideKeeps DEF EditPulseConfig
<1>5. ASSUME NEW p \in Projects, NEW c \in Choices[p], EditManifest(p, c) PROVE Kept
  <2>1. OutsideTyped'
    BY <1>5, PipelineAssumption DEF LInv, TypeOK, EditManifest, Files
  <2> QED
    BY <1>5, <2>1, OutsideKeeps DEF EditManifest
<1>6. CASE EditKondoConfig
  <2>1. OutsideTyped'
    BY <1>6, PipelineAssumption DEF LInv, TypeOK, EditKondoConfig, Files
  <2> QED
    BY <1>6, <2>1, OutsideKeeps DEF EditKondoConfig
<1>7. ASSUME NEW p \in Projects, EditCache(p) PROVE Kept
  <2>1. OutsideTyped'
    BY <1>7, PipelineAssumption DEF LInv, TypeOK, EditCache, Files, Classpaths
  <2> QED
    BY <1>7, <2>1, OutsideKeeps DEF EditCache
<1> QED
  BY <1>1, <1>2, <1>3, <1>4, <1>5, <1>6, <1>7 DEF UserInput, Report

\* So does every step of a task.
LEMMA TaskKeeps ==
  ASSUME LInv, NEW t \in Tasks, TaskStep(t)
  PROVE  Kept
<1> USE DEF outside, shared, locks, taskVars, scanVars, LInv
<1>1. CASE AskLock(t)
  <2>1. TasksTyped'
    BY <1>1 DEF TypeOK, TasksTyped, AskLock, Goto, Pcs
  <2>2. EntriesKept' /\ LibsKept'
    BY <1>1, ListsStay, PipelineAssumption DEF TypeOK, TasksTyped, AskLock, Goto, Diffing
  <2> QED
    BY <1>1, <2>1, <2>2, TypesStay DEF Kept, TypeOK, Rooted, AskLock
<1>2. CASE Refresh(t)
  <2>1. SharedTyped'
    BY <1>2, PipelineAssumption
       DEF TypeOK, OutsideTyped, SharedTyped, ScanTyped, Refresh, Gone, Statuses
  <2>2. Rooted'
    BY <1>2 DEF Rooted, TypeOK, OutsideTyped, Refresh
  <2> QED
    BY <1>2, <2>1, <2>2, RefreshTyped, RefreshLists, TypesStay DEF Kept, TypeOK, Refresh
<1>3. CASE IndexSources(t)
  <2>1. ScanOf(projects, config) \in Scanned
    BY DEF ScanOf, Scanned, TypeOK, OutsideTyped, SharedTyped
  <2>2. SharedTyped'
    BY <1>3, <2>1 DEF TypeOK, SharedTyped, Scanned, IndexSources
  <2>3. TasksTyped'
    BY <1>3 DEF TypeOK, TasksTyped, IndexSources, Goto, Pcs
  <2> QED
    BY <1>3, <2>2, <2>3, IndexSourcesLists, TypesStay DEF Kept, TypeOK, Rooted, IndexSources
<1>4. CASE DiffLibraries(t)
  BY <1>4, DiffLibrariesTyped, DiffLibrariesLists, TypesStay DEF Kept, TypeOK, Rooted, DiffLibraries
<1>5. ASSUME NEW p \in Projects, BeginStage3(t, p) PROVE Kept
  BY <1>5, BeginStage3Typed, BeginStage3Lists, TypesStay DEF Kept, TypeOK, Rooted, BeginStage3
<1>6. CASE EndStage3(t)
  <2>1. NoCommand \in Commands
    BY DEF NoCommand, Commands
  <2>2. TasksTyped'
    BY <1>6, <2>1 DEF TypeOK, TasksTyped, EndStage3, Goto, Pcs
  <2> QED
    BY <1>6, <2>2, EndStage3Typed, EndStage3Lists, TypesStay DEF Kept, TypeOK, Rooted, EndStage3
<1>7. CASE RouteStage2(t)
  BY <1>7, RouteStage2Typed, PutBackLists, TypesStay DEF Kept, TypeOK, Rooted, RouteStage2
<1>8. CASE ForceStage3(t)
  BY <1>8, ForceStage3Typed, PutBackLists, TypesStay DEF Kept, TypeOK, Rooted, ForceStage3
<1>9. CASE Release(t)
  <2>1. EntriesKept' /\ LibsKept'
    BY <1>9, ListsStay, PipelineAssumption DEF TypeOK, TasksTyped, Release, Goto, Diffing
  <2> QED
    BY <1>9, <2>1, ReleaseTyped, TypesStay DEF Kept, TypeOK, Rooted, Release
<1> QED
  BY <1>1, <1>2, <1>3, <1>4, <1>5, <1>6, <1>7, <1>8, <1>9 DEF TaskStep

\* So does every step of startup.
LEMMA StartupKeeps ==
  ASSUME LInv, StartupStep
  PROVE  Kept
<1> USE DEF outside, shared, locks, taskVars, scanVars, LInv
<1>1. CASE StartupResolve
  <2>1. PICK list \in [Projects -> Settings \cup {None}] :
          /\ \A p \in Projects : list[p] \in {scan.list[p], wanted[p]}
          /\ projects' = list
          /\ entries' = [p \in Projects |-> IF list[p] = None THEN None ELSE Empty]
          /\ status' = [p \in Projects |-> IF list[p] = None THEN "none"
                                           ELSE IF list[p].enabled THEN "unresolved"
                                           ELSE "disabled"]
          /\ scan' = [scan EXCEPT !.at = "load", !.list = list]
    BY <1>1 DEF StartupResolve
  <2>2. Empty \in Classpaths /\ Empty # None
    BY PipelineAssumption DEF Empty, Classpaths
  <2>3. SharedTyped'
    BY <1>1, <2>1, <2>2 DEF TypeOK, SharedTyped, Statuses, StartupResolve
  <2>4. ScanTyped'
    BY <1>1, <2>1 DEF TypeOK, ScanTyped, StartupResolve
  <2>5. TasksTyped'
    BY <1>1, PipelineAssumption DEF TypeOK, TasksTyped, StartupResolve, Goto, Pcs
  <2>6. Rooted'
    BY <2>1, PipelineAssumption DEF TypeOK, OutsideTyped, ScanTyped, Rooted
  <2> QED
    BY <1>1, <2>3, <2>4, <2>5, <2>6, StartupResolveLists, TypesStay DEF Kept, TypeOK, StartupResolve
<1>2. CASE StartupStage2
  BY <1>2, StartupStage2Typed, StartupStage2Lists, TypesStay DEF Kept, TypeOK, Rooted, StartupStage2
<1>3. CASE StartupLoad \/ StartupWalk \/ StartupMerge
  <2>1. UNCHANGED <<projects, entries, status, libs, generation, job, pc>>
    BY <1>3 DEF StartupLoad, StartupWalk, StartupMerge
  <2>2. SharedTyped'
    BY <1>3 DEF TypeOK, OutsideTyped, SharedTyped, ScanTyped, StartupLoad, StartupWalk, StartupMerge
  <2>3. Rooted'
    BY <1>3 DEF Rooted, TypeOK, ScanTyped, StartupLoad, StartupWalk, StartupMerge
  <2>4. EntriesKept' /\ LibsKept'
    BY <2>1, ListsStay DEF Diffing
  <2>5. OutsideTyped' /\ TasksTyped'
    BY <1>3, TypesStay DEF StartupLoad, StartupWalk, StartupMerge
  <2> QED
    BY <1>3, <2>2, <2>3, <2>4, <2>5, StartupScanTyped DEF Kept, TypeOK
<1> QED
  BY <1>1, <1>2, <1>3 DEF StartupStep

\* Every step preserves the invariant of the lists.
LEMMA StepLInv == LInv /\ [Next]_vars => LInv'
<1> SUFFICES ASSUME LInv, [Next]_vars PROVE LInv'
  OBVIOUS
<1>1. IInv'
  BY StepIInv DEF LInv
<1>2. Kept
  <2>1. CASE UNCHANGED vars
    <3>1. OutsideTyped'
      BY <2>1, TypesStay DEF LInv, vars
    <3> QED
      BY <2>1, <3>1, OutsideKeeps DEF vars
  <2> QED
    BY <2>1, UserKeeps, TaskKeeps, StartupKeeps DEF Next
<1> QED
  BY <1>1, <1>2 DEF LInv, Kept

\* It holds at the start.
LEMMA InitLInv == Init => LInv
<1> SUFFICES ASSUME Init PROVE LInv
  OBVIOUS
<1> USE PipelineAssumption
<1>1. TypeOK
  <2>1. /\ NoJob \in Jobs /\ NoCommand \in Commands /\ Empty \in Classpaths
        /\ [p \in Projects |-> None] \in Scanned
    BY DEF NoJob, Jobs, NoCommand, Commands, Empty, Classpaths, Scanned
  <2>2. wanted \in [Projects -> Settings \cup {None}] /\ wanted[Root] # None
    BY DEF Init
  <2>3. OutsideTyped
    BY <2>1, <2>2 DEF Init, OutsideTyped
  <2>4. SharedTyped
    BY <2>1 DEF Init, SharedTyped, Statuses
  <2>5. TasksTyped
    BY <2>1 DEF Init, TasksTyped, Pcs
  <2>6. ScanTyped
    BY <2>1, <2>2 DEF Init, ScanTyped
  <2> QED
    BY <2>3, <2>4, <2>5, <2>6 DEF TypeOK
<1>2. Rooted
  BY DEF Init, Rooted
<1>3. EntriesKept
  BY DEF Init, EntriesKept, Entered, StartsEmpty, Diffing
<1>4. LibsKept
  BY DEF Init, LibsKept, LibsAreUnion, Union, Listed, Diffing
<1> QED
  BY InitIInv, <1>1, <1>2, <1>3, <1>4 DEF LInv

\* It holds in every reachable state.
LEMMA AlwaysLInv == Spec => []LInv
  BY InitLInv, StepLInv, PTL DEF Spec

\* The variables keep their types: a project that is not listed has no entry, a
\* project without an entry has no status, and the root is always listed.
THEOREM TypeCorrect == Spec => []TypeOK
<1>1. LInv => TypeOK
  BY DEF LInv
<1> QED
  BY <1>1, AlwaysLInv, PTL

\* Between two diffs the library sources are exactly the union of the classpaths of
\* the listed projects: a project that leaves takes with it what nobody else uses
\* (rebuild_libs, and the early returns that skip it).
THEOREM LibrariesAreTheUnion == Spec => []LibsAreUnion
<1>1. LInv => LibsAreUnion
  BY DEF LInv, LibsKept
<1> QED
  BY <1>1, AlwaysLInv, PTL

-----------------------------------------------------------------------------
(***************************************************************************)
(* Nothing asked is lost. Each fact QuietIsApplied wants at the end is     *)
(* weakened here by the work that is promised to make it true: a report    *)
(* the client has not sent, a task that has not begun, a run that is due.  *)
(* A quiet server has no such work, so the facts hold as they stand.       *)
(***************************************************************************)

\* A task that has not begun: what it was asked is still to be done.
Asked == {"spawned", "queued"}

\* The change of file f is to be reported, or is with a task at one of pcs.
Told(f, pcs) == f \in pending \/ \E t \in Tasks : pc[t] \in pcs /\ f \in job[t].files

\* What is promised: a refresh of the list, a reload of the settings, a scan of all
\* sources, the routing of p's cache, a run of p's command.
WillRefresh == pending # {} \/ \E t \in Tasks : pc[t] \in Asked
WillReload  == Told(<<"pulse", Root>>, Asked) \/ Told(<<"kondo", Root>>, Asked)
WillRescan  == \E f \in Files : f[1] # "cpcache" /\ Told(f, Asked \cup {"sources"})
WillRoute(p) ==
  \/ <<"cpcache", p>> \in pending
  \/ \E t \in Tasks : <<"cpcache", p>> \in job[t].files /\ job[t].phase = "diff"
WillRerun(p) ==
  \/ <<"manifest", p>> \in pending
  \/ \E t \in Tasks : \/ <<"manifest", p>> \in job[t].files /\ job[t].phase = "diff" /\ p \notin ran[t]
                      \/ p \in todo[t]

\* Only a watch report names files; a task's runs are of its stage 3.
JobsShape ==
  \A t \in Tasks :
    /\ job[t].files # {} => job[t].kind = "watch"
    /\ pc[t] = "free" => job[t].files = {}
    /\ pc[t] \notin {"stage3", "run"} => todo[t] = {} /\ ran[t] = {} /\ job[t].phase = "diff"

\* The list is the newest, or a refresh is promised; so for the settings.
ListComes ==
  \/ WillRefresh
  \/ IF scan.at = "resolve" THEN scan.list = wanted ELSE projects = wanted

ConfigComes == config = settings \/ WillReload \/ scan.at \in {"resolve", "load"}

\* The sources are what a scan of the list now finds, or a scan is promised. Until
\* the first application (generation = 0) the startup scan is of the list itself.
SourcesCome ==
  /\ generation = 0 => /\ \A t \in Tasks : ~Diffing(t)
                       /\ scan.at # "resolve" => scan.list = projects
                       /\ scan.at = "merge" => \/ scan.found = ScanOf(projects, config)
                                               \/ WillRescan
  /\ scan.at = "done" /\ ~raced =>
       \/ WillRescan
       \/ /\ (\A t \in Tasks : pc[t] # "sources") => sources = ScanOf(projects, config)
          /\ \A t \in Tasks : pc[t] = "sources" => sources = ScanOf(job[t].old, config)

\* p's entry is the cached classpath, or the cache's change is to be routed.
AsCached(p) == entries[p] = cache[p] \/ WillRoute(p)

\* p's entry is what command c made of the manifest, or a run is promised.
AsAnswered(p, c) ==
  /\ entries[p].by = c.cmd
  /\ entries[p].manifest = manifest[p] \/ WillRerun(p) \/ p \in missing

\* p's entry is right for the configuration c of p: answered when p is resolved,
\* cached otherwise.
EntryIs(p, c) ==
  /\ status[p] \in Stage3Status => c.enabled
  /\ IF status[p] = "resolved" THEN AsAnswered(p, c)
                               ELSE pc[Startup] # "stage2" => AsCached(p)

\* Every entry is right for the list; during t's diff, for the old list.
EntriesRight ==
  \A p \in Projects, c \in Settings : projects[p] = c /\ entries[p] # None => EntryIs(p, c)
EntriesWereRight(t) ==
  \A p \in Projects, c \in Settings : job[t].old[p] = c /\ entries[p] # None => EntryIs(p, c)

\* A project whose run is due still has its cached classpath.
TodoCached == \A t \in Tasks : \A p \in todo[t] : projects[p] # None /\ AsCached(p)

\* A command that runs reads the manifest as it is, or a newer one is promised.
RunsRight ==
  \A t \in Tasks, p \in Projects : pc[t] = "run" /\ command[t].project = p =>
    /\ status[p] = "resolving" /\ p \notin todo[t]
    /\ command[t].manifest = manifest[p] \/ Told(<<"manifest", p>>, Asked)

\* The entries are right, or what makes them right is promised.
EntriesCome ==
  /\ ~MidDiff => EntriesRight
  /\ \A t \in Tasks : Diffing(t) => EntriesWereRight(t)
  /\ TodoCached
  /\ RunsRight

\* The inductive invariant: nothing asked is lost.
QInv == LInv /\ JobsShape /\ ListComes /\ ConfigComes /\ SourcesCome /\ EntriesCome

\* Promises that a step keeps.
AskedHold ==
  /\ WillRefresh => WillRefresh'
  /\ WillReload => WillReload'
  /\ \A p \in Projects : Told(<<"manifest", p>>, Asked) => Told(<<"manifest", p>>, Asked)'
RescanHolds == WillRescan => WillRescan'
RouteHolds(p) == WillRoute(p) => WillRoute(p)'
RerunHolds(p) == WillRerun(p) => WillRerun(p)'
RoutesHold == \A p \in Projects : RouteHolds(p) /\ RerunHolds(p)

\* A file of p that changes is reported.
FileTold(p) ==
  /\ cache'[p] = cache[p] \/ <<"cpcache", p>> \in pending'
  /\ manifest'[p] = manifest[p] \/ <<"manifest", p>> \in pending'
  /\ p \in missing => p \in missing' \/ <<"manifest", p>> \in pending'

\* A step that moves reports from the client to a task, or leaves tasks as they are,
\* keeps every promise.
Carries ==
  /\ \A f \in pending : \/ f \in pending'
                        \/ \E t \in Tasks : /\ f \in job'[t].files /\ pc'[t] = "spawned"
                                            /\ job'[t].phase = "diff" /\ ran'[t] = {}
  /\ \A t \in Tasks : \A f \in job[t].files :
       \/ job[t].phase = "rest" /\ pc[t] \notin Asked \cup {"sources"}
       \/ f \in job'[t].files /\ job'[t].phase = job[t].phase
  /\ \A t \in Tasks : /\ pc[t] \in Asked => pc'[t] \in Asked
                      /\ pc[t] = "sources" => pc'[t] = "sources"
                      /\ todo[t] \subseteq todo'[t] /\ ran'[t] \subseteq ran[t]

\* Work that is carried is still promised.
LEMMA PromisesHold ==
  ASSUME Carries
  PROVE  AskedHold /\ RescanHolds /\ RoutesHold
<1>1. ASSUME NEW f, NEW pcs, Told(f, pcs), "spawned" \in pcs,
             \A t \in Tasks : pc[t] \in pcs => pc'[t] \in pcs,
             \A t \in Tasks : pc[t] \in pcs => \/ job[t].phase # "rest"
                                               \/ pc[t] \in Asked \cup {"sources"}
      PROVE  Told(f, pcs)'
  BY <1>1 DEF Carries, Told
<1>2. \A f : Told(f, Asked) => Told(f, Asked)'
  BY <1>1 DEF Carries, Asked
<1>3. AskedHold
  <2>1. WillRefresh => WillRefresh'
    BY DEF Carries, WillRefresh, Asked
  <2> QED
    BY <1>2, <2>1 DEF AskedHold, WillReload
<1>4. RescanHolds
  BY <1>1 DEF Carries, RescanHolds, WillRescan, Asked
<1>5. RoutesHold
  BY DEF Carries, RoutesHold, RouteHolds, RerunHolds, WillRoute, WillRerun
<1> QED
  BY <1>3, <1>4, <1>5

\* A task that has not begun loses no report when the tasks ahead of it step.
LEMMA AskedStay ==
  ASSUME pending \subseteq pending',
         \A t \in Tasks : pc[t] \in Asked => pc'[t] \in Asked /\ UNCHANGED job[t]
  PROVE  AskedHold
BY DEF AskedHold, WillRefresh, WillReload, Told

\* An entry stays right when the work promised for it stays promised.
LEMMA EntryStays ==
  ASSUME NEW p \in Projects, NEW c, EntryIs(p, c), UNCHANGED <<entries[p], status[p]>>,
         RouteHolds(p), RerunHolds(p), FileTold(p),
         pc'[Startup] # "stage2" => pc[Startup] # "stage2"
  PROVE  EntryIs(p, c)'
BY DEF EntryIs, AsAnswered, AsCached, RouteHolds, RerunHolds, FileTold, WillRoute, WillRerun

\* So does an entry taken from a cache.
LEMMA CachedStays ==
  ASSUME NEW p \in Projects, AsCached(p), UNCHANGED entries[p], RouteHolds(p), FileTold(p)
  PROVE  AsCached(p)'
BY DEF AsCached, RouteHolds, FileTold, WillRoute

\* The facts about entries survive a step that leaves entries and statuses alone.
LEMMA EntriesStay ==
  ASSUME LInv, EntriesCome, AskedHold, RoutesHold, \A p \in Projects : FileTold(p),
         UNCHANGED <<projects, entries, status, todo, command>>,
         \A t \in Tasks : /\ Diffing(t)' <=> Diffing(t)
                          /\ Diffing(t) => UNCHANGED job[t]
                          /\ pc'[t] = "run" => pc[t] = "run",
         pc'[Startup] # "stage2" => pc[Startup] # "stage2"
  PROVE  EntriesCome'
<1>1. \A p \in Projects, c \in Settings : EntryIs(p, c) => EntryIs(p, c)'
  BY EntryStays DEF RoutesHold
<1>2. \A p \in Projects : AsCached(p) => AsCached(p)'
  BY CachedStays DEF RoutesHold
<1>3. MidDiff' <=> MidDiff
  BY DEF MidDiff, Diffing
<1>4. TodoCached'
  BY <1>2 DEF EntriesCome, TodoCached, LInv, TypeOK, TasksTyped
<1>5. RunsRight'
  BY DEF EntriesCome, RunsRight, AskedHold, FileTold, Told
<1>6. (~MidDiff => EntriesRight)'
  BY <1>1, <1>3 DEF EntriesCome, EntriesRight
<1>7. (\A t \in Tasks : Diffing(t) => EntriesWereRight(t))'
  BY <1>1 DEF EntriesCome, EntriesWereRight
<1> QED
  BY <1>4, <1>5, <1>6, <1>7 DEF EntriesCome

\* The facts about sources survive a step that leaves list, config and sources alone.
LEMMA SourcesStay ==
  ASSUME LInv, SourcesCome, RescanHolds, \A p \in Projects : FileTold(p),
         UNCHANGED <<projects, generation, sources, config, scan, raced>>,
         \A t \in Tasks : /\ Diffing(t)' => Diffing(t)
                          /\ pc'[t] = "sources" <=> pc[t] = "sources"
                          /\ pc[t] = "sources" => UNCHANGED job[t]
  PROVE  SourcesCome'
<1>1. CASE WillRescan'
  BY <1>1 DEF SourcesCome
<1>2. CASE ~WillRescan'
  <2>1. \A p \in Projects : manifest'[p] = manifest[p]
    BY <1>2 DEF FileTold, WillRescan, Told, Files
  <2>2. ~WillRescan
    BY <1>2 DEF RescanHolds
  <2> QED
    BY <2>1, <2>2 DEF SourcesCome, ScanOf
<1> QED
  BY <1>1, <1>2

\* The newest list is there or a refresh is coming.
LEMMA ListStays ==
  ASSUME ListComes, AskedHold, UNCHANGED <<projects, scan>>, wanted' = wanted \/ WillRefresh'
  PROVE  ListComes'
BY DEF ListComes, AskedHold

\* The newest settings are there or a reload is coming.
LEMMA ConfigStays ==
  ASSUME ConfigComes, AskedHold, UNCHANGED <<config, scan>>, settings' = settings \/ WillReload'
  PROVE  ConfigComes'
BY DEF ConfigComes, AskedHold

\* Only a watch report carries files; a task holds runs only in stage 3.
LEMMA StepJobsShape ==
  ASSUME LInv, JobsShape, [Next]_vars
  PROVE  JobsShape'
<1> USE DEF JobsShape, LInv, TypeOK, TasksTyped, NoJob, Jobs, Spawn, Goto, DiffOver
<1>1. ASSUME NEW t \in Tasks \ {Startup}, NEW kind, NEW files, Spawn(t, kind, files),
             files # {} => kind = "watch"
      PROVE JobsShape'
  BY <1>1
<1>2. ASSUME NEW t \in Tasks \ {Startup}, NEW files, DidChangeWatchedFiles(t, files) PROVE JobsShape'
  BY <1>1, <1>2 DEF DidChangeWatchedFiles
<1>3. ASSUME UNCHANGED taskVars PROVE JobsShape'
  BY <1>3 DEF taskVars
<1>4. ASSUME NEW p \in Projects, NEW c,
             EditPulseConfig(p, c) \/ EditManifest(p, c)
      PROVE JobsShape'
  BY <1>3, <1>4 DEF EditPulseConfig, EditManifest
<1>5. ASSUME NEW t \in Tasks, AskLock(t) PROVE JobsShape'
  BY <1>5 DEF AskLock
<1>6. ASSUME NEW t \in Tasks, Refresh(t) PROVE JobsShape'
  BY <1>6 DEF Refresh
<1>7. ASSUME NEW t \in Tasks, IndexSources(t) PROVE JobsShape'
  BY <1>7 DEF IndexSources
<1>8. ASSUME NEW t \in Tasks, DiffLibraries(t) PROVE JobsShape'
  BY <1>8 DEF DiffLibraries
<1>9. ASSUME NEW t \in Tasks, NEW p \in Projects, BeginStage3(t, p) PROVE JobsShape'
  BY <1>9 DEF BeginStage3
<1>10. ASSUME NEW t \in Tasks, EndStage3(t) PROVE JobsShape'
  BY <1>10 DEF EndStage3
<1>11. ASSUME NEW t \in Tasks, RouteStage2(t) PROVE JobsShape'
  BY <1>11 DEF RouteStage2
<1>12. ASSUME NEW t \in Tasks, ForceStage3(t) PROVE JobsShape'
  BY <1>12 DEF ForceStage3
<1>13. ASSUME NEW t \in Tasks, Release(t) PROVE JobsShape'
  BY <1>13 DEF Release
<1>14. CASE StartupResolve
  <2>1. pc[Startup] = "initialize"
    BY <1>14 DEF IInv, StartupFirst, StartupResolve
  <2> QED
    BY <1>14, <2>1 DEF StartupResolve
<1>18. CASE StartupStage2
  BY <1>18, PipelineAssumption DEF StartupStage2
<1>15. CASE StartupLoad \/ StartupWalk \/ StartupMerge \/ UNCHANGED vars
  BY <1>3, <1>15 DEF StartupLoad, StartupWalk, StartupMerge, vars
<1> HIDE DEF JobsShape, Spawn
<1>16. CASE UserInput \/ \E t \in Tasks \ {Startup} : Report(t)
  <2>1. ASSUME NEW t \in Tasks \ {Startup}, NEW p, NEW c, DidChangeConfiguration(t, p, c)
        PROVE JobsShape'
    BY <1>1, <2>1 DEF DidChangeConfiguration
  <2>2. ASSUME NEW t \in Tasks \ {Startup}, Rescan(t) PROVE JobsShape'
    BY <1>1, <2>2 DEF Rescan
  <2>3. ASSUME EditKondoConfig \/ \E p \in Projects : EditCache(p) PROVE JobsShape'
    BY <1>3, <2>3 DEF EditKondoConfig, EditCache
  <2> QED
    BY <1>2, <1>4, <1>16, <2>1, <2>2, <2>3 DEF UserInput, Report
<1>17. ASSUME NEW t \in Tasks, TaskStep(t) PROVE JobsShape'
  BY <1>5, <1>6, <1>7, <1>8, <1>9, <1>10, <1>11, <1>12, <1>13, <1>17 DEF TaskStep
<1> QED
  BY <1>14, <1>18, <1>15, <1>16, <1>17 DEF Next, StartupStep

-----------------------------------------------------------------------------
\* What a step has to keep for QInv.
Comes == ListComes' /\ ConfigComes' /\ SourcesCome' /\ EntriesCome'

\* A step outside the tasks at work, after which everything changed is reported,
\* keeps the promises.
LEMMA OutsideComes ==
  ASSUME QInv, Carries, UNCHANGED <<shared, scanVars, todo, command>>,
         \A p \in Projects : FileTold(p),
         wanted' = wanted \/ WillRefresh', settings' = settings \/ WillReload',
         \A t \in Tasks : /\ pc[t] \notin {"free", "spawned", "queued"} => UNCHANGED <<pc[t], job[t]>>
                          /\ pc[t] \in {"free", "spawned", "queued"} => pc'[t] \in {"free", "spawned", "queued"}
  PROVE  Comes
<1>1. AskedHold /\ RescanHolds /\ RoutesHold
  BY PromisesHold
<1>2. UNCHANGED <<projects, generation, entries, status, libs, sources, config, scan, raced>>
  BY DEF shared, scanVars
<1>3. ListComes' /\ ConfigComes'
  BY <1>1, <1>2, ListStays, ConfigStays DEF QInv
<1>4. \A t \in Tasks : /\ Diffing(t)' <=> Diffing(t)
                       /\ pc'[t] = "sources" <=> pc[t] = "sources"
                       /\ Diffing(t) => UNCHANGED job[t]
                       /\ pc'[t] = "run" => pc[t] = "run"
                       /\ pc[t] = "stage2" => pc'[t] = "stage2"
  BY DEF Diffing
<1>5. SourcesCome'
  BY <1>1, <1>2, <1>4, SourcesStay DEF QInv, Diffing
<1>6. EntriesCome'
  BY <1>1, <1>2, <1>4, EntriesStay, PipelineAssumption DEF QInv
<1> QED
  BY <1>3, <1>5, <1>6 DEF Comes

\* A spawned task takes over what the client has to report.
LEMMA SpawnComes ==
  ASSUME QInv, NEW t \in Tasks \ {Startup}, NEW kind, NEW files, Spawn(t, kind, files),
         pending \subseteq pending' \cup files, UNCHANGED <<shared, scanVars, manifest, missing, cache, settings>>
  PROVE  Comes
<1>1. /\ pc[t] = "free" /\ job[t].files = {} /\ ran[t] = {}
      /\ pc' = [pc EXCEPT ![t] = "spawned"] /\ UNCHANGED <<todo, ran, command>>
      /\ job' = [job EXCEPT ![t] = [NoJob EXCEPT !.kind = kind, !.files = files]]
  BY DEF Spawn, QInv, JobsShape
<1>2. job'[t].files = files /\ job'[t].phase = "diff" /\ pc'[t] = "spawned"
  BY <1>1 DEF QInv, LInv, TypeOK, TasksTyped, NoJob
<1>3. Carries
  BY <1>1, <1>2 DEF Carries, Asked, QInv, LInv, TypeOK, TasksTyped
<1>4. WillRefresh'
  BY <1>2 DEF WillRefresh, Asked
<1>5. \A p \in Projects : FileTold(p)
  BY DEF FileTold
<1>6. \A u \in Tasks : u # t => UNCHANGED <<pc[u], job[u]>>
  BY <1>1 DEF QInv, LInv, TypeOK, TasksTyped
<1> QED
  BY <1>1, <1>2, <1>3, <1>4, <1>5, <1>6, OutsideComes

\* An edit adds its file to what the client has to report.
LEMMA EditComes ==
  ASSUME QInv, pending \subseteq pending', UNCHANGED <<shared, scanVars, taskVars>>,
         \A p \in Projects : FileTold(p),
         wanted' = wanted \/ WillRefresh', settings' = settings \/ WillReload'
  PROVE  Comes
<1>1. UNCHANGED <<pc, job, todo, ran, command>>
  BY DEF taskVars
<1>2. Carries
  BY <1>1 DEF Carries
<1> QED
  BY <1>1, <1>2, OutsideComes

\* Every step of the user and every report of the client keeps the promises.
LEMMA UserComes ==
  ASSUME QInv, UserInput \/ \E t \in Tasks \ {Startup} : Report(t)
  PROVE  Comes
<1>1. ASSUME NEW t \in Tasks \ {Startup}, NEW p \in Projects, NEW c, DidChangeConfiguration(t, p, c)
      PROVE Comes
  BY <1>1, SpawnComes DEF DidChangeConfiguration
<1>2. ASSUME NEW t \in Tasks \ {Startup}, Rescan(t) PROVE Comes
  BY <1>2, SpawnComes DEF Rescan
<1>3. ASSUME NEW t \in Tasks \ {Startup}, NEW files, DidChangeWatchedFiles(t, files) PROVE Comes
  BY <1>3, SpawnComes DEF DidChangeWatchedFiles
<1>4. ASSUME NEW p \in Projects, NEW c, EditPulseConfig(p, c) PROVE Comes
  <2>1. WillRefresh' /\ WillReload'
    BY <1>4 DEF EditPulseConfig, WillRefresh, WillReload, Told
  <2>2. pending \subseteq pending' /\ \A q \in Projects : FileTold(q)
    BY <1>4 DEF EditPulseConfig, FileTold
  <2> QED
    BY <1>4, <2>1, <2>2, EditComes DEF EditPulseConfig
<1>5. ASSUME NEW p \in Projects, NEW c, EditManifest(p, c) PROVE Comes
  <2>1. WillRefresh'
    BY <1>5 DEF EditManifest, WillRefresh
  <2>2. pending \subseteq pending' /\ \A q \in Projects : FileTold(q)
    BY <1>5 DEF EditManifest, FileTold, QInv, LInv, TypeOK, OutsideTyped
  <2> QED
    BY <1>5, <2>1, <2>2, EditComes DEF EditManifest
<1>6. CASE EditKondoConfig
  <2>1. WillReload'
    BY <1>6 DEF EditKondoConfig, WillReload, Told
  <2>2. pending \subseteq pending' /\ \A q \in Projects : FileTold(q)
    BY <1>6 DEF EditKondoConfig, FileTold
  <2> QED
    BY <1>6, <2>1, <2>2, EditComes DEF EditKondoConfig
<1>7. ASSUME NEW p \in Projects, EditCache(p) PROVE Comes
  <2>1. pending \subseteq pending' /\ \A q \in Projects : FileTold(q)
    BY <1>7 DEF EditCache, FileTold, QInv, LInv, TypeOK, OutsideTyped
  <2> QED
    BY <1>7, <2>1, EditComes DEF EditCache
<1> QED
  BY <1>1, <1>2, <1>3, <1>4, <1>5, <1>6, <1>7 DEF UserInput, Report

\* A task that queues for the lock keeps its files.
LEMMA AskLockComes ==
  ASSUME QInv, NEW t \in Tasks, AskLock(t)
  PROVE  Comes
<1>1. /\ pc[t] = "spawned" /\ pc' = [pc EXCEPT ![t] = "queued"]
      /\ UNCHANGED <<outside, shared, scanVars, job, todo, ran, command>>
  BY DEF AskLock, Goto
<1>2. Carries
  BY <1>1 DEF Carries, Asked, QInv, LInv, TypeOK, TasksTyped, outside
<1>3. \A p \in Projects : FileTold(p)
  BY <1>1 DEF FileTold, outside
<1> QED
  BY <1>1, <1>2, <1>3, OutsideComes DEF outside, QInv, LInv, TypeOK, TasksTyped

\* The refresh reads the newest list and, when a configuration file was named, the
\* newest settings.
LEMMA RefreshComes ==
  ASSUME QInv, NEW t \in Tasks, Refresh(t)
  PROVE  Comes
<1>1. \A u \in Tasks : ~AtWork(u)
  BY DEF QInv, LInv, IInv, AtWorkHolds, AtWork, Holds, Refresh
<1>2. /\ pc[t] = "queued" /\ pc' = [pc EXCEPT ![t] = "sources"]
      /\ projects' = wanted /\ generation' = generation + 1
      /\ config' = IF ConfigChanged(t) THEN settings ELSE config
      /\ entries' = [p \in Projects |-> IF p \in Gone THEN None ELSE entries[p]]
      /\ status' = [p \in Projects |-> IF p \in Gone THEN "none" ELSE status[p]]
      /\ job'[t].old = projects /\ job'[t].files = job[t].files /\ job'[t].phase = job[t].phase
      /\ \A u \in Tasks : u # t => job'[u] = job[u] /\ pc'[u] = pc[u]
      /\ UNCHANGED <<outside, sources, todo, ran, command, scan, raced>>
  BY DEF Refresh, Goto, scanVars, QInv, LInv, TypeOK, TasksTyped, Jobs
<1>3. scan.at # "resolve" /\ pc[Startup] # "stage2"
  BY <1>1, PipelineAssumption DEF AtWork, QInv, LInv, IInv, StartupFirst
<1>4. UNCHANGED <<wanted, manifest, missing, settings, cache, pending>>
  BY <1>2 DEF outside
<1>5. ListComes'
  BY <1>2, <1>3, <1>4 DEF ListComes
<1>6. ConfigComes'
  <2>1. CASE ConfigChanged(t)
    BY <1>2, <1>4, <2>1 DEF ConfigComes
  <2>2. CASE ~ConfigChanged(t)
    <3>1. <<"pulse", Root>> \notin job[t].files /\ <<"kondo", Root>> \notin job[t].files
      BY <2>2 DEF ConfigChanged
    <3>2. WillReload => WillReload'
      BY <1>2, <1>4, <3>1 DEF WillReload, Told
    <3> QED
      BY <1>2, <1>4, <2>2, <3>2 DEF QInv, ConfigComes
  <2> QED
    BY <2>1, <2>2
<1>7. SourcesCome'
  <2>1. generation' # 0
    BY <1>2 DEF QInv, LInv, TypeOK, SharedTyped
  <2>2. WillRescan => WillRescan'
    BY <1>2, <1>4, PipelineAssumption DEF WillRescan, Told, Asked, QInv, LInv, TypeOK, TasksTyped
  <2>3. ASSUME scan.at = "done", ~raced, ~WillRescan', NEW u \in Tasks, pc'[u] = "sources"
        PROVE  sources' = [p \in Projects |-> IF job'[u].old[p] = None THEN None
                                              ELSE [config |-> config', manifest |-> manifest'[p]]]
    <3>1. config' = config
      <4> SUFFICES ASSUME ConfigChanged(t) PROVE FALSE
        BY <1>2
      <4>1. PICK f \in job[t].files : f \in Files /\ f[1] # "cpcache"
        BY PipelineAssumption DEF ConfigChanged, Files
      <4> QED
        BY <1>2, <2>3, <4>1 DEF WillRescan, Told, QInv, LInv, TypeOK, TasksTyped
    <3>2. sources = ScanOf(projects, config)
      BY <1>1, <2>2, <2>3 DEF QInv, SourcesCome, AtWork
    <3>3. u = t
      BY <1>1, <1>2, <2>3 DEF AtWork
    <3> QED
      BY <1>2, <1>4, <3>1, <3>2, <3>3 DEF ScanOf
  <2>4. pc'[t] = "sources"
    BY <1>2 DEF QInv, LInv, TypeOK, TasksTyped
  <2> QED
    BY <1>2, <2>1, <2>3, <2>4 DEF SourcesCome, ScanOf
<1>8. EntriesCome'
  <2>1. EntriesRight /\ ~MidDiff
    BY <1>1 DEF QInv, EntriesCome, MidDiff, AtWork
  <2>2. RoutesHold
    BY <1>2, <1>4 DEF RoutesHold, RouteHolds, RerunHolds, WillRoute, WillRerun
  <2>3. \A p \in Projects : FileTold(p)
    BY <1>4 DEF FileTold
  <2>4. ASSUME NEW p \in Projects, NEW c \in Settings, projects[p] = c, entries'[p] # None
        PROVE EntryIs(p, c)'
    BY <1>2, <1>3, <2>1, <2>2, <2>3, <2>4, EntryStays DEF RoutesHold, EntriesRight
  <2>5. \A u \in Tasks : Diffing(u)' <=> u = t
    BY <1>1, <1>2 DEF Diffing, AtWork, QInv, LInv, TypeOK, TasksTyped
  <2>6. (\A u \in Tasks : Diffing(u) => EntriesWereRight(u))'
    BY <1>2, <2>4, <2>5 DEF EntriesWereRight
  <2>7. TodoCached'
    BY <1>1, <1>2 DEF TodoCached, QInv, JobsShape, AtWork
  <2>8. RunsRight'
    BY <1>1, <1>2, <2>5 DEF RunsRight, AtWork, Diffing
  <2>9. MidDiff'
    BY <2>5 DEF MidDiff, Diffing
  <2> QED
    BY <2>6, <2>7, <2>8, <2>9 DEF EntriesCome
<1> QED
  BY <1>5, <1>6, <1>7, <1>8 DEF Comes

\* A step of the task at work leaves what the others were asked alone.
LEMMA WorkStep ==
  ASSUME QInv, NEW t \in Tasks, AtWork(t), pending \subseteq pending',
         UNCHANGED <<wanted, manifest, missing, settings, projects, config, scan>>,
         \A u \in Tasks : u # t => UNCHANGED <<pc[u], job[u]>>
  PROVE  AskedHold /\ ListComes' /\ ConfigComes'
<1>1. AskedHold
  BY AskedStay DEF AtWork, Asked
<1> QED
  BY <1>1, ListStays, ConfigStays DEF QInv

\* A step of the task at work outside its two diffs leaves the sources alone.
LEMMA WorkSources ==
  ASSUME QInv, NEW t \in Tasks, AtWork(t), pc[t] # "sources", pc'[t] \notin {"sources", "libraries"},
         pending \subseteq pending',
         UNCHANGED <<manifest, missing, projects, generation, sources, config, scan, raced>>,
         \A u \in Tasks : u # t => UNCHANGED <<pc[u], job[u]>>
  PROVE  SourcesCome'
<1>1. WillRescan => WillRescan'
  BY DEF WillRescan, Told, Asked, AtWork
<1>2. CASE WillRescan'
  BY <1>2 DEF QInv, SourcesCome, Diffing
<1>3. CASE ~WillRescan'
  BY <1>1, <1>3 DEF QInv, SourcesCome, ScanOf, Diffing
<1> QED
  BY <1>2, <1>3

\* The diff of the sources scans what was added, or all of it when the task names a
\* manifest or a configuration file: nothing else can differ.
LEMMA IndexSourcesComes ==
  ASSUME QInv, NEW t \in Tasks, IndexSources(t)
  PROVE  Comes
<1>1. AtWork(t) /\ pc[t] = "sources" /\ Diffing(t)
  BY DEF AtWork, Diffing, IndexSources
<1>2. \A u \in Tasks \ {t} : ~AtWork(u)
  BY <1>1, Alone DEF QInv, LInv
<1>3. /\ UNCHANGED <<outside, projects, generation, entries, status, config, job, todo, ran, command,
                     scan, raced>>
      /\ \A u \in Tasks : u # t => pc'[u] = pc[u]
      /\ sources' = [p \in Projects |-> IF Whole(t) \/ p \in Added(t) THEN ScanOf(projects, config)[p]
                                        ELSE sources[p]]
      /\ \/ pc'[t] = "libraries"
         \/ pc'[t] = "stage3" /\ ~Changed(t)
  BY DEF IndexSources, Goto, scanVars, QInv, LInv, TypeOK, TasksTyped
<1>4. UNCHANGED <<wanted, manifest, missing, settings, cache, pending>>
  BY <1>3 DEF outside
<1>5. AskedHold /\ ListComes' /\ ConfigComes'
  BY <1>1, <1>3, <1>4, WorkStep
<1>6. SourcesCome'
  <2>1. generation # 0
    BY <1>1 DEF QInv, SourcesCome
  <2>2. \A u \in Tasks : pc'[u] # "sources"
    BY <1>2, <1>3 DEF AtWork
  <2>3. ASSUME scan.at = "done", ~raced, ~WillRescan' PROVE sources' = ScanOf(projects, config)
    <3>1. CASE Whole(t)
      BY <1>3, <3>1 DEF ScanOf
    <3>2. CASE ~Whole(t)
      <4>1. Removed(t) = {} /\ ~(job[t].kind = "watch" /\ (Manifests(t) # {} \/ ConfigChanged(t)))
        BY <3>2 DEF Whole
      <4>2. ~WillRescan
        <5> SUFFICES ASSUME NEW f \in Files, f[1] # "cpcache", Told(f, Asked \cup {"sources"})
                     PROVE  FALSE
          BY DEF WillRescan
        <5>1. f \notin pending /\ \A u \in Tasks \ {t} : ~(pc[u] \in Asked /\ f \in job[u].files)
          BY <1>3, <1>4, <2>3 DEF WillRescan, Told, Asked
        <5>2. f \in job[t].files
          BY <1>2, <5>1 DEF Told, AtWork, Asked
        <5>3. job[t].kind = "watch"
          BY <5>2 DEF QInv, JobsShape
        <5> QED
          BY <4>1, <5>2, <5>3 DEF Manifests, ConfigChanged, Files
      <4>3. sources = ScanOf(job[t].old, config)
        BY <1>1, <2>3, <4>2 DEF QInv, SourcesCome
      <4>4. \A p \in Projects : p \notin Added(t) => (job[t].old[p] = None <=> projects[p] = None)
        BY <4>1 DEF Removed, Added, Listed
      <4> QED
        BY <1>3, <3>2, <4>3, <4>4 DEF ScanOf
    <3> QED
      BY <3>1, <3>2
  <2> QED
    BY <1>3, <1>4, <2>1, <2>2, <2>3 DEF SourcesCome, ScanOf
<1>7. RoutesHold /\ \A p \in Projects : FileTold(p)
  BY <1>3, <1>4 DEF RoutesHold, RouteHolds, RerunHolds, WillRoute, WillRerun, FileTold
<1>8. pc[Startup] # "stage2"
  BY <1>1, <1>2, PipelineAssumption DEF AtWork
<1>9. CASE pc'[t] = "libraries"
  <2>1. \A u \in Tasks : /\ Diffing(u)' <=> Diffing(u)
                         /\ pc'[u] = "run" => pc[u] = "run"
    BY <1>1, <1>2, <1>3, <1>9 DEF Diffing, AtWork
  <2>2. EntriesCome'
    BY <1>3, <1>5, <1>7, <1>8, <2>1, EntriesStay DEF QInv
  <2> QED
    BY <1>5, <1>6, <2>2 DEF Comes
<1>10. CASE pc'[t] = "stage3" /\ ~Changed(t)
  <2>1. ASSUME NEW p \in Projects, NEW c \in Settings, projects[p] = c, entries[p] # None
        PROVE EntryIs(p, c)'
    <3>1. EntryIs(p, c)
      BY <1>1, <1>10, <2>1 DEF Changed, QInv, EntriesCome, EntriesWereRight
    <3> QED
      BY <1>3, <1>7, <1>8, <3>1, EntryStays DEF RoutesHold
  <2>2. EntriesRight'
    BY <1>3, <2>1 DEF EntriesRight
  <2>3. TodoCached'
    BY <1>1, <1>2, <1>3 DEF TodoCached, QInv, JobsShape, AtWork
  <2>4. RunsRight' /\ \A u \in Tasks : ~Diffing(u)'
    BY <1>2, <1>3, <1>10 DEF RunsRight, Diffing, AtWork
  <2>5. EntriesCome'
    BY <2>2, <2>3, <2>4 DEF EntriesCome
  <2> QED
    BY <1>5, <1>6, <2>5 DEF Comes
<1> QED
  BY <1>3, <1>9, <1>10

\* The diff of the libraries reads the cache of each added project and of each one
\* whose command it drops, and asks a run of each one whose command is new.
LEMMA DiffLibrariesComes ==
  ASSUME QInv, NEW t \in Tasks, DiffLibraries(t)
  PROVE  Comes
<1> DEFINE force == {p \in Stage3Runs(t) : WasActive(t, p)}
           revert == Reverted(force, Stage2Statuses(Added(t)))
           back == Added(t) \cup revert
<1>1. AtWork(t) /\ pc[t] = "libraries" /\ Diffing(t)
  BY DEF AtWork, Diffing, DiffLibraries
<1>2. \A u \in Tasks \ {t} : ~AtWork(u)
  BY <1>1, Alone DEF QInv, LInv
<1>3. /\ UNCHANGED <<outside, projects, generation, sources, config, job, ran, command, scan, raced>>
      /\ \A u \in Tasks : u # t => pc'[u] = pc[u] /\ todo'[u] = todo[u]
      /\ pc'[t] = "stage3" /\ todo'[t] = Stage3Runs(t)
      /\ entries' = Stage2Entries(back) /\ status' = Stage2Statuses(back)
  BY DEF DiffLibraries, Goto, scanVars, QInv, LInv, TypeOK, TasksTyped
<1>4. UNCHANGED <<wanted, manifest, missing, settings, cache, pending>>
  BY <1>3 DEF outside
<1>5. AskedHold /\ ListComes' /\ ConfigComes'
  BY <1>1, <1>3, <1>4, WorkStep
<1>6. SourcesCome'
  BY <1>1, <1>3, <1>4, WorkSources
<1>7. pc[Startup] # "stage2"
  BY <1>1, <1>2, PipelineAssumption DEF AtWork
<1>8. RoutesHold /\ \A p \in Projects : FileTold(p)
  <2>1. todo[t] = {}
    BY <1>1 DEF QInv, JobsShape
  <2> QED
    BY <1>3, <1>4, <2>1 DEF RoutesHold, RouteHolds, RerunHolds, WillRoute, WillRerun, FileTold
<1>9. EnteredSince(t) /\ EntriesWereRight(t)
  BY <1>1 DEF QInv, LInv, EntriesKept, EntriesCome
<1> HIDE DEF revert
<1>10. ASSUME NEW p \in back, p \in Projects PROVE AsCached(p)' /\ status'[p] \notin Stage3Status
  BY <1>3, <1>4, <1>10 DEF AsCached, Stage2Entries, Stage2Statuses, Stage2Status, Stage3Status
<1>11. ASSUME NEW p \in Projects \ back PROVE UNCHANGED <<entries[p], status[p]>>
  BY <1>3 DEF Stage2Entries, Stage2Statuses
\* A project whose status is of stage 3 and that is not put back has its command still.
<1>12. ASSUME NEW p \in Projects \ back, projects[p] # None, entries[p] # None
       PROVE  /\ job[t].old[p] \in Settings /\ EntryIs(p, job[t].old[p])
              /\ status[p] \in Stage3Status =>
                   /\ projects[p].enabled /\ p \notin force
                   /\ p \notin Stage3Runs(t)
                   /\ projects[p].cmd = job[t].old[p].cmd
  <2>1. job[t].old[p] \in Settings
    BY <1>9, <1>12 DEF EnteredSince, QInv, LInv, TypeOK, TasksTyped, Jobs
  <2>2. EntryIs(p, job[t].old[p])
    BY <1>9, <1>12, <2>1 DEF EntriesWereRight
  <2>3. ASSUME status[p] \in Stage3Status
        PROVE  projects[p].enabled /\ p \notin force /\ job[t].old[p].enabled
    <3>1. Stage2Statuses(Added(t))[p] = status[p]
      BY <1>12 DEF Stage2Statuses
    <3> QED
      BY <1>12, <2>2, <2>3, <3>1 DEF revert, Reverted, Listed, EntryIs
  <2>4. ASSUME status[p] \in Stage3Status
        PROVE  p \notin Stage3Runs(t) /\ projects[p].cmd = job[t].old[p].cmd
    BY <1>12, <2>1, <2>3, <2>4, PipelineAssumption
       DEF Stage3Runs, WasActive, NewCommand, Active, Listed
  <2> QED
    BY <2>1, <2>2, <2>3, <2>4
<1>13. ASSUME NEW p \in Projects, NEW c \in Settings, projects[p] = c, entries'[p] # None
       PROVE  EntryIs(p, c)'
  <2>1. CASE p \in back
    BY <1>10, <2>1 DEF EntryIs, Stage3Status
  <2>2. CASE p \notin back
    <3>1. UNCHANGED <<entries[p], status[p]>>
      BY <1>11, <2>2
    <3>2. projects[p] # None /\ entries[p] # None
      BY <1>13, <3>1, PipelineAssumption
    <3>3. EntryIs(p, c)
      BY <1>12, <1>13, <2>2, <3>2 DEF EntryIs, AsAnswered, Stage3Status
    <3> QED
      BY <1>7, <1>8, <3>1, <3>3, EntryStays DEF RoutesHold
  <2> QED
    BY <2>1, <2>2
<1>14. EntriesRight'
  BY <1>3, <1>13 DEF EntriesRight
<1>15. TodoCached'
  <2>1. ASSUME NEW p \in Stage3Runs(t) PROVE projects'[p] # None /\ AsCached(p)'
    <3>1. p \in Projects /\ projects[p] # None
      BY DEF Stage3Runs, Listed
    <3>2. CASE p \in back
      BY <1>3, <1>10, <3>1, <3>2
    <3>3. CASE p \notin back
      <4>1. entries[p] # None
        BY <1>9, <3>1, <3>3 DEF EnteredSince, Added, Listed
      <4>2. status[p] \notin Stage3Status /\ EntryIs(p, job[t].old[p])
        BY <1>12, <3>1, <3>3, <4>1
      <4>3. AsCached(p)
        BY <1>7, <4>2 DEF EntryIs, Stage3Status
      <4> QED
        BY <1>3, <1>8, <1>11, <3>1, <3>3, <4>3, CachedStays DEF RoutesHold
    <3> QED
      BY <3>2, <3>3
  <2> QED
    BY <1>2, <1>3, <2>1 DEF TodoCached, QInv, JobsShape, AtWork
<1>16. RunsRight' /\ \A u \in Tasks : ~Diffing(u)'
  BY <1>2, <1>3 DEF RunsRight, Diffing, AtWork
<1>17. EntriesCome'
  BY <1>14, <1>15, <1>16 DEF EntriesCome
<1> QED
  BY <1>5, <1>6, <1>17 DEF Comes

\* What a task in stage 3 may rely on about entries, runs and the other tasks.
LEMMA StageThreeKnows ==
  ASSUME QInv, NEW t \in Tasks, pc[t] \in {"stage3", "run"}
  PROVE  /\ AtWork(t) /\ EntriesRight /\ TodoCached /\ RunsRight
         /\ \A u \in Tasks \ {t} : ~AtWork(u) /\ todo[u] = {} /\ ran[u] = {} /\ job[u].phase = "diff"
         /\ pc[Startup] # "stage2"
         /\ \A p \in Projects : projects[p] # None <=> entries[p] # None
<1>1. AtWork(t)
  BY DEF AtWork
<1>2. \A u \in Tasks \ {t} : ~AtWork(u)
  BY <1>1, Alone DEF QInv, LInv
<1>3. ~MidDiff /\ Entered
  BY StageThree DEF QInv
<1>4. \A p \in Projects : projects[p] # None <=> entries[p] # None
  BY <1>3 DEF Entered, QInv, LInv, TypeOK, SharedTyped
<1> QED
  BY <1>1, <1>2, <1>3, <1>4, PipelineAssumption DEF QInv, EntriesCome, JobsShape, AtWork

\* A command starts with the manifest as it is, or is skipped: no manifest, or not
\* enabled.
LEMMA BeginStage3Comes ==
  ASSUME QInv, NEW t \in Tasks, NEW p \in Projects, BeginStage3(t, p)
  PROVE  Comes
<1>1. pc[t] = "stage3" /\ p \in todo[t] /\ AtWork(t)
  BY DEF BeginStage3, AtWork
<1>2. /\ UNCHANGED <<outside, projects, generation, entries, sources, config, job, scan, raced>>
      /\ \A u \in Tasks : u # t => pc'[u] = pc[u] /\ todo'[u] = todo[u] /\ ran'[u] = ran[u]
      /\ todo'[t] = todo[t] \ {p} /\ ran'[t] = ran[t] \cup {p}
      /\ pc'[t] \in {"stage3", "run"}
      /\ \A q \in Projects : q # p => status'[q] = status[q]
  BY <1>1 DEF BeginStage3, Goto, scanVars, QInv, LInv, TypeOK, TasksTyped, SharedTyped
<1>3. UNCHANGED <<wanted, manifest, missing, settings, cache, pending>>
  BY <1>2 DEF outside
<1>4. /\ EntriesRight /\ TodoCached /\ \A u \in Tasks \ {t} : ~AtWork(u)
      /\ pc[Startup] # "stage2"
  BY <1>1, StageThreeKnows
<1>5. AskedHold /\ ListComes' /\ ConfigComes' /\ SourcesCome'
  BY <1>1, <1>2, <1>3, WorkStep, WorkSources
<1>6. \A q \in Projects : RouteHolds(q) /\ FileTold(q) /\ (q # p => RerunHolds(q))
  BY <1>2, <1>3 DEF RouteHolds, RerunHolds, WillRoute, WillRerun, FileTold
<1>7. \A q \in Projects : AsCached(q) => AsCached(q)'
  BY <1>2, <1>6, CachedStays
<1>8. TodoCached'
  BY <1>2, <1>4, <1>7 DEF TodoCached, QInv, LInv, TypeOK, TasksTyped
<1>9. \A u \in Tasks : ~Diffing(u)'
  BY <1>2, <1>4 DEF Diffing, AtWork
<1>10. AsCached(p)
  BY <1>1, <1>4 DEF TodoCached
<1>11. CASE Active(projects[p]) /\ HasManifest(p)
  <2>1. /\ status'[p] = "resolving" /\ command'[t].project = p
        /\ command'[t].manifest = manifest[p]
        /\ \A u \in Tasks : u # t => command'[u] = command[u]
    BY <1>11 DEF BeginStage3, QInv, LInv, TypeOK, TasksTyped, SharedTyped
  <2>2. EntriesRight'
    <3> SUFFICES ASSUME NEW q \in Projects, NEW c \in Settings, projects[q] = c, entries[q] # None
                 PROVE  EntryIs(q, c)'
      BY <1>2 DEF EntriesRight
    <3>1. CASE q = p
      BY <1>7, <1>10, <1>11, <2>1, <3>1 DEF EntryIs, Active
    <3>2. CASE q # p
      BY <1>2, <1>4, <1>6, <3>2, EntryStays DEF EntriesRight
    <3> QED
      BY <3>1, <3>2
  <2>3. RunsRight'
    BY <1>2, <1>3, <1>4, <2>1 DEF RunsRight, AtWork
  <2> QED
    BY <1>5, <1>8, <1>9, <2>2, <2>3 DEF Comes, EntriesCome
<1>12. CASE ~(Active(projects[p]) /\ HasManifest(p))
  <2>1. UNCHANGED <<status, command, pc>>
    BY <1>12 DEF BeginStage3
  <2>2. EntriesRight'
    <3> SUFFICES ASSUME NEW q \in Projects, NEW c \in Settings, projects[q] = c, entries[q] # None
                 PROVE  EntryIs(q, c)'
      BY <1>2 DEF EntriesRight
    <3>1. EntryIs(q, c)
      BY <1>4 DEF EntriesRight
    <3>2. CASE q = p
      BY <1>2, <1>3, <1>7, <1>10, <1>12, <2>1, <3>1, <3>2, PipelineAssumption
         DEF EntryIs, AsAnswered, Active, HasManifest, Stage3Status
    <3>3. CASE q # p
      BY <1>2, <1>4, <1>6, <2>1, <3>1, <3>3, EntryStays
    <3> QED
      BY <3>2, <3>3
  <2>3. RunsRight'
    BY <1>1, <1>4, <2>1 DEF RunsRight, AtWork
  <2> QED
    BY <1>5, <1>8, <1>9, <2>2, <2>3 DEF Comes, EntriesCome
<1> QED
  BY <1>11, <1>12

\* A command ends: its answer is of the manifest it read, or a new run is coming.
LEMMA EndStage3Comes ==
  ASSUME QInv, NEW t \in Tasks, EndStage3(t)
  PROVE  Comes
<1>1. pc[t] = "run" /\ AtWork(t)
  BY DEF EndStage3, CommandFails, CommandAnswers, AtWork
<1>2. PICK q \in Projects : command[t].project = q
  BY <1>1, Answer DEF QInv, Listed
<1>3. /\ projects[q] # None /\ entries[q] # None /\ projects[q].enabled
      /\ projects[q].cmd = command[t].cmd
  BY <1>1, <1>2, Answer DEF QInv, Listed, Fresh, Active
<1>4. /\ EntriesRight /\ TodoCached /\ RunsRight
      /\ \A u \in Tasks \ {t} : ~AtWork(u) /\ todo[u] = {} /\ ran[u] = {} /\ job[u].phase = "diff"
      /\ pc[Startup] # "stage2"
  BY <1>1, StageThreeKnows
<1>5. /\ UNCHANGED <<wanted, manifest, missing, settings, projects, generation, sources, config,
                     job, todo, ran, scan, raced>>
      /\ \A u \in Tasks : u # t => pc'[u] = pc[u] /\ command'[u] = command[u]
      /\ pc'[t] = "stage3"
  BY DEF EndStage3, Goto, scanVars, QInv, LInv, TypeOK, TasksTyped
<1>6. /\ pending \subseteq pending'
      /\ \A p \in Projects : p # q => UNCHANGED <<entries[p], status[p], cache[p]>>
      /\ cache'[q] = cache[q] \/ <<"cpcache", q>> \in pending'
      /\ \/ status'[q] = "error" /\ entries'[q] = entries[q]
         \/ /\ status'[q] = "resolved"
            /\ entries'[q].by = command[t].cmd
            /\ entries'[q].manifest \in {command[t].manifest, manifest[q]}
  <2>1. Fresh(t)
    BY <1>1, Answer DEF QInv
  <2>2. CASE CommandFails(t)
    BY <1>2, <2>1, <2>2 DEF CommandFails, QInv, LInv, TypeOK, SharedTyped
  <2>3. CASE CommandAnswers(t)
    <3>1. PICK m \in {command[t].manifest, manifest[q]} :
            LET cp == [by |-> command[t].cmd, manifest |-> m]
            IN  /\ \/ UNCHANGED <<cache, pending>>
                   \/ /\ cache' = [cache EXCEPT ![q] = cp]
                      /\ pending' = pending \cup {<<"cpcache", q>>}
                /\ entries' = [entries EXCEPT ![q] = cp]
                /\ status' = [status EXCEPT ![q] = "resolved"]
      BY <1>2, <2>1, <2>3 DEF CommandAnswers
    <3> QED
      BY <3>1 DEF QInv, LInv, TypeOK, SharedTyped, OutsideTyped
  <2> QED
    BY <2>2, <2>3 DEF EndStage3
<1>7. AskedHold /\ ListComes' /\ ConfigComes' /\ SourcesCome'
  BY <1>1, <1>5, <1>6, WorkStep, WorkSources
<1>8. RoutesHold /\ \A p \in Projects : FileTold(p)
  BY <1>5, <1>6 DEF RoutesHold, RouteHolds, RerunHolds, WillRoute, WillRerun, FileTold
<1>9. status[q] = "resolving" /\ q \notin todo[t]
  BY <1>1, <1>2, <1>4 DEF RunsRight
<1>10. entries'[q].manifest = manifest[q] \/ WillRerun(q)' \/ status'[q] = "error"
  BY <1>1, <1>2, <1>4, <1>5, <1>6 DEF RunsRight, Told, WillRerun, Asked, AtWork
<1>11. AsCached(q)
  BY <1>3, <1>4, <1>9 DEF EntriesRight, EntryIs, QInv, LInv, TypeOK, SharedTyped
<1>12. EntriesRight'
  <2> SUFFICES ASSUME NEW p \in Projects, NEW c \in Settings, projects[p] = c, entries'[p] # None
               PROVE  EntryIs(p, c)'
    BY <1>5 DEF EntriesRight
  <2>1. CASE p # q
    BY <1>4, <1>6, <1>8, <2>1, EntryStays DEF EntriesRight, RoutesHold
  <2>2. CASE p = q /\ status'[q] = "error"
    <3>1. AsCached(q)'
      BY <1>6, <1>8, <1>11, <2>2, CachedStays DEF RoutesHold
    <3> QED
      BY <1>3, <2>2, <3>1 DEF EntryIs
  <2>3. CASE p = q /\ status'[q] # "error"
    BY <1>3, <1>5, <1>6, <1>10, <2>3 DEF EntryIs, AsAnswered
  <2> QED
    BY <2>1, <2>2, <2>3
<1>13. TodoCached'
  <2>1. \A p \in Projects : p # q /\ AsCached(p) => AsCached(p)'
    BY <1>6, <1>8, CachedStays DEF RoutesHold
  <2> QED
    BY <1>4, <1>5, <1>9, <2>1 DEF TodoCached, QInv, LInv, TypeOK, TasksTyped
<1>14. RunsRight' /\ \A u \in Tasks : ~Diffing(u)'
  BY <1>4, <1>5 DEF RunsRight, Diffing, AtWork
<1> QED
  BY <1>7, <1>12, <1>13, <1>14 DEF Comes, EntriesCome

\* One task runs stage 3 and puts some projects back to stage 2.
LEMMA BackComes ==
  ASSUME QInv, NEW t \in Tasks, pc[t] = "stage3", NEW ps \in SUBSET Listed(projects),
         UNCHANGED <<outside, projects, generation, sources, config, pc, ran, command, scan, raced>>,
         \A u \in Tasks : u # t => job'[u] = job[u] /\ todo'[u] = todo[u],
         job'[t].files = job[t].files,
         entries' = Stage2Entries(ps), status' = Stage2Statuses(ps),
         \A p \in Projects \ ps :
           entries[p] # None => /\ AsCached(p) => AsCached(p)'
                                /\ RerunHolds(p),
         \A p \in todo'[t] : projects[p] # None /\ (p \in ps \/ AsCached(p)')
  PROVE  Comes
<1>1. /\ AtWork(t) /\ EntriesRight
      /\ \A u \in Tasks \ {t} : ~AtWork(u) /\ todo[u] = {}
      /\ pc[Startup] # "stage2"
  BY StageThreeKnows
<1>2. UNCHANGED <<wanted, manifest, missing, settings, cache, pending>>
  BY DEF outside
<1>3. AskedHold /\ ListComes' /\ ConfigComes' /\ SourcesCome'
  BY <1>1, <1>2, WorkStep, WorkSources
<1>4. ASSUME NEW p \in ps
      PROVE  p \in Projects /\ AsCached(p)' /\ status'[p] \notin Stage3Status
  BY <1>2 DEF AsCached, Stage2Entries, Stage2Statuses, Stage2Status, Stage3Status, Listed
<1>5. ASSUME NEW p \in Projects \ ps PROVE UNCHANGED <<entries[p], status[p]>>
  BY DEF Stage2Entries, Stage2Statuses
<1>6. EntriesRight'
  <2> SUFFICES ASSUME NEW p \in Projects, NEW c \in Settings, projects[p] = c, entries'[p] # None
               PROVE  EntryIs(p, c)'
    BY DEF EntriesRight
  <2>1. CASE p \in ps
    BY <1>4, <2>1 DEF EntryIs, Stage3Status
  <2>2. CASE p \notin ps
    <3>1. EntryIs(p, c)
      BY <1>1, <1>5, <2>2 DEF EntriesRight
    <3>2. CASE status[p] = "resolved"
      BY <1>2, <1>5, <2>2, <3>1, <3>2 DEF EntryIs, AsAnswered, RerunHolds
    <3>3. CASE status[p] # "resolved"
      BY <1>1, <1>5, <2>2, <3>1, <3>3 DEF EntryIs
    <3> QED
      BY <3>2, <3>3
  <2> QED
    BY <2>1, <2>2
<1>7. TodoCached'
  BY <1>1, <1>4 DEF TodoCached
<1>8. RunsRight' /\ \A u \in Tasks : ~Diffing(u)'
  BY <1>1 DEF RunsRight, Diffing, AtWork
<1> QED
  BY <1>3, <1>6, <1>7, <1>8 DEF Comes, EntriesCome

\* Routing reads the caches that were named and asks a run of the manifests named.
LEMMA RouteStage2Comes ==
  ASSUME QInv, NEW t \in Tasks, RouteStage2(t)
  PROVE  Comes
<1> DEFINE owners == {OwningProject(f[2]) : f \in {g \in job[t].files : g[1] = "cpcache"}}
           manifests == Manifests(t) \cap Listed(projects)
           stale == {p \in manifests \cup owners : entries[p] # cache[p]}
<1>1. /\ pc[t] = "stage3" /\ todo[t] = {}
      /\ UNCHANGED <<outside, projects, generation, sources, config, pc, ran, command, scan, raced>>
      /\ \A u \in Tasks : u # t => job'[u] = job[u] /\ todo'[u] = todo[u]
      /\ job'[t].files = job[t].files
      /\ todo'[t] = manifests \ ran[t]
      /\ entries' = Stage2Entries(stale) /\ status' = Stage2Statuses(stale)
  BY DEF RouteStage2, DiffOver, scanVars, QInv, LInv, TypeOK, TasksTyped, Jobs
<1>2. UNCHANGED <<manifest, missing, cache, pending>>
  BY <1>1 DEF outside
<1>3. \A p \in Projects : projects[p] # None <=> entries[p] # None
  BY <1>1, StageThreeKnows
<1>4. stale \in SUBSET Listed(projects)
  <2>1. owners \subseteq Listed(projects)
    BY <1>1, Owners, StageThree DEF QInv, LInv
  <2> QED
    BY <2>1
<1>5. ASSUME NEW p \in Projects \ stale, projects[p] # None, p \in manifests \cup owners \/ AsCached(p)
      PROVE  AsCached(p)'
  <2>1. entries'[p] = entries[p]
    BY <1>1, <1>5 DEF Stage2Entries
  <2>2. CASE entries[p] = cache[p]
    BY <1>2, <2>1, <2>2 DEF AsCached
  <2>3. CASE entries[p] # cache[p]
    <3>1. p \notin owners /\ AsCached(p)
      BY <1>5, <2>3
    <3>2. <<"cpcache", p>> \notin job[t].files
      <4> SUFFICES ASSUME <<"cpcache", p>> \in job[t].files PROVE OwningProject(p) \in owners
        BY <1>5, <3>1 DEF OwningProject
      <4> QED
        OBVIOUS
    <3>3. WillRoute(p)
      BY <2>3, <3>1 DEF AsCached
    <3> QED
      BY <1>1, <1>2, <3>2, <3>3 DEF AsCached, WillRoute
  <2> QED
    BY <2>2, <2>3
<1>6. ASSUME NEW p \in Projects, projects[p] # None PROVE RerunHolds(p)
  <2>1. <<"manifest", p>> \in job[t].files => p \in manifests
    BY <1>6 DEF Manifests, Listed
  <2> HIDE DEF manifests
  <2> QED
    BY <1>1, <1>2, <2>1 DEF RerunHolds, WillRerun
<1>7. \A p \in todo'[t] : p \in Projects /\ projects[p] # None /\ (p \in stale \/ AsCached(p)')
  BY <1>1, <1>5 DEF Listed
<1> HIDE DEF owners, manifests, stale
<1> QED
  BY <1>1, <1>3, <1>4, <1>5, <1>6, <1>7, BackComes

\* The forced run asks a run of every active project that has not had one.
LEMMA ForceStage3Comes ==
  ASSUME QInv, NEW t \in Tasks, ForceStage3(t)
  PROVE  Comes
<1> DEFINE forced == {p \in Listed(projects) : Active(projects[p]) /\ HasManifest(p)} \ ran[t]
           revert == Reverted(forced, status)
<1>1. /\ pc[t] = "stage3" /\ todo[t] = {} /\ job[t].files = {}
      /\ UNCHANGED <<outside, projects, generation, sources, config, pc, ran, command, scan, raced>>
      /\ \A u \in Tasks : u # t => job'[u] = job[u] /\ todo'[u] = todo[u]
      /\ job'[t].files = job[t].files
      /\ todo'[t] = forced
      /\ entries' = Stage2Entries(revert) /\ status' = Stage2Statuses(revert)
  BY DEF ForceStage3, DiffOver, scanVars, QInv, LInv, JobsShape, TypeOK, TasksTyped, Jobs
<1>2. UNCHANGED <<manifest, missing, cache, pending>>
  BY <1>1 DEF outside
<1>3. /\ \A p \in Projects : projects[p] # None <=> entries[p] # None
      /\ EntriesRight /\ pc[Startup] # "stage2"
  BY <1>1, StageThreeKnows
<1>4. revert \in SUBSET Listed(projects)
  BY DEF Reverted
<1>5. RoutesHold
  BY <1>1, <1>2 DEF RoutesHold, RouteHolds, RerunHolds, WillRoute, WillRerun
<1>6. \A p \in Projects \ revert : AsCached(p) => AsCached(p)'
  BY <1>1, <1>2, <1>5 DEF AsCached, RoutesHold, RouteHolds, Stage2Entries
<1>7. ASSUME NEW p \in forced PROVE projects[p] # None /\ (p \in revert \/ AsCached(p)')
  <2>1. p \in Projects /\ projects[p] # None /\ entries[p] # None
    BY <1>3 DEF Listed
  <2>2. projects[p] \in Settings
    BY <2>1 DEF QInv, LInv, TypeOK, SharedTyped
  <2>3. EntryIs(p, projects[p])
    BY <1>3, <2>1, <2>2 DEF EntriesRight
  <2>4. CASE status[p] \in Stage3Status
    BY <2>1, <2>4 DEF Reverted, Listed
  <2>5. CASE status[p] \notin Stage3Status /\ p \notin revert
    <3>1. AsCached(p)
      BY <1>3, <2>3, <2>5 DEF EntryIs, Stage3Status
    <3> QED
      BY <1>6, <2>1, <2>5, <3>1
  <2> QED
    BY <2>1, <2>4, <2>5
<1> HIDE DEF forced, revert
<1> QED
  BY <1>1, <1>4, <1>5, <1>6, <1>7, BackComes DEF RoutesHold

\* A task that gives the lock back has no file left to route.
LEMMA ReleaseComes ==
  ASSUME QInv, NEW t \in Tasks, Release(t)
  PROVE  Comes
<1>1. /\ pc[t] = "stage3" /\ todo[t] = {}
      /\ job[t].files = {} \/ job[t].phase = "rest"
      /\ UNCHANGED <<outside, projects, generation, entries, status, sources, config, todo, command, scan, raced>>
      /\ \A u \in Tasks : u # t => job'[u] = job[u] /\ ran'[u] = ran[u] /\ pc'[u] = pc[u]
      /\ pc'[t] = "free" /\ ran'[t] = {}
  BY DEF Release, Goto, shared, scanVars, QInv, LInv, JobsShape, TypeOK, TasksTyped, Jobs
<1>2. Carries
  BY <1>1 DEF Carries, Asked, outside
<1>3. AskedHold /\ RescanHolds /\ RoutesHold
  BY <1>2, PromisesHold
<1>4. \A p \in Projects : FileTold(p)
  BY <1>1 DEF FileTold, outside
<1>5. ListComes' /\ ConfigComes'
  BY <1>1, <1>3, ListStays, ConfigStays DEF QInv, outside
<1>6. SourcesCome'
  BY <1>1, <1>3, <1>4, SourcesStay DEF QInv, Diffing
<1>7. EntriesCome'
  <2>1. pc[Startup] # "stage2"
    BY <1>1, StageThreeKnows
  <2> QED
    BY <1>1, <1>3, <1>4, <2>1, EntriesStay DEF QInv, Diffing
<1> QED
  BY <1>5, <1>6, <1>7 DEF Comes

-----------------------------------------------------------------------------
\* Startup resolves the list once more and takes it, or a refresh is coming.
LEMMA StartupResolveComes ==
  ASSUME QInv, StartupResolve
  PROVE  Comes
<1>1. /\ scan.at = "resolve" /\ pc[Startup] = "initialize" /\ AtWork(Startup)
  BY DEF StartupResolve, QInv, LInv, IInv, StartupFirst, AtWork
<1>2. \A u \in Tasks \ {Startup} : ~AtWork(u)
  BY <1>1, Alone, PipelineAssumption DEF QInv, LInv
<1>3. PICK list \in [Projects -> Settings \cup {None}] :
          /\ \A p \in Projects : list[p] \in {scan.list[p], wanted[p]}
          /\ projects' = list
          /\ entries' = [p \in Projects |-> IF list[p] = None THEN None ELSE Empty]
          /\ status' = [p \in Projects |-> IF list[p] = None THEN "none"
                                           ELSE IF list[p].enabled THEN "unresolved"
                                           ELSE "disabled"]
          /\ scan' = [scan EXCEPT !.at = "load", !.list = list]
  BY DEF StartupResolve
<1>4. /\ UNCHANGED <<outside, generation, sources, config, job, todo, ran, command, raced>>
      /\ pc'[Startup] = "stage2"
      /\ \A u \in Tasks : u # Startup => pc'[u] = pc[u]
      /\ scan'.at = "load" /\ scan'.list = list
  BY <1>3, PipelineAssumption DEF StartupResolve, Goto, QInv, LInv, TypeOK, TasksTyped, ScanTyped
<1>5. UNCHANGED <<wanted, manifest, missing, settings, cache, pending>>
  BY <1>4 DEF outside
<1>6. \A u \in Tasks : ~Diffing(u)'
  BY <1>2, <1>4 DEF Diffing, AtWork
<1>7. AskedHold
  BY <1>1, <1>4, <1>5, AskedStay DEF AtWork, Asked
<1>8. ListComes'
  <2>1. scan.list = wanted => list = wanted
    BY <1>3 DEF QInv, LInv, TypeOK, OutsideTyped
  <2> QED
    BY <1>1, <1>3, <1>4, <1>5, <1>7, <2>1 DEF QInv, ListComes, AskedHold
<1>9. ConfigComes'
  BY <1>4 DEF ConfigComes
<1>10. SourcesCome'
  BY <1>3, <1>4, <1>6 DEF SourcesCome
<1>11. EntriesCome'
  <2>1. EntriesRight'
    BY <1>3, <1>4 DEF EntriesRight, EntryIs, Stage3Status
  <2>2. TodoCached'
    BY <1>1, <1>2, <1>4 DEF TodoCached, QInv, JobsShape, AtWork
  <2>3. RunsRight'
    BY <1>2, <1>4 DEF RunsRight, AtWork
  <2> QED
    BY <1>6, <2>1, <2>2, <2>3 DEF EntriesCome
<1> QED
  BY <1>8, <1>9, <1>10, <1>11 DEF Comes

\* Startup reads every cache and asks a run of every active project.
LEMMA StartupStage2Comes ==
  ASSUME QInv, StartupStage2
  PROVE  Comes
<1>1. pc[Startup] = "stage2" /\ AtWork(Startup)
  BY DEF StartupStage2, AtWork
<1>2. \A u \in Tasks \ {Startup} : ~AtWork(u)
  BY <1>1, Alone, PipelineAssumption DEF QInv, LInv
<1>3. /\ UNCHANGED <<outside, projects, generation, sources, config, job, ran, command, scan, raced>>
      /\ pc'[Startup] = "stage3"
      /\ \A u \in Tasks : u # Startup => pc'[u] = pc[u] /\ todo'[u] = todo[u]
      /\ todo'[Startup] \subseteq Listed(projects)
      /\ entries' = Stage2Entries(Listed(projects)) /\ status' = Stage2Statuses(Listed(projects))
  BY PipelineAssumption DEF StartupStage2, Goto, scanVars, QInv, LInv, TypeOK, TasksTyped
<1>4. UNCHANGED <<wanted, manifest, missing, settings, cache, pending>>
  BY <1>3 DEF outside
<1>5. AskedHold /\ ListComes' /\ ConfigComes' /\ SourcesCome'
  BY <1>1, <1>3, <1>4, WorkStep, WorkSources, PipelineAssumption
<1>6. ASSUME NEW p \in Listed(projects) PROVE AsCached(p)' /\ status'[p] \notin Stage3Status
  BY <1>3, <1>4 DEF AsCached, Stage2Entries, Stage2Statuses, Stage2Status, Stage3Status, Listed
<1>7. EntriesRight'
  BY <1>3, <1>6, PipelineAssumption DEF EntriesRight, EntryIs, Stage3Status, Listed
<1>8. TodoCached'
  BY <1>2, <1>3, <1>6 DEF TodoCached, QInv, JobsShape, AtWork, Listed
<1>9. RunsRight' /\ \A u \in Tasks : ~Diffing(u)'
  BY <1>2, <1>3 DEF RunsRight, Diffing, AtWork
<1> QED
  BY <1>5, <1>7, <1>8, <1>9 DEF Comes, EntriesCome

\* The startup scan merges what it found, unless an application overtook it.
LEMMA StartupScanComes ==
  ASSUME QInv, StartupLoad \/ StartupWalk \/ StartupMerge
  PROVE  Comes
<1>1. /\ UNCHANGED <<outside, projects, generation, entries, status, pc, job, todo, ran, command>>
      /\ scan.at # "resolve" /\ scan'.at # "resolve" /\ scan'.list = scan.list
  BY DEF StartupLoad, StartupWalk, StartupMerge, taskVars, shared, QInv, LInv, TypeOK, ScanTyped
<1>2. UNCHANGED <<wanted, manifest, missing, settings, cache, pending>>
  BY <1>1 DEF outside
<1>3. Carries /\ \A p \in Projects : FileTold(p)
  BY <1>1, <1>2 DEF Carries, FileTold
<1>4. AskedHold /\ RescanHolds /\ RoutesHold
  BY <1>3, PromisesHold
<1>5. ListComes'
  BY <1>1, <1>2, <1>4 DEF QInv, ListComes, AskedHold
<1>6. EntriesCome'
  BY <1>1, <1>3, <1>4, EntriesStay DEF QInv, Diffing
<1>7. CASE StartupLoad
  <2>1. config' = settings /\ scan'.at = "walk"
    BY <1>7 DEF StartupLoad, QInv, LInv, TypeOK, ScanTyped
  <2>2. ConfigComes' /\ SourcesCome'
    BY <1>1, <1>2, <2>1 DEF QInv, ConfigComes, SourcesCome, Diffing
  <2> QED
    BY <1>5, <1>6, <2>2 DEF Comes
<1>8. CASE StartupWalk
  <2>1. /\ scan.at = "walk" /\ scan'.at = "merge" /\ scan'.found = ScanOf(scan.list, config)
        /\ UNCHANGED config
    BY <1>8 DEF StartupWalk, shared, QInv, LInv, TypeOK, ScanTyped
  <2>2. ConfigComes'
    BY <1>2, <1>4, <2>1 DEF QInv, ConfigComes, AskedHold
  <2>3. SourcesCome'
    BY <1>1, <1>2, <2>1 DEF QInv, SourcesCome, Diffing, ScanOf
  <2> QED
    BY <1>5, <1>6, <2>2, <2>3 DEF Comes
<1>9. CASE StartupMerge
  <2>1. /\ scan.at = "merge" /\ scan'.at = "done" /\ sources' = scan.found
        /\ UNCHANGED config /\ raced' = (raced \/ generation > 0)
    BY <1>9 DEF StartupMerge, Overtaken, QInv, LInv, TypeOK, ScanTyped
  <2>2. ConfigComes'
    BY <1>2, <1>4, <2>1 DEF QInv, ConfigComes, AskedHold
  <2>3. ~raced' => generation = 0
    <3>1. ~raced' => ~(generation > 0)
      BY <2>1, Zenon
    <3>2. generation \in Nat
      BY DEF QInv, LInv, TypeOK, SharedTyped
    <3> QED
      BY <3>1, <3>2
  <2>4. SourcesCome'
    BY <1>1, <1>2, <1>4, <2>1, <2>3 DEF QInv, SourcesCome, RescanHolds, Diffing, ScanOf
  <2> QED
    BY <1>5, <1>6, <2>2, <2>4 DEF Comes
<1> QED
  BY <1>7, <1>8, <1>9

-----------------------------------------------------------------------------
\* Every step keeps the promises.
LEMMA StepQInv == QInv /\ [Next]_vars => QInv'
<1> SUFFICES ASSUME QInv, [Next]_vars PROVE QInv'
  OBVIOUS
<1>1. LInv' /\ JobsShape'
  BY StepLInv, StepJobsShape DEF QInv
<1>2. CASE UserInput \/ \E t \in Tasks \ {Startup} : Report(t)
  BY <1>1, <1>2, UserComes DEF QInv, Comes
<1>3. ASSUME NEW t \in Tasks, TaskStep(t) PROVE Comes
  BY <1>3, AskLockComes, RefreshComes, IndexSourcesComes, DiffLibrariesComes, BeginStage3Comes,
     EndStage3Comes, RouteStage2Comes, ForceStage3Comes, ReleaseComes DEF TaskStep
<1>4. CASE StartupStep
  BY <1>4, <1>1, StartupResolveComes, StartupStage2Comes, StartupScanComes DEF StartupStep, QInv, Comes
<1>5. CASE UNCHANGED vars
  <2>1. Comes
    BY <1>5, EditComes DEF vars, outside, FileTold
  <2> QED
    BY <1>1, <2>1 DEF QInv, Comes
<1> QED
  BY <1>1, <1>2, <1>3, <1>4, <1>5 DEF Next, QInv, Comes

\* They hold at the start.
LEMMA InitQInv == Init => QInv
<1> SUFFICES ASSUME Init PROVE QInv
  OBVIOUS
<1> USE PipelineAssumption
<1>1. JobsShape
  BY DEF Init, JobsShape, NoJob
<1>2. ListComes /\ ConfigComes
  BY DEF Init, ListComes, ConfigComes
<1>3. SourcesCome
  BY DEF Init, SourcesCome, Diffing
<1>4. EntriesCome
  BY DEF Init, EntriesCome, EntriesRight, TodoCached, RunsRight, Diffing
<1> QED
  BY InitLInv, <1>1, <1>2, <1>3, <1>4 DEF QInv

\* They hold in every reachable state.
LEMMA AlwaysQInv == Spec => []QInv
  BY InitQInv, StepQInv, PTL DEF Spec

\* With nothing promised, everything is as it was last asked.
LEMMA QuietMeansApplied == QInv => QuietIsApplied
<1> SUFFICES ASSUME QInv, Quiet, ~raced PROVE Applied
  BY DEF QuietIsApplied
<1>1. /\ pending = {} /\ scan.at = "done"
      /\ \A t \in Tasks : pc[t] = "free" /\ job[t].files = {} /\ todo[t] = {}
  BY DEF Quiet, QInv, JobsShape
<1>2. /\ ~WillRefresh /\ ~WillReload /\ ~WillRescan /\ ~MidDiff
      /\ \A p \in Projects : ~WillRoute(p) /\ ~WillRerun(p)
  BY <1>1 DEF WillRefresh, WillReload, WillRescan, WillRoute, WillRerun, Told, Asked, MidDiff
<1>3. projects = wanted /\ config = settings
  BY <1>1, <1>2 DEF QInv, ListComes, ConfigComes
<1>4. sources = ScanOf(wanted, settings)
  BY <1>1, <1>2, <1>3 DEF QInv, SourcesCome
<1>5. ASSUME NEW p \in Listed(wanted)
      PROVE  RightEntries(p) /\ (status[p] = "resolved" => wanted[p].enabled)
  <2>1. p \in Projects /\ projects[p] \in Settings /\ entries[p] \in Classpaths /\ p \notin missing
    BY <1>2, <1>3, <1>5 DEF Listed, QInv, LInv, TypeOK, SharedTyped, OutsideTyped, EntriesKept, Entered
  <2>2. EntryIs(p, projects[p]) /\ pc[Startup] # "stage2"
    BY <1>1, <1>2, <2>1, PipelineAssumption DEF QInv, EntriesCome, EntriesRight
  <2>3. CASE status[p] = "resolved"
    BY <1>2, <1>3, <2>1, <2>2, <2>3 DEF EntryIs, AsAnswered, RightEntries, Classpaths, Stage3Status
  <2>4. CASE status[p] # "resolved"
    BY <1>2, <2>1, <2>2, <2>4 DEF EntryIs, AsCached, RightEntries
  <2> QED
    BY <2>3, <2>4
<1> QED
  BY <1>3, <1>4, <1>5 DEF Applied

\* Whatever the order of edits, reports, commands and startup, once nothing is left
\* to do the list, the settings, the sources and the classpaths are the newest ones:
\* a change is never lost behind an older application (did_change_configuration,
\* did_change_watched_files, apply_project_diff, the config lock), unless the startup
\* scan was overtaken.
THEOREM NewestIsApplied == Spec => []QuietIsApplied
  BY AlwaysQInv, QuietMeansApplied, PTL
=============================================================================
