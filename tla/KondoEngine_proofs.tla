------------------------- MODULE KondoEngine_proofs -------------------------
(***************************************************************************)
(* The probes and the scans of clj-kondo, for any number of projects,      *)
(* engines, reloads and applications.                                      *)
(***************************************************************************)
EXTENDS KondoEngine, TLAPS

(***************************************************************************)
(* A probe that runs may carry obsolete settings; what keeps it from being *)
(* the last is that somebody is behind it. The newest settings are always  *)
(* on their way: not reported yet, or in the hands of a reload that will   *)
(* still read them, or of the only one that probes, or established.        *)
(***************************************************************************)
ProbeHolds == \A r \in Reloads : pc[r] \in {"probe", "announce"} => probing = r

ProbeHasSettings == \A r \in Reloads : pc[r] = "probe" => config[r] \in Engines

OnTheirWay ==
  \/ unreported
  \/ \E r \in Reloads : pc[r] = "queue"
  \/ \E r \in Reloads : pc[r] = "probe" /\ config[r] = wanted
  \/ engine = wanted /\ \A r \in Reloads : pc[r] # "probe"

(***************************************************************************)
(* What was scanned last, if it was recorded, is what the record says; and *)
(* what waits for the lock is a scan of a classpath of a project.          *)
(***************************************************************************)
LastIsRecorded == \A p \in Projects : last[p] \in {None, warmed[p]}

ScansAreOfProjects ==
  \A t \in Tasks : pc[t] \in {"gen", "wait", "scan"} =>
    scan[t].project \in Projects /\ scan[t].entries \in Classpaths

(***************************************************************************)
(* Only what holds the ConfigApplyLock touches the list and the entries,   *)
(* and it works through projects that are still listed.                    *)
(***************************************************************************)
OneApplication ==
  \A a \in Applies : pc[a] \notin {"free", "spawned"} =>
    /\ applying = a
    /\ pc[a] \in {"settle", "rest"} => todo[a] \subseteq projects

StartupIsFirst == pc[Startup] = "resolve" => projects = {}

ReloadsOnlyWarm ==
  \A r \in Reloads : pc[r] \notin {"spawned", "resolve", "refresh", "settle", "rest"}

IInv ==
  /\ TypeOK
  /\ ProbeHolds /\ ProbeHasSettings /\ OnTheirWay
  /\ LastIsRecorded /\ ScansAreOfProjects
  /\ OneApplication /\ StartupIsFirst /\ ReloadsOnlyWarm

USE DEF IInv, Tasks, Goto, settings, shared, locks, taskVars, history

-----------------------------------------------------------------------------
(* The steps that leave the list, the entries and the records alone: the whole *)
(* invariant is in view.                                                       *)

USE DEF TypeOK, ProbeHolds, ProbeHasSettings, OnTheirWay, LastIsRecorded,
  ScansAreOfProjects, OneApplication, StartupIsFirst, ReloadsOnlyWarm, Pcs, Kinds

\* The editor layer is stored: a reload is queued behind it.
LEMMA DidChangeConfigurationInv ==
  ASSUME IInv, NEW r \in Reloads, NEW a \in Applies, DidChangeConfiguration(r, a)
  PROVE  IInv'
BY KondoAssumption DEF DidChangeConfiguration, Change, Spawn

\* Nobody has been told yet.
LEMMA EditPulseConfigInv ==
  ASSUME IInv, EditPulseConfig
  PROVE  IInv'
BY KondoAssumption DEF EditPulseConfig, Change

\* The report queues a reload.
LEMMA DidChangePulseConfigInv ==
  ASSUME IInv, NEW r \in Reloads, NEW a \in Applies, DidChangePulseConfig(r, a)
  PROVE  IInv'
BY KondoAssumption DEF DidChangePulseConfig, Spawn

\* No probe, no lock yet.
LEMMA DidChangeFilesInv ==
  ASSUME IInv, NEW a \in Applies, DidChangeFiles(a)
  PROVE  IInv'
BY KondoAssumption DEF DidChangeFiles, Change, Spawn

\* As above.
LEMMA RescanInv ==
  ASSUME IInv, NEW a \in Applies, Rescan(a)
  PROVE  IInv'
BY KondoAssumption DEF Rescan, Change, Spawn

\* The reload takes the newest settings with it.
LEMMA LockProbeInv ==
  ASSUME IInv, NEW r \in Reloads, LockProbe(r)
  PROVE  IInv'
BY KondoAssumption DEF LockProbe

\* It is the only one that probes: either its settings are the newest, or they
\* are still with others.
LEMMA ProbeInv ==
  ASSUME IInv, NEW r \in Reloads, Probe(r)
  PROVE  IInv'
BY KondoAssumption DEF Probe

\* The engine is settled; the lock is free for the next probe.
LEMMA AnnounceInv ==
  ASSUME IInv, NEW r \in Reloads, Announce(r)
  PROVE  IInv'
BY KondoAssumption DEF Announce

\* The ConfigApplyLock was free, so nobody is at work.
LEMMA LockApplyInv ==
  ASSUME IInv, NEW a \in Applies, LockApply(a)
  PROVE  IInv'
BY KondoAssumption DEF LockApply

\* On to the warm.
LEMMA SettledInv ==
  ASSUME IInv, NEW a \in Applies, Settled(a)
  PROVE  IInv'
BY KondoAssumption DEF Settled

\* The lock is dropped with the task.
LEMMA ReleaseInv ==
  ASSUME IInv, NEW a \in Applies, Release(a)
  PROVE  IInv'
BY KondoAssumption DEF Release

\* An application goes through the projects listed now, under its lock.
LEMMA EndWarmInv ==
  ASSUME IInv, NEW t \in Tasks, EndWarm(t)
  PROVE  IInv'
BY KondoAssumption DEF EndWarm

\* Nothing is scanned yet.
LEMMA BeginWarmInv ==
  ASSUME IInv, NEW t \in Tasks, BeginWarm(t)
  PROVE  IInv'
BY KondoAssumption DEF BeginWarm

\* The generation is a number of the past.
LEMMA ReadGenerationInv ==
  ASSUME IInv, NEW t \in Tasks, ReadGeneration(t)
  PROVE  IInv'
BY KondoAssumption DEF ReadGeneration

\* The scan starts under the lock, or the project is left alone.
LEMMA LockWarmInv ==
  ASSUME IInv, NEW t \in Tasks, LockWarm(t)
  PROVE  IInv'
BY KondoAssumption DEF LockWarm, StillWorthwhile, NextProject, NoScan

HIDE DEF TypeOK, ProbeHolds, ProbeHasSettings, OnTheirWay, LastIsRecorded,
  ScansAreOfProjects, OneApplication, StartupIsFirst, ReloadsOnlyWarm, Pcs, Kinds

-----------------------------------------------------------------------------
(* The steps that change them: one part of the invariant after the other.      *)

\* The list changes under the lock; what is no longer listed loses its entries.
LEMMA RefreshInv ==
  ASSUME IInv, NEW a \in Applies, Refresh(a)
  PROVE  IInv'
<1>1. TypeOK'
  BY KondoAssumption DEF TypeOK, Pcs, OneApplication, StartupIsFirst, ScansAreOfProjects,
     ReloadsOnlyWarm, Refresh
<1>2. ProbeHolds' /\ ProbeHasSettings' /\ OnTheirWay'
  BY KondoAssumption DEF TypeOK, Pcs, ProbeHolds, ProbeHasSettings, OnTheirWay, Refresh
<1>3. LastIsRecorded' /\ ScansAreOfProjects'
  BY KondoAssumption DEF TypeOK, Pcs, LastIsRecorded, ScansAreOfProjects, Refresh
<1>4. OneApplication' /\ StartupIsFirst' /\ ReloadsOnlyWarm'
  BY KondoAssumption DEF TypeOK, Pcs, OneApplication, StartupIsFirst, ReloadsOnlyWarm,
     Refresh
<1> QED BY <1>1, <1>2, <1>3, <1>4

\* Only a listed project is given entries.
LEMMA SettleInv ==
  ASSUME IInv, NEW a \in Applies, NEW p \in Projects, Settle(a, p)
  PROVE  IInv'
<1>1. TypeOK'
  BY KondoAssumption DEF TypeOK, Pcs, OneApplication, StartupIsFirst, ScansAreOfProjects,
     ReloadsOnlyWarm, Settle, SetEntries
<1>2. ProbeHolds' /\ ProbeHasSettings' /\ OnTheirWay'
  BY KondoAssumption DEF TypeOK, Pcs, ProbeHolds, ProbeHasSettings, OnTheirWay, Settle,
     SetEntries
<1>3. LastIsRecorded' /\ ScansAreOfProjects'
  BY KondoAssumption DEF TypeOK, Pcs, LastIsRecorded, ScansAreOfProjects, Settle, SetEntries
<1>4. OneApplication' /\ StartupIsFirst' /\ ReloadsOnlyWarm'
  BY KondoAssumption DEF TypeOK, Pcs, OneApplication, StartupIsFirst, ReloadsOnlyWarm,
     Settle, SetEntries
<1> QED BY <1>1, <1>2, <1>3, <1>4

\* Likewise after the diff.
LEMMA SettleRestInv ==
  ASSUME IInv, NEW a \in Applies, NEW p \in Projects, SettleRest(a, p)
  PROVE  IInv'
<1>1. TypeOK'
  BY KondoAssumption DEF TypeOK, Pcs, OneApplication, StartupIsFirst, ScansAreOfProjects,
     ReloadsOnlyWarm, SettleRest, SetEntries
<1>2. ProbeHolds' /\ ProbeHasSettings' /\ OnTheirWay'
  BY KondoAssumption DEF TypeOK, Pcs, ProbeHolds, ProbeHasSettings, OnTheirWay, SettleRest,
     SetEntries
<1>3. LastIsRecorded' /\ ScansAreOfProjects'
  BY KondoAssumption DEF TypeOK, Pcs, LastIsRecorded, ScansAreOfProjects, SettleRest,
     SetEntries
<1>4. OneApplication' /\ StartupIsFirst' /\ ReloadsOnlyWarm'
  BY KondoAssumption DEF TypeOK, Pcs, OneApplication, StartupIsFirst, ReloadsOnlyWarm,
     SettleRest, SetEntries
<1> QED BY <1>1, <1>2, <1>3, <1>4

\* What is captured is a classpath: a project without entries is passed over.
LEMMA CaptureInv ==
  ASSUME IInv, NEW t \in Tasks, NEW p \in Projects, Capture(t, p)
  PROVE  IInv'
<1> DEFINE captured == [project |-> p, entries |-> entries[p], gen |-> 0]
<1>1. CASE Worthwhile(p)
  <2>1. captured \in [project : Projects, entries : Classpaths, gen : Nat]
    BY <1>1, KondoAssumption DEF TypeOK, Worthwhile
  <2>2. scan' = [scan EXCEPT ![t] = captured] /\ pc' = [pc EXCEPT ![t] = "gen"] /\ todo' = todo
    BY <1>1 DEF Capture, NoScan
  <2>3. missed' \subseteq missed /\ pc[t] = "next"
    BY DEF Capture
  <2>4. UNCHANGED <<settings, shared, locks, kind, config, changed, tried, last>>
    BY DEF Capture
  <2> HIDE DEF captured
  <2>5. TypeOK'
    BY <2>1, <2>2, <2>3, <2>4 DEF TypeOK, Pcs
  <2>6. ProbeHolds' /\ ProbeHasSettings' /\ OnTheirWay'
    BY <2>2, <2>3, <2>4 DEF TypeOK, ProbeHolds, ProbeHasSettings, OnTheirWay
  <2>7. LastIsRecorded' /\ ScansAreOfProjects'
    BY <2>1, <2>2, <2>3, <2>4 DEF TypeOK, LastIsRecorded, ScansAreOfProjects
  <2>8. OneApplication' /\ StartupIsFirst' /\ ReloadsOnlyWarm'
    BY <2>2, <2>3, <2>4, KondoAssumption
       DEF TypeOK, OneApplication, StartupIsFirst, ReloadsOnlyWarm
  <2> QED BY <2>5, <2>6, <2>7, <2>8
<1>2. CASE ~Worthwhile(p)
  BY <1>2, KondoAssumption DEF TypeOK, Pcs, ProbeHolds, ProbeHasSettings, OnTheirWay,
     LastIsRecorded,
     ScansAreOfProjects, OneApplication, StartupIsFirst, ReloadsOnlyWarm, Capture
<1> QED BY <1>1, <1>2

\* What is recorded is what was scanned; what failed is nothing.
LEMMA EndScanInv ==
  ASSUME IInv, NEW t \in Tasks, EndScan(t)
  PROVE  IInv'
<1>1. TypeOK'
  BY KondoAssumption DEF TypeOK, Pcs, OneApplication, StartupIsFirst, ScansAreOfProjects,
     ReloadsOnlyWarm, EndScan, NextProject, NoScan
<1>2. ProbeHolds' /\ ProbeHasSettings' /\ OnTheirWay'
  BY KondoAssumption DEF TypeOK, Pcs, ProbeHolds, ProbeHasSettings, OnTheirWay, EndScan,
     NextProject, NoScan
<1>3. LastIsRecorded' /\ ScansAreOfProjects'
  BY KondoAssumption DEF TypeOK, Pcs, LastIsRecorded, ScansAreOfProjects, EndScan,
     NextProject, NoScan
<1>4. OneApplication' /\ StartupIsFirst' /\ ReloadsOnlyWarm'
  BY KondoAssumption DEF TypeOK, Pcs, OneApplication, StartupIsFirst, ReloadsOnlyWarm,
     EndScan, NextProject, NoScan
<1> QED BY <1>1, <1>2, <1>3, <1>4

\* Nobody but startup has worked before: the projects have no entries.
LEMMA StartupResolveInv ==
  ASSUME IInv, StartupResolve
  PROVE  IInv'
<1>1. TypeOK'
  BY KondoAssumption DEF TypeOK, Pcs, OneApplication, StartupIsFirst, ScansAreOfProjects,
     ReloadsOnlyWarm, StartupResolve
<1>2. ProbeHolds' /\ ProbeHasSettings' /\ OnTheirWay'
  BY KondoAssumption DEF TypeOK, Pcs, ProbeHolds, ProbeHasSettings, OnTheirWay,
     StartupResolve
<1>3. LastIsRecorded' /\ ScansAreOfProjects'
  BY KondoAssumption DEF TypeOK, Pcs, LastIsRecorded, ScansAreOfProjects, StartupResolve
<1>4. OneApplication' /\ StartupIsFirst' /\ ReloadsOnlyWarm'
  BY KondoAssumption DEF TypeOK, Pcs, OneApplication, StartupIsFirst, ReloadsOnlyWarm,
     StartupResolve
<1> QED BY <1>1, <1>2, <1>3, <1>4

-----------------------------------------------------------------------------
LEMMA InitIInv == Init => IInv
<1> SUFFICES ASSUME Init PROVE IInv
  OBVIOUS
<1>1. TypeOK
  <2>1. NoScan \in [project : Projects \cup {None}, entries : Classpaths \cup {None},
     gen : Nat]
    BY DEF NoScan
  <2>2. scan \in [Tasks -> [project : Projects \cup {None},
     entries : Classpaths \cup {None},
                          gen : Nat]]
    BY <2>1 DEF Init
  <2>3. pc \in [Tasks -> Pcs] /\ warming = None /\ \A t \in Tasks : pc[t] # "scan" /\ t # None
    BY KondoAssumption DEF Init, Pcs
  <2>4. /\ kind \in [Tasks -> Kinds \cup {"none"}] /\ config \in [Tasks -> Engines \cup {None}]
        /\ changed \in [Tasks -> BOOLEAN] /\ todo \in [Tasks -> SUBSET Projects]
    BY DEF Init, Kinds
  <2>5. /\ entries \in [Projects -> Classpaths \cup {None}]
        /\ warmed \in [Projects -> Classpaths \cup {None}]
        /\ tried \in [Projects -> SUBSET Classpaths]
        /\ last \in [Projects -> Classpaths \cup {None}]
        /\ \A p \in Projects \ projects : entries[p] = None
    BY DEF Init
  <2>6. wanted \in Engines /\ engine \in Engines /\ changes \in 0..MaxChanges /\ generation \in Nat
    BY KondoAssumption DEF Init
  <2>7. /\ unreported \in BOOLEAN /\ projects \subseteq Projects /\ missed \subseteq Projects
        /\ probing = None /\ applying \in Applies
    BY KondoAssumption DEF Init
  <2> QED BY <2>2, <2>3, <2>4, <2>5, <2>6, <2>7 DEF TypeOK
<1>2. ProbeHolds /\ ProbeHasSettings /\ OnTheirWay
  BY KondoAssumption DEF Init, ProbeHolds, ProbeHasSettings, OnTheirWay
<1>3. LastIsRecorded /\ ScansAreOfProjects
  BY DEF Init, LastIsRecorded, ScansAreOfProjects
<1>4. OneApplication /\ StartupIsFirst /\ ReloadsOnlyWarm
  BY KondoAssumption DEF Init, OneApplication, StartupIsFirst, ReloadsOnlyWarm
<1> QED BY <1>1, <1>2, <1>3, <1>4

\* Every step is one of the above, or a stutter.
LEMMA NextIInv == IInv /\ [Next]_vars => IInv'
<1> SUFFICES ASSUME IInv, [Next]_vars PROVE IInv'
  OBVIOUS
<1>1. CASE UserInput \/ Report
  BY <1>1, DidChangeConfigurationInv, EditPulseConfigInv, DidChangePulseConfigInv,
     DidChangeFilesInv, RescanInv DEF UserInput, Report
<1>2. ASSUME NEW r \in Reloads, ReloadStep(r) PROVE IInv'
  BY <1>2, LockProbeInv, ProbeInv, AnnounceInv DEF ReloadStep
<1>3. ASSUME NEW a \in Applies, ApplyStep(a) PROVE IInv'
  BY <1>3, LockApplyInv, RefreshInv, SettleInv, SettledInv, SettleRestInv, ReleaseInv
     DEF ApplyStep
<1>4. ASSUME NEW t \in Tasks, WarmStep(t) PROVE IInv'
  BY <1>4, BeginWarmInv, CaptureInv, ReadGenerationInv, LockWarmInv, EndScanInv, EndWarmInv
     DEF WarmStep
<1>5. CASE UNCHANGED vars
  BY <1>5 DEF vars, TypeOK, ProbeHolds, ProbeHasSettings, OnTheirWay, LastIsRecorded,
     ScansAreOfProjects, OneApplication, StartupIsFirst, ReloadsOnlyWarm
<1> QED BY <1>1, <1>2, <1>3, <1>4, <1>5, StartupResolveInv DEF Next

THEOREM Invariance == Spec => []IInv
BY InitIInv, NextIInv, PTL DEF Spec

-----------------------------------------------------------------------------
\* The state of the engine keeps its type, and KONDO_WARM_LOCK is held exactly
\* where clj-kondo runs over a classpath (warm_kondo_caches).
THEOREM TypeCorrect == Spec => []TypeOK
<1>1. IInv => TypeOK
  OBVIOUS
<1> QED BY <1>1, Invariance, PTL

\* However many reloads queue and however slow their probes are, the last one
\* to establish the engine has read the newest settings (KONDO_PROBE_LOCK in
\* probe_and_announce).
THEOREM NewestSettings == Spec => []NewestSettingsWin
<1>1. IInv => NewestSettingsWin
  BY DEF OnTheirWay, NewestSettingsWin
<1> QED BY <1>1, Invariance, PTL

\* A recorded classpath is never scanned twice in a row, whichever reload or
\* application was queued for it (the guards of warm_kondo_caches).
THEOREM NeverTwice == Spec => NoRepeatedScan
<1> DEFINE Once == \A t \in Tasks : pc[t] # "scan" /\ pc'[t] = "scan" =>
                     last[scan[t].project] # scan[t].entries
<1>1. ASSUME IInv, NEW u \in Tasks, LockWarm(u) PROVE Once
  <2> SUFFICES ASSUME NEW t \in Tasks, pc[t] # "scan", pc'[t] = "scan"
               PROVE  last[scan[t].project] # scan[t].entries
    OBVIOUS
  <2>1. t = u /\ pc[u] = "wait" /\ StillWorthwhile(u)
    BY <1>1 DEF LockWarm, NextProject, TypeOK
  <2>2. scan[t].project \in Projects /\ scan[t].entries \in Classpaths
    BY <1>1, <2>1 DEF ScansAreOfProjects
  <2> QED BY <1>1, <2>1, <2>2, KondoAssumption DEF StillWorthwhile, LastIsRecorded
<1>2. IInv /\ [Next]_vars => [Once]_vars
  <2> SUFFICES ASSUME IInv, Next PROVE Once
    BY DEF vars
  <2>1. ASSUME NEW t \in Tasks, pc[t] # "scan", pc'[t] = "scan" PROVE LockWarm(t)
    <3>1. CASE UserInput \/ Report \/ StartupResolve
      BY <2>1, <3>1, KondoAssumption DEF UserInput, Report, StartupResolve,
         DidChangeConfiguration,
         EditPulseConfig, DidChangePulseConfig, DidChangeFiles, Rescan, Spawn, TypeOK
    <3>2. ASSUME NEW r \in Reloads, ReloadStep(r) PROVE FALSE
      BY <2>1, <3>2 DEF ReloadStep, LockProbe, Probe, Announce, TypeOK
    <3>3. ASSUME NEW a \in Applies, ApplyStep(a) PROVE FALSE
      BY <2>1, <3>3 DEF ApplyStep, LockApply, Refresh, Settle, SetEntries, Settled,
         SettleRest,
         Release, TypeOK
    <3>4. ASSUME NEW u \in Tasks, WarmStep(u) PROVE LockWarm(t)
      <4>1. u = t \/ pc'[t] = pc[t]
        BY <3>4 DEF WarmStep, BeginWarm, Capture, ReadGeneration, LockWarm, NextProject,
           EndScan,
           EndWarm, TypeOK
      <4> QED BY <2>1, <3>4, <4>1 DEF WarmStep, BeginWarm, Capture, ReadGeneration, EndScan,
                NextProject, EndWarm, TypeOK
    <3> QED BY <3>1, <3>2, <3>3, <3>4 DEF Next
  <2> QED BY <1>1, <2>1
<1> QED BY <1>2, Invariance, PTL DEF Spec, NoRepeatedScan

-----------------------------------------------------------------------------
(***************************************************************************)
(* A classpath that clj-kondo has not been run over is in somebody's       *)
(* hands: an application still at work on its entries will warm, and so    *)
(* will a reload that found another engine; a warm that has begun has the  *)
(* project before it, and if it has captured the project's entries, they   *)
(* are the ones the project still has.                                     *)
(***************************************************************************)
Warms(t, p) ==
  /\ pc[t] \in {"next", "gen", "wait", "scan"} /\ p \in todo[t]
  /\ pc[t] # "next" /\ scan[t].project = p => scan[t].entries = entries[p]

WillWarm(p) ==
  \/ \E t \in Tasks : pc[t] = "announce" /\ changed[t]
  \/ \E t \in Tasks : pc[t] \in {"settle", "warm"} \/ Warms(t, p)

Promised(p) == entries[p] \in tried[p] \cup {None} \/ WillWarm(p)

WarmsComing ==
  engine \in KondoEngines => \A p \in (projects \cap KondoDirs) \ missed : Promised(p)

WarmedWereTried == \A p \in Projects : warmed[p] \in tried[p] \cup {None}

WInv == IInv /\ WarmedWereTried /\ WarmsComing

\* What is spawned or edited has not touched an entry.
LEMMA ChangesKeepWarms ==
  ASSUME WInv, NEW r \in Reloads, NEW a \in Applies,
         \/ DidChangeConfiguration(r, a) \/ EditPulseConfig \/ DidChangePulseConfig(r, a)
         \/ DidChangeFiles(a) \/ Rescan(a)
  PROVE  WarmedWereTried' /\ WarmsComing'
BY KondoAssumption
   DEF WInv, WarmedWereTried, WarmsComing, Promised, WillWarm, Warms, TypeOK,
       OneApplication, DidChangeConfiguration, EditPulseConfig, DidChangePulseConfig,
       DidChangeFiles, Rescan, Change, Spawn

\* A probe that finds another engine takes all the projects in hand.
LEMMA ProbesKeepWarms ==
  ASSUME WInv, NEW r \in Reloads, LockProbe(r) \/ Probe(r) \/ Announce(r)
  PROVE  WarmedWereTried' /\ WarmsComing'
<1> USE DEF WarmsComing, Promised, WillWarm, Warms, WarmedWereTried
<1>1. CASE LockProbe(r)
  BY <1>1 DEF WInv, TypeOK, LockProbe
<1>2. CASE Probe(r)
  <2>1. /\ engine' = config[r] /\ changed'[r] = (engine # config[r])
        /\ pc' = [pc EXCEPT ![r] = "announce"] /\ pc[r] = "probe"
        /\ \A u \in Reloads \cup Applies : u # r => changed'[u] = changed[u]
    BY <1>2 DEF Probe, WInv, TypeOK
  <2>2. engine' # engine => changed'[r]
    BY <2>1, Zenon
  <2>3. UNCHANGED <<projects, entries, warmed, todo, scan, tried, missed>>
    BY <1>2 DEF Probe
  <2>4. CASE engine' # engine
    BY <2>1, <2>2, <2>3, <2>4 DEF WInv, TypeOK
  <2>5. CASE engine' = engine
    BY <2>1, <2>3, <2>5 DEF WInv, TypeOK
  <2> QED
    BY <2>4, <2>5
<1>3. CASE Announce(r)
  BY <1>3 DEF WInv, TypeOK, Announce
<1> QED
  BY <1>1, <1>2, <1>3

\* An application settles until it warms, and ends after.
LEMMA ApplyKeepsWarms ==
  ASSUME WInv, NEW a \in Applies, LockApply(a) \/ Settled(a) \/ Release(a)
  PROVE  WarmedWereTried' /\ WarmsComing'
BY KondoAssumption
   DEF WInv, WarmedWereTried, WarmsComing, Promised, WillWarm, Warms, TypeOK,
       OneApplication, LockApply, Settled, Release

\* A refresh takes entries away, and gives none.
LEMMA RefreshKeepsWarms ==
  ASSUME WInv, NEW a \in Applies, Refresh(a)
  PROVE  WarmedWereTried' /\ WarmsComing'
<1> USE KondoAssumption DEF WInv, WarmsComing, Promised, WarmedWereTried
<1>1. /\ pc[a] = "refresh" /\ pc'[a] # "refresh"
      /\ UNCHANGED <<engine, warmed, tried, missed, changed, scan>>
      /\ \A p \in Projects : entries'[p] \in {entries[p], None}
      /\ \A p \in Projects : p \notin projects => entries'[p] = None
      /\ \A t \in Tasks : t # a => UNCHANGED <<pc[t], todo[t]>>
  BY DEF Refresh, TypeOK
<1>2. \A p \in Projects : entries'[p] # None /\ WillWarm(p) => WillWarm(p)'
  BY <1>1 DEF WillWarm, Warms
<1>3. projects' \subseteq Projects
  BY DEF Refresh
<1> QED
  BY <1>1, <1>2, <1>3 DEF TypeOK

\* Who gives a project other entries is to warm it.
LEMMA SettleKeepsWarms ==
  ASSUME WInv, NEW a \in Applies, NEW p \in Projects, Settle(a, p)
  PROVE  WarmedWereTried' /\ WarmsComing'
BY KondoAssumption
   DEF WInv, WarmedWereTried, WarmsComing, Promised, WillWarm, Warms, TypeOK,
       OneApplication, Settle, SetEntries

\* Who gives it other entries after the warm has missed it.
LEMMA SettleRestKeepsWarms ==
  ASSUME WInv, NEW a \in Applies, NEW p \in Projects, SettleRest(a, p)
  PROVE  WarmedWereTried' /\ WarmsComing'
BY KondoAssumption
   DEF WInv, WarmedWereTried, WarmsComing, Promised, WillWarm, Warms, TypeOK,
       OneApplication, SettleRest, SetEntries

\* A warm begins with every listed project, and ends with none left.
LEMMA WarmKeepsWarms ==
  ASSUME WInv, NEW t \in Tasks, BeginWarm(t) \/ ReadGeneration(t) \/ EndWarm(t)
  PROVE  WarmedWereTried' /\ WarmsComing'
BY KondoAssumption
   DEF WInv, WarmedWereTried, WarmsComing, Promised, WillWarm, Warms, TypeOK,
       OneApplication, BeginWarm, ReadGeneration, EndWarm

\* A project is passed over when there is nothing to scan, or it was scanned.
LEMMA CaptureKeepsWarms ==
  ASSUME WInv, NEW t \in Tasks, NEW p \in Projects, Capture(t, p)
  PROVE  WarmedWereTried' /\ WarmsComing'
<1> USE KondoAssumption DEF WInv, WarmsComing, Promised, WarmedWereTried
<1>1. /\ UNCHANGED <<engine, projects, entries, warmed, tried, changed>>
      /\ pc[t] = "next" /\ p \in todo[t] /\ missed' = missed \ {p}
      /\ \A u \in Tasks : u # t => UNCHANGED <<pc[u], todo[u], scan[u]>>
  BY DEF Capture, TypeOK
<1>2. CASE Worthwhile(p)
  <2>1. /\ todo'[t] = todo[t] /\ pc'[t] = "gen"
        /\ scan'[t].project = p /\ scan'[t].entries = entries[p]
    <3> DEFINE captured == [project |-> p, entries |-> entries[p], gen |-> 0]
    <3>1. /\ todo' = todo /\ pc' = [pc EXCEPT ![t] = "gen"]
          /\ scan' = [scan EXCEPT ![t] = captured]
      BY <1>2 DEF Capture, NoScan
    <3>2. captured.project = p /\ captured.entries = entries[p]
      OBVIOUS
    <3> HIDE DEF captured
    <3> QED
      BY <3>1, <3>2 DEF TypeOK
  <2>2. \A q \in Projects : WillWarm(q) => WillWarm(q)'
    BY <1>1, <2>1 DEF WillWarm, Warms
  <2>3. WillWarm(p)'
    BY <1>1, <2>1 DEF WillWarm, Warms
  <2> QED
    BY <1>1, <2>2, <2>3
<1>3. CASE ~Worthwhile(p)
  <2>1. todo'[t] = todo[t] \ {p} /\ UNCHANGED <<scan, pc>>
    BY <1>3 DEF Capture, TypeOK
  <2>2. \A q \in Projects : q # p /\ WillWarm(q) => WillWarm(q)'
    BY <1>1, <2>1 DEF WillWarm, Warms
  <2>3. p \in KondoDirs => entries[p] \in tried[p] \cup {None}
    BY <1>3 DEF Worthwhile
  <2> QED
    BY <1>1, <2>2, <2>3
<1> QED
  BY <1>2, <1>3

\* A captured project is given up for other entries, which somebody else will
\* warm, or for a scan of the same ones that another task has recorded.
LEMMA LockWarmKeepsWarms ==
  ASSUME WInv, NEW t \in Tasks, LockWarm(t)
  PROVE  WarmedWereTried' /\ WarmsComing'
<1> USE KondoAssumption DEF WInv, WarmsComing, Promised, WarmedWereTried
<1>1. /\ UNCHANGED <<engine, projects, entries, warmed, tried, missed, changed>>
      /\ pc[t] = "wait"
      /\ \A u \in Tasks : u # t => UNCHANGED <<pc[u], todo[u], scan[u]>>
  BY DEF LockWarm, NextProject, TypeOK
<1>2. CASE StillWorthwhile(t)
  <2>1. UNCHANGED <<todo, scan>> /\ pc'[t] = "scan"
    BY <1>2 DEF LockWarm, TypeOK
  <2>2. \A q \in Projects : WillWarm(q) => WillWarm(q)'
    BY <1>1, <2>1 DEF WillWarm, Warms
  <2> QED
    BY <1>1, <2>2
<1>3. CASE ~StillWorthwhile(t)
  <2>1. PICK p \in Projects : scan[t].project = p
    BY <1>1 DEF ScansAreOfProjects
  <2>2. todo'[t] = todo[t] \ {p} /\ pc'[t] = "next"
    BY <1>3, <2>1 DEF LockWarm, NextProject, TypeOK
  <2>3. \A q \in Projects : q # p /\ WillWarm(q) => WillWarm(q)'
    BY <1>1, <2>2 DEF WillWarm, Warms
  <2>4. Promised(p) => Promised(p)'
    <3>1. CASE entries[p] # scan[t].entries
      BY <1>1, <2>2, <2>1, <3>1 DEF WillWarm, Warms
    <3>2. CASE entries[p] = scan[t].entries
      BY <1>1, <1>3, <2>1, <3>2 DEF StillWorthwhile
    <3> QED
      BY <3>1, <3>2
  <2> QED
    BY <1>1, <2>3, <2>4
<1> QED
  BY <1>2, <1>3

\* What was captured is scanned.
LEMMA EndScanKeepsWarms ==
  ASSUME WInv, NEW t \in Tasks, EndScan(t)
  PROVE  WarmedWereTried' /\ WarmsComing'
BY KondoAssumption
   DEF WInv, WarmedWereTried, WarmsComing, Promised, WillWarm, Warms, TypeOK,
       OneApplication, EndScan, NextProject, NoScan

\* The first list has no entries.
LEMMA StartupKeepsWarms ==
  ASSUME WInv, StartupResolve
  PROVE  WarmedWereTried' /\ WarmsComing'
BY KondoAssumption
   DEF WInv, WarmedWereTried, WarmsComing, Promised, WillWarm, Warms, TypeOK,
       OneApplication, StartupResolve

\* Nothing has entries at the start.
LEMMA InitWInv == Init => WInv
<1> SUFFICES ASSUME Init PROVE WInv
  OBVIOUS
<1>1. WarmedWereTried /\ WarmsComing
  BY DEF Init, WarmedWereTried, WarmsComing
<1> QED
  BY <1>1, InitIInv DEF WInv

\* Every step leaves every project in somebody's hands.
LEMMA StepWInv == WInv /\ [Next]_vars => WInv'
<1> SUFFICES ASSUME WInv, [Next]_vars PROVE WarmedWereTried' /\ WarmsComing'
  BY NextIInv DEF WInv
<1>1. CASE UserInput \/ Report
  BY <1>1, KondoAssumption, ChangesKeepWarms DEF UserInput, Report
<1>2. ASSUME NEW r \in Reloads, ReloadStep(r) PROVE WarmedWereTried' /\ WarmsComing'
  BY <1>2, ProbesKeepWarms DEF ReloadStep
<1>3. ASSUME NEW a \in Applies, ApplyStep(a) PROVE WarmedWereTried' /\ WarmsComing'
  BY <1>3, ApplyKeepsWarms, RefreshKeepsWarms, SettleKeepsWarms, SettleRestKeepsWarms
     DEF ApplyStep
<1>4. ASSUME NEW t \in Tasks, WarmStep(t) PROVE WarmedWereTried' /\ WarmsComing'
  BY <1>4, WarmKeepsWarms, CaptureKeepsWarms, LockWarmKeepsWarms, EndScanKeepsWarms
     DEF WarmStep
<1>5. CASE UNCHANGED vars
  BY <1>5 DEF vars, WInv, WarmedWereTried, WarmsComing, Promised, WillWarm, Warms
<1> QED
  BY <1>1, <1>2, <1>3, <1>4, <1>5, StartupKeepsWarms DEF Next

\* Whichever of the probe and the indexing ends last, and however many reloads and
\* applications meet at KONDO_WARM_LOCK, clj-kondo has been run over the classpath of
\* every project once all of them have ended: none leaves a project to a task that
\* has already passed it (warm_kondo_caches, spawn_kondo_reload). What an application
\* finds after its own warm is the exception, in `missed'.
THEOREM EveryProjectIsWarmed == Spec => []QuietIsWarmed
<1>1. WInv => QuietIsWarmed
  BY KondoAssumption DEF WInv, WarmsComing, Promised, WillWarm, Warms, Quiet, QuietIsWarmed
<1> QED
  BY <1>1, InitWInv, StepWInv, PTL DEF Spec
=============================================================================
