----------------------------- MODULE LintPasses -----------------------------
(***************************************************************************)
(* The lint passes of clj-pulse: which pass runs for which document, what  *)
(* supersedes it, and what the client is shown in the end.                 *)
(*                                                                         *)
(* Three kinds of actors touch the shared state, each on its own thread:   *)
(*  - the handler task: tower-lsp polls every notification handler in one  *)
(*    task, so didOpen, didChange, didSave and didClose never overlap;     *)
(*  - the passes: tokio tasks made by spawn_lint_pass;                     *)
(*  - the reloads: tokio tasks made by spawn_kondo_reload, which probe the *)
(*    clj-kondo engine and re-lint every open document.                    *)
(* A step of an actor ends where another thread can observe or change what *)
(* the actor does next: at a lock of a shared map, or at an await.         *)
(*                                                                         *)
(* An abort takes effect where the aborted task awaits and nowhere else: a *)
(* pass that is running when it is aborted goes on to its next await.      *)
(***************************************************************************)
EXTENDS Integers, FiniteSets

CONSTANTS
  Docs,          \* the documents the client opens
  Passes,        \* task identities; as many passes exist at a time, at most
  Reloads,       \* reload tasks that are in flight at a time, at most
  Engines,       \* the engines a probe can resolve to
  KondoEngines,  \* those of them that found a clj-kondo binary
  LargeDocs,     \* the documents over :live-max-kb
  Reasons,       \* why a clj-kondo run can fail
  Limit,         \* permits of KONDO_LIMIT
  FirstVersion,  \* the version a client gives a document it opens
  MaxRev,        \* bound: revisions drawn from NEXT_REV
  MaxEpoch,      \* bound: lint epoch of a document
  MaxReloads,    \* bound: reloads that settings or config files trigger
  None           \* no pass, no document, no engine, no failure

ASSUME LintAssumption ==
  /\ KondoEngines \subseteq Engines
  /\ LargeDocs \subseteq Docs
  /\ Limit \in Nat \ {0}
  /\ FirstVersion \in Nat
  /\ MaxRev \in Nat /\ MaxEpoch \in Nat /\ MaxReloads \in Nat
  /\ Reloads # {} /\ Engines \ KondoEngines # {}
  /\ None \notin Docs \cup Passes \cup Reloads \cup Engines \cup Reasons
  /\ {"none", "want", "run", "ok"} \cap Reasons = {}

VARIABLES
  (* DocumentStore *)
  rev,        \* docs: the revision of the open text, 0 when closed
  nextRev,    \* NEXT_REV
  accepted,   \* history: the revision of the last edit that got a version
  versions,   \* the LSP version, NoVersion when absent
  epochs,     \* lint_epochs; an absent entry reads as 0
  (* KondoWarmer *)
  engine,     \* state: what the last probe established
  health,     \* the reason of the last failed run, or None
  tasks,      \* the registry: the pass in flight for each document
  (* the passes *)
  pc,         \* where each pass is
  job,        \* what its trigger captured: LintPass and the document
  seen,       \* the revision its snapshot holds
  used,       \* the engine it read
  gaveUp,     \* its native tier noticed that the pass was superseded
  kondo,      \* the clj-kondo tier: "none", "want", "run", "ok", a reason
  aborted,    \* its AbortHandle was used
  passed,     \* history: its last staleness check was right to let it on
  permits,    \* free permits of KONDO_LIMIT
  (* the handler task *)
  hpc, hdoc, trigger,
  (* the reloads *)
  rpc,        \* where each reload is
  force,      \* force_relint
  changed,    \* engine_changed
  todo,       \* open documents it has still to re-lint
  captured,   \* the pass it is about to spawn
  probing,    \* the reload that holds KONDO_PROBE_LOCK
  reloads,    \* reloads triggered so far
  (* the client *)
  shown,      \* the diagnostics last published for each document
  status,     \* the lint status last sent: engine and detail
  raced       \* history: documents one of the two known races has hit

store    == <<rev, nextRev, accepted, versions, epochs>>
passVars == <<pc, job, seen, used, gaveUp, kondo, aborted, passed>>
registry == <<tasks, permits>>
handler  == <<hpc, hdoc, trigger>>
reloader == <<rpc, force, changed, todo, captured, probing, reloads>>
client   == <<shown, status, raced>>
vars == <<store, engine, health, passVars, registry, handler, reloader, client>>

NoVersion == -1
Triggers  == {"Open", "Save", "Change", "EngineChange"}

\* No diagnostics: none published yet, or cleared.
Clear == [version |-> NoVersion, epoch |-> 0, rev |-> 0, engine |-> None]

NoJob == [doc |-> None, version |-> NoVersion, epoch |-> 0, trigger |-> "Open"]

IsOpen(d) == rev[d] # 0

\* documents.current_version(&uri).unwrap_or(0)
VersionOrZero(d) == IF versions[d] = NoVersion THEN 0 ELSE versions[d]

\* The test a pass makes before and after its work, and its native tier in
\* between: still at the version and epoch of its trigger?
IsCurrent(p) ==
  /\ versions[job[p].doc] = job[p].version
  /\ epochs[job[p].doc] = job[p].epoch

\* Variant: the pass it replaces is not aborted.
SpawnLintPassNoAbort(d, version, epoch, why) ==
  \E p \in Passes :
    /\ pc[p] = "free" /\ p = CHOOSE q \in Passes : pc[q] = "free"
    /\ pc' = [pc EXCEPT ![p] = "delay"]
    /\ job' = [job EXCEPT ![p] = [doc |-> d, version |-> version,
                                  epoch |-> epoch, trigger |-> why]]
    /\ tasks' = [tasks EXCEPT ![d] = p]
    /\ UNCHANGED <<seen, used, gaveUp, kondo, aborted, passed, permits>>

(***************************************************************************)
(* spawn_lint_pass: spawn, register and abort are one step under the       *)
(* registry entry of the document.                                         *)
(***************************************************************************)
SpawnLintPass(d, version, epoch, why) ==
  \E p \in Passes :
    /\ pc[p] = "free" /\ p = CHOOSE q \in Passes : pc[q] = "free"
    /\ pc' = [pc EXCEPT ![p] = "delay"]
    /\ job' = [job EXCEPT ![p] = [doc |-> d, version |-> version,
                                  epoch |-> epoch, trigger |-> why]]
    /\ tasks' = [tasks EXCEPT ![d] = p]
    /\ aborted' = [q \in Passes |-> aborted[q] \/ q = tasks[d]]
    /\ UNCHANGED <<seen, used, gaveUp, kondo, passed, permits>>

\* A pass that is over leaves nothing behind but what it published.
Over(p) ==
  /\ pc' = [pc EXCEPT ![p] = "free"]
  /\ job' = [job EXCEPT ![p] = NoJob]
  /\ seen' = [seen EXCEPT ![p] = 0]
  /\ used' = [used EXCEPT ![p] = None]
  /\ gaveUp' = [gaveUp EXCEPT ![p] = FALSE]
  /\ kondo' = [kondo EXCEPT ![p] = "none"]
  /\ aborted' = [aborted EXCEPT ![p] = FALSE]
  /\ passed' = [passed EXCEPT ![p] = FALSE]

Goto(p, to) ==
  /\ pc' = [pc EXCEPT ![p] = to]

-----------------------------------------------------------------------------
(***************************************************************************)
(* The steps of a pass.                                                    *)
(***************************************************************************)

\* The debounce is over: re-check version and epoch, before any work.
Wake(p) ==
  /\ pc[p] = "delay" /\ ~aborted[p]
  /\ Goto(p, IF IsCurrent(p) THEN "snapshot" ELSE "retire")
  /\ UNCHANGED <<store, engine, health, job, seen, used, gaveUp, kondo, aborted,
                 passed, registry, handler, reloader, client>>

\* documents.snapshot: the text as it is now, whatever its version.
TakeSnapshot(p) ==
  /\ pc[p] = "snapshot"
  /\ Goto(p, IF IsOpen(job[p].doc) THEN "engine" ELSE "retire")
  /\ seen' = [seen EXCEPT ![p] = rev[job[p].doc]]
  /\ UNCHANGED <<store, engine, health, job, used, gaveUp, kondo, aborted, passed,
                 registry, handler, reloader, client>>

\* Reads the engine and decides whether clj-kondo has a say in this pass.
ReadEngine(p) ==
  /\ pc[p] = "engine"
  /\ Goto(p, "join")
  /\ used' = [used EXCEPT ![p] = engine]
  /\ LET overLiveMax == job[p].trigger = "Change" /\ job[p].doc \in LargeDocs
     IN  kondo' = [kondo EXCEPT ![p] = IF engine \in KondoEngines /\ ~overLiveMax
                                       THEN "want" ELSE "none"]
  /\ UNCHANGED <<store, engine, health, job, seen, gaveUp, aborted, passed,
                 registry, handler, reloader, client>>

\* The native tier runs on a blocking thread, which no abort stops. It gives up
\* when it notices that the pass is stale, and it need not notice; else it ends
\* with its findings at any time before CheckStale.
NativeGivesUp(p) ==
  /\ pc[p] = "join" /\ ~IsCurrent(p) /\ ~gaveUp[p]
  /\ gaveUp' = [gaveUp EXCEPT ![p] = TRUE]
  /\ UNCHANGED <<store, engine, health, pc, job, seen, used, kondo, aborted, passed,
                 registry, handler, reloader, client>>

\* KONDO_LIMIT.acquire().await
AcquirePermit(p) ==
  /\ pc[p] = "join" /\ kondo[p] = "want" /\ ~aborted[p]
  /\ permits > 0
  /\ permits' = permits - 1
  /\ kondo' = [kondo EXCEPT ![p] = "run"]
  /\ UNCHANGED <<store, engine, health, pc, job, seen, used, gaveUp, aborted, passed,
                 tasks, handler, reloader, client>>

\* kondo::lint answers, fails or times out, and the permit is dropped.
KondoTier(p) ==
  /\ pc[p] = "join" /\ kondo[p] = "run" /\ ~aborted[p]
  /\ permits' = permits + 1
  /\ \E result \in {"ok"} \cup Reasons : kondo' = [kondo EXCEPT ![p] = result]
  /\ UNCHANGED <<store, engine, health, pc, job, seen, used, gaveUp, aborted, passed,
                 tasks, handler, reloader, client>>

\* Variant: only the engine is checked again.
StillValidEngineOnly(p) == engine = used[p]

StillValid(p) == IsCurrent(p) /\ engine = used[p]

\* The staleness check after the join. A native tier that gave up ends the
\* pass as well, after the health transition.
CheckStale(p) ==
  /\ pc[p] = "join" /\ kondo[p] \notin {"want", "run"}
  /\ Goto(p, IF ~StillValid(p) THEN "retire"
             ELSE IF kondo[p] = "none" THEN "publish" ELSE "health")
  /\ passed' = [passed EXCEPT ![p] = IsCurrent(p)]
  /\ UNCHANGED <<store, engine, health, job, seen, used, gaveUp, kondo, aborted,
                 registry, handler, reloader, client>>

\* report_lint_failure and report_lint_recovery up to their first await: the
\* transition is recorded, and announced only when it is news.
RecordHealth(p) ==
  LET next == IF kondo[p] = "ok" THEN None ELSE kondo[p]
  IN  /\ pc[p] = "health"
      /\ health' = next
      /\ Goto(p, IF next # health THEN "log" ELSE "publish")
      /\ UNCHANGED <<store, engine, job, seen, used, gaveUp, kondo, aborted, passed,
                     registry, handler, reloader, client>>

\* send_lint_status, once the log message is out.
AnnounceHealth(p) ==
  /\ pc[p] = "log"
  /\ status' = [engine |-> engine, detail |-> health]
  /\ Goto(p, "announced")
  /\ UNCHANGED <<store, engine, health, job, seen, used, gaveUp, kondo, aborted,
                 passed, registry, handler, reloader, shown, raced>>

\* publish_diagnostics. A pass that is aborted or goes stale between its
\* staleness check and this line publishes all the same: the first of the two
\* races.
Publish(p) ==
  LET d == job[p].doc IN
  /\ pc[p] \in {"publish", "announced"}
  /\ IF gaveUp[p] THEN UNCHANGED <<shown, raced>>
     ELSE /\ shown' = [shown EXCEPT ![d] =
                         [version |-> job[p].version, epoch |-> job[p].epoch,
                          rev |-> seen[p], engine |-> used[p]]]
          /\ raced' = IF passed[p] /\ (aborted[p] \/ ~IsCurrent(p)) THEN raced \cup {d} ELSE raced
  /\ Goto(p, "retire")
  /\ UNCHANGED <<store, engine, health, job, seen, used, gaveUp, kondo, aborted,
                 passed, registry, handler, reloader, status>>

\* tasks.remove_if: only this task's own entry.
Retire(p) ==
  /\ pc[p] = "retire"
  /\ tasks' = [tasks EXCEPT ![job[p].doc] = IF @ = p THEN None ELSE @]
  /\ Over(p)
  /\ UNCHANGED <<store, engine, health, permits, handler, reloader, client>>

\* Variants: the permit is lost with the task, or given back in any case.
DropKeepsPermit(p) ==
  /\ aborted[p]
  /\ pc[p] \in {"delay", "join", "log", "announced"}
  /\ Over(p)
  /\ UNCHANGED <<store, engine, health, tasks, permits, handler, reloader, client>>

DropAlwaysReleases(p) ==
  /\ aborted[p]
  /\ pc[p] \in {"delay", "join", "log", "announced"}
  /\ permits' = permits + 1
  /\ Over(p)
  /\ UNCHANGED <<store, engine, health, tasks, handler, reloader, client>>

\* An aborted task is dropped at an await: its permit goes back and the
\* clj-kondo it spawned is killed. It never reaches Retire.
Drop(p) ==
  /\ aborted[p]
  /\ pc[p] \in {"delay", "join", "log", "announced"}
  /\ permits' = IF kondo[p] = "run" THEN permits + 1 ELSE permits
  /\ Over(p)
  /\ UNCHANGED <<store, engine, health, tasks, handler, reloader, client>>

-----------------------------------------------------------------------------
(***************************************************************************)
(* The handler task.                                                       *)
(***************************************************************************)

HandlerGoto(to, d, why) == hpc' = to /\ hdoc' = d /\ trigger' = why
HandlerIdle == HandlerGoto("idle", None, "Open")

\* documents.open, and every apply_changes, draws a revision.
DrawRev(d) ==
  /\ nextRev <= MaxRev
  /\ rev' = [rev EXCEPT ![d] = nextRev]
  /\ nextRev' = nextRev + 1

DidOpen(d) ==
  /\ hpc = "idle" /\ ~IsOpen(d)
  /\ DrawRev(d)
  /\ HandlerGoto("set_version", d, "Open")
  /\ UNCHANGED <<accepted, versions, epochs, engine, health, passVars, registry,
                 reloader, client>>

\* A batch the store rejects part-way has changed the text all the same; the
\* handler returns, and no pass starts.
DidChange(d) ==
  /\ hpc = "idle" /\ IsOpen(d) /\ epochs[d] < MaxEpoch
  /\ DrawRev(d)
  /\ \/ HandlerGoto("set_version", d, "Change")
     \/ UNCHANGED handler
  /\ UNCHANGED <<accepted, versions, epochs, engine, health, passVars, registry,
                 reloader, client>>

\* set_version, and for an edit bump_lint_epoch right after it: the passes that
\* the bump retires were retired by the version.
SetVersion ==
  /\ hpc = "set_version"
  /\ versions' = [versions EXCEPT ![hdoc] =
                     IF @ = NoVersion THEN FirstVersion ELSE @ + 1]
  /\ accepted' = [accepted EXCEPT ![hdoc] = rev[hdoc]]
  /\ epochs' = [epochs EXCEPT ![hdoc] = IF trigger = "Change" THEN @ + 1 ELSE @]
  /\ HandlerGoto("spawn", hdoc, trigger)
  /\ UNCHANGED <<rev, nextRev, engine, health, passVars, registry,
                 reloader, client>>

\* A save runs the full engine, and bumps the epoch to retire a change pass
\* that is still waiting.
DidSave(d) ==
  /\ hpc = "idle" /\ IsOpen(d) /\ epochs[d] < MaxEpoch
  /\ epochs' = [epochs EXCEPT ![d] = @ + 1]
  /\ HandlerGoto("spawn", d, "Save")
  /\ UNCHANGED <<rev, nextRev, accepted, versions, engine, health, passVars, registry,
                 reloader, client>>

HandlerSpawns ==
  /\ hpc = "spawn"
  /\ SpawnLintPass(hdoc, VersionOrZero(hdoc), epochs[hdoc], trigger)
  /\ HandlerIdle
  /\ UNCHANGED <<store, engine, health, reloader, client>>

\* abort_lint_pass
DidClose(d) ==
  /\ hpc = "idle" /\ IsOpen(d)
  /\ aborted' = [q \in Passes |-> aborted[q] \/ q = tasks[d]]
  /\ tasks' = [tasks EXCEPT ![d] = None]
  /\ HandlerGoto("forget", d, "Open")
  /\ UNCHANGED <<store, engine, health, pc, job, seen, used, gaveUp, kondo, passed,
                 permits, reloader, client>>

\* documents.close
Forget ==
  /\ hpc = "forget"
  /\ rev' = [rev EXCEPT ![hdoc] = 0]
  /\ versions' = [versions EXCEPT ![hdoc] = NoVersion]
  /\ epochs' = [epochs EXCEPT ![hdoc] = 0]
  /\ accepted' = [accepted EXCEPT ![hdoc] = 0]
  /\ HandlerGoto("clear", hdoc, "Open")
  /\ UNCHANGED <<nextRev, engine, health, passVars, registry, reloader, client>>

\* publish_diagnostics(uri, vec![], None)
ClearDiagnostics ==
  /\ hpc = "clear"
  /\ shown' = [shown EXCEPT ![hdoc] = Clear]
  /\ HandlerIdle
  /\ UNCHANGED <<store, engine, health, passVars, registry, reloader, status, raced>>

-----------------------------------------------------------------------------
(***************************************************************************)
(* The reloads.  A settings change and the config file watchers store or   *)
(* change a config layer first, then spawn one of these.                   *)
(***************************************************************************)

Trigger(r, at, relint) ==
  /\ hpc = "idle" /\ rpc[r] = "free" /\ reloads < MaxReloads
  /\ reloads' = reloads + 1
  /\ rpc' = [rpc EXCEPT ![r] = at]
  /\ force' = [force EXCEPT ![r] = relint]
  /\ UNCHANGED <<store, engine, health, passVars, registry, handler, changed, todo,
                 captured, probing, client>>

\* didChangeConfiguration: the editor layer changes.
DidChangeConfiguration(r) == Trigger(r, "queue", FALSE)

\* .clj-pulse/config.edn changed: the file layer changes.
DidChangePulseConfig(r) == Trigger(r, "queue", TRUE)

\* .clj-kondo/config.edn changed: clj-kondo reports differently, no probe.
DidChangeKondoConfig(r) == Trigger(r, "list", TRUE)

\* Under KONDO_PROBE_LOCK the probe answers with whatever the settings of its time
\* resolve to (KondoEngine says which); the engine is replaced and its health
\* reset.
Probe(r) ==
  /\ rpc[r] = "queue" /\ probing = None
  /\ probing' = r
  /\ \E found \in Engines :
       /\ engine' = found
       /\ changed' = [changed EXCEPT ![r] = engine # found]
  /\ health' = None
  /\ rpc' = [rpc EXCEPT ![r] = "announce"]
  /\ UNCHANGED <<store, passVars, registry, handler, force, todo, captured, reloads,
                 client>>

Announce(r) ==
  /\ rpc[r] = "announce"
  /\ status' = [engine |-> engine, detail |-> health]
  /\ probing' = None
  /\ rpc' = [rpc EXCEPT ![r] = "list"]
  /\ UNCHANGED <<store, engine, health, passVars, registry, handler, force, changed,
                 todo, captured, reloads, shown, raced>>

\* Variant: a changed engine re-lints nothing by itself.
ListOpenForcedOnly(r) ==
  /\ rpc[r] = "list"
  /\ todo' = [todo EXCEPT ![r] = IF force[r] THEN {d \in Docs : IsOpen(d)} ELSE {}]
  /\ rpc' = [rpc EXCEPT ![r] = "relint"]
  /\ UNCHANGED <<store, engine, health, passVars, registry, handler, force, changed,
                 captured, probing, reloads, client>>

\* relint_open_documents: documents.open_uris()
ListOpen(r) ==
  /\ rpc[r] = "list"
  /\ todo' = [todo EXCEPT ![r] = IF changed[r] \/ force[r]
                                 THEN {d \in Docs : IsOpen(d)} ELSE {}]
  /\ rpc' = [rpc EXCEPT ![r] = "relint"]
  /\ UNCHANGED <<store, engine, health, passVars, registry, handler, force, changed,
                 captured, probing, reloads, client>>

\* Reads version and epoch of the next document ...
Capture(r) ==
  /\ rpc[r] = "relint" /\ captured[r] = NoJob
  /\ \E d \in todo[r] :
       /\ todo' = [todo EXCEPT ![r] = @ \ {d}]
       /\ captured' = [captured EXCEPT ![r] =
            [doc |-> d, version |-> VersionOrZero(d), epoch |-> epochs[d],
             trigger |-> "EngineChange"]]
  /\ UNCHANGED <<store, engine, health, passVars, registry, handler, rpc, force, changed,
                 probing, reloads, client>>

\* ... and only then takes its registry entry. What it captured may be stale by
\* now, and its pass replaces whichever is there: the second of the two races.
Relint(r) ==
  LET c == captured[r] IN
  /\ rpc[r] = "relint" /\ c # NoJob
  /\ SpawnLintPass(c.doc, c.version, c.epoch, c.trigger)
  /\ captured' = [captured EXCEPT ![r] = NoJob]
  /\ raced' = IF versions[c.doc] = c.version /\ epochs[c.doc] = c.epoch
              THEN raced ELSE raced \cup {c.doc}
  /\ UNCHANGED <<store, engine, health, handler, rpc, force, changed, todo,
                 probing, reloads, shown, status>>

ReloadEnds(r) ==
  /\ rpc[r] = "relint" /\ todo[r] = {} /\ captured[r] = NoJob
  /\ rpc' = [rpc EXCEPT ![r] = "free"]
  /\ force' = [force EXCEPT ![r] = FALSE]
  /\ changed' = [changed EXCEPT ![r] = FALSE]
  /\ UNCHANGED <<store, engine, health, passVars, registry, handler, todo,
                 captured, probing, reloads, client>>

-----------------------------------------------------------------------------
\* The session begins with the probe that initialize spawned still to come.
Init ==
  /\ rev = [d \in Docs |-> 0] /\ nextRev = 1
  /\ accepted = [d \in Docs |-> 0]
  /\ versions = [d \in Docs |-> NoVersion]
  /\ epochs = [d \in Docs |-> 0]
  /\ engine \in Engines \ KondoEngines
  /\ health = None
  /\ tasks = [d \in Docs |-> None]
  /\ pc = [p \in Passes |-> "free"]
  /\ job = [p \in Passes |-> NoJob]
  /\ seen = [p \in Passes |-> 0]
  /\ used = [p \in Passes |-> None]
  /\ gaveUp = [p \in Passes |-> FALSE]
  /\ kondo = [p \in Passes |-> "none"]
  /\ aborted = [p \in Passes |-> FALSE]
  /\ passed = [p \in Passes |-> FALSE]
  /\ permits = Limit
  /\ hpc = "idle" /\ hdoc = None /\ trigger = "Open"
  /\ rpc = [r \in Reloads |-> IF r = (CHOOSE s \in Reloads : TRUE) THEN "queue" ELSE "free"]
  /\ force = [r \in Reloads |-> FALSE]
  /\ changed = [r \in Reloads |-> FALSE]
  /\ todo = [r \in Reloads |-> {}]
  /\ captured = [r \in Reloads |-> NoJob]
  /\ probing = None
  /\ reloads = 0
  /\ shown = [d \in Docs |-> Clear]
  /\ status = [engine |-> engine, detail |-> None]
  /\ raced = {}

PassStep(p) ==
  \/ Wake(p) \/ TakeSnapshot(p) \/ ReadEngine(p) \/ NativeGivesUp(p)
  \/ AcquirePermit(p) \/ KondoTier(p) \/ CheckStale(p) \/ RecordHealth(p)
  \/ AnnounceHealth(p) \/ Publish(p) \/ Retire(p) \/ Drop(p)

ClientInput(d) == DidOpen(d) \/ DidChange(d) \/ DidSave(d) \/ DidClose(d)

HandlerStep ==
  SetVersion \/ HandlerSpawns \/ Forget \/ ClearDiagnostics

SettingsInput(r) ==
  DidChangeConfiguration(r) \/ DidChangePulseConfig(r) \/ DidChangeKondoConfig(r)

ReloadStep(r) ==
  \/ Probe(r) \/ Announce(r) \/ ListOpen(r)
  \/ Capture(r) \/ Relint(r) \/ ReloadEnds(r)

Next ==
  \/ \E p \in Passes : PassStep(p)
  \/ \E d \in Docs : ClientInput(d)
  \/ HandlerStep
  \/ \E r \in Reloads : SettingsInput(r) \/ ReloadStep(r)

Spec == Init /\ [][Next]_vars

\* tokio runs every task that can run; clj-kondo answers or is killed at its
\* timeout. The client owes nothing: its inputs have no fairness.
Fairness ==
  /\ \A p \in Passes : WF_vars(PassStep(p))
  /\ WF_vars(HandlerStep)
  /\ \A r \in Reloads : WF_vars(ReloadStep(r))

FairSpec == Spec /\ Fairness

-----------------------------------------------------------------------------
Jobs == [doc : Docs \cup {None}, version : Int, epoch : Nat, trigger : Triggers]

\* The type of every variable.
TypeOK ==
  /\ rev \in [Docs -> Nat] /\ nextRev \in Nat \ {0} /\ accepted \in [Docs -> Nat]
  /\ versions \in [Docs -> Int] /\ epochs \in [Docs -> Nat]
  /\ engine \in Engines /\ health \in Reasons \cup {None}
  /\ tasks \in [Docs -> Passes \cup {None}]
  /\ pc \in [Passes -> {"free", "delay", "snapshot", "engine", "join", "health", "log",
                        "announced", "publish", "retire"}]
  /\ job \in [Passes -> Jobs] /\ seen \in [Passes -> Nat]
  /\ used \in [Passes -> Engines \cup {None}]
  /\ gaveUp \in [Passes -> BOOLEAN]
  /\ kondo \in [Passes -> {"none", "want", "run", "ok"} \cup Reasons]
  /\ aborted \in [Passes -> BOOLEAN] /\ passed \in [Passes -> BOOLEAN]
  /\ permits \in 0..Limit
  /\ hpc \in {"idle", "set_version", "spawn", "forget", "clear"}
  /\ hdoc \in Docs \cup {None} /\ trigger \in Triggers
  /\ hpc = "idle" <=> hdoc = None
  /\ rpc \in [Reloads -> {"free", "queue", "announce", "list", "relint"}]
  /\ force \in [Reloads -> BOOLEAN] /\ changed \in [Reloads -> BOOLEAN]
  /\ todo \in [Reloads -> SUBSET Docs] /\ captured \in [Reloads -> Jobs]
  /\ probing \in Reloads \cup {None} /\ reloads \in Nat
  /\ shown \in [Docs -> [version : Int, epoch : Nat, rev : Nat,
                          engine : Engines \cup {None}]]
  /\ status \in [engine : Engines, detail : Reasons \cup {None}]
  /\ raced \subseteq Docs

\* A document has one pass that can still publish, the registered one: every
\* other live pass is aborted.  (The registry entry held across spawn and
\* abort, and remove_if's test of the task's id.)
OneLivePass ==
  \A p \in Passes : pc[p] # "free" /\ ~aborted[p] => tasks[job[p].doc] = p

\* No permit of KONDO_LIMIT is lost or minted, whatever is aborted and when.
PermitsConserved ==
  permits + Cardinality({p \in Passes : kondo[p] = "run"}) = Limit

\* What the client sees of a document is what it should see.
UpToDate(d) ==
  IF IsOpen(d)
  THEN /\ shown[d].version = versions[d] /\ shown[d].epoch = epochs[d]
       /\ shown[d].engine = engine /\ shown[d].rev >= accepted[d]
  ELSE shown[d] = Clear

\* Nothing that is under way will publish for a document.
Quiet(d) ==
  /\ hdoc # d
  /\ \A p \in Passes : job[p].doc # d
  /\ \A r \in Reloads : rpc[r] \in {"free", "queue"}

\* Once nothing is under way for a document, its diagnostics are those of its
\* last edit or save under the current engine, and a closed document has none,
\* unless one of the two known races hit it: superseding, retiring and
\* re-linting never lose a pass that had to run.
QuietIsUpToDate == \A d \in Docs \ raced : Quiet(d) => UpToDate(d)

\* The marks that Diagnostics speaks of: a document's, and its diagnostics'.
MarkOf(version, epoch) == [version |-> version, epoch |-> epoch]
Service == INSTANCE Diagnostics WITH
  wanted <- [d \in Docs |-> MarkOf(versions[d], epochs[d])],
  shown  <- [d \in Docs |-> MarkOf(shown[d].version, shown[d].epoch)],
  lost   <- raced

\* The passes implement the service of Diagnostics: whatever overlaps, is
\* aborted or comes late, a document is only ever shown the diagnostics of the
\* version and lint epoch it has at that moment. So they never go back, a
\* superseded pass never overwrites its successor's findings, nor a keystroke's
\* native set the full set of the save after it.
ImplementsDiagnostics == Service!Spec

\* When the client and the settings come to rest, so do the diagnostics, and
\* they are right.
Settles == \A d \in Docs : <>[](d \in raced \/ UpToDate(d))

-----------------------------------------------------------------------------
(* What the repository says of itself and the code does not do. *)

\* The comment in spawn_lint_pass: registering under the entry keeps a race
\* from "leaving the document with no diagnostics at all".
OpenDocHasDiagnostics == \A d \in Docs : Quiet(d) /\ IsOpen(d) => shown[d] # Clear

\* docs/LINTING.md: a failing clj-kondo "says so once", in the log and as "the
\* detail of the lint status the extension receives"; "clj-kondo recovered
\* follows the next run that succeeds".
StatusTellsHealth ==
  /\ \A p \in Passes : pc[p] = "free"
  /\ \A r \in Reloads : rpc[r] \in {"free", "queue"}
  => status.detail = health

=============================================================================
