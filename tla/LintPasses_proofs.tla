-------------------------- MODULE LintPasses_proofs --------------------------
(***************************************************************************)
(* The lint passes, for any number of documents, passes, reloads, engines  *)
(* and permits.                                                            *)
(***************************************************************************)
EXTENDS LintPasses, FiniteSetTheorems, TLAPS

(***************************************************************************)
(* Part 1: the shapes.  What the place of a pass, of the handler and of a  *)
(* reload says of what they hold, and which pass the registry names.       *)
(***************************************************************************)
Checked == {"health", "log", "announced", "publish"}

\* A free pass holds nothing; one under way is for a document, has a clj-kondo
\* tier only in the join, and is past the staleness check only if it passed it.
PassesHold ==
  \A p \in Passes :
    /\ pc[p] = "free" => ~gaveUp[p] /\ ~aborted[p] /\ kondo[p] = "none"
    /\ pc[p] # "free" => job[p].doc \in Docs /\ job[p].version \in Nat
    /\ pc[p] \in {"delay", "snapshot", "engine"} => ~gaveUp[p] /\ kondo[p] = "none"
    /\ kondo[p] \in {"want", "run"} => pc[p] = "join"
    /\ pc[p] = "health" => kondo[p] # "none"
    /\ pc[p] \in Checked => passed[p]

\* The registry names live passes of its documents and no aborted one.
Registered ==
  \A d \in Docs : tasks[d] # None =>
    pc[tasks[d]] # "free" /\ ~aborted[tasks[d]] /\ job[tasks[d]].doc = d

\* What a re-lint has captured is a document that was open.
CapturesAreOfDocs ==
  \A r \in Reloads : captured[r] # NoJob => captured[r].doc \in Docs /\ captured[r].version \in Nat

Running == {p \in Passes : kondo[p] = "run"}

\* A document is versioned once its open handler has got that far, and until it
\* is forgotten; revisions are drawn in order.
StoreHolds ==
  /\ \A d \in Docs :
       /\ versions[d] \in Nat \cup {NoVersion}
       /\ accepted[d] <= rev[d] /\ rev[d] < nextRev
       /\ rev[d] = 0 => versions[d] = NoVersion /\ epochs[d] = 0
       /\ rev[d] # 0 /\ versions[d] = NoVersion => hdoc = d /\ hpc = "set_version"
  /\ hpc \in {"set_version", "spawn"} => rev[hdoc] # 0
  /\ hpc = "spawn" => versions[hdoc] # NoVersion
  /\ hpc = "clear" => rev[hdoc] = 0

Shapes ==
  /\ TypeOK /\ PassesHold /\ Registered /\ CapturesAreOfDocs /\ StoreHolds
  /\ OneLivePass /\ IsFiniteSet(Running) /\ PermitsConserved

(***************************************************************************)
(* Part 2: the promise.                                                    *)
(***************************************************************************)

\* A reload will re-lint the document, if it is still open.
ReloadComes(d) ==
  \E r \in Reloads :
    \/ rpc[r] \in {"announce", "list"} /\ changed[r]
    \/ rpc[r] = "relint" /\ (d \in todo[r] \/ captured[r].doc = d)

\* The pass is the one in force for the document.
InForce(p, d) == pc[p] # "free" /\ ~aborted[p] /\ job[p].doc = d /\ IsCurrent(p)

\* It goes on to publish, if nothing comes between.
WillShow(p, d) ==
  /\ InForce(p, d) /\ ~gaveUp[p] /\ pc[p] # "retire"
  /\ pc[p] \in {"join"} \cup Checked => used[p] = engine

\* A pass in force has seen a text that is new enough, and if the engine has
\* changed since its check, the reload that changed it is still to come.
Fresh(p, d) ==
  InForce(p, d) =>
    /\ pc[p] \in {"engine", "join"} \cup Checked => seen[p] >= accepted[d]
    /\ pc[p] \in Checked /\ used[p] # engine => ReloadComes(d)

Promised(d) ==
  hdoc # d =>
    /\ IsOpen(d) => \A p \in Passes : Fresh(p, d)
    /\ \/ UpToDate(d)
       \/ IsOpen(d) /\ (ReloadComes(d) \/ \E p \in Passes : WillShow(p, d))

\* A document that neither race has hit, and that the handler is not at, shows
\* what it should, or what will be shown is under way.
NothingIsLost == \A d \in Docs \ raced : Promised(d)
USE DEF store, passVars, registry, handler, reloader, client, Goto, Triggers, Jobs, NoVersion, NoJob

-----------------------------------------------------------------------------
(* Part 1.  What several of the steps do. *)

\* The pass that is spawned is the one registered, and it has aborted the one before.
LEMMA SpawnRegisters ==
  ASSUME Shapes, NEW d \in Docs, NEW version \in Nat, NEW epoch \in Nat, NEW why \in Triggers,
         SpawnLintPass(d, version, epoch, why)
  PROVE  Registered' /\ OneLivePass'
<1> USE DEF Shapes, TypeOK, PassesHold, Registered, OneLivePass
<1>1. PICK p \in Passes :
        /\ pc[p] = "free"
        /\ pc' = [pc EXCEPT ![p] = "delay"]
        /\ job' = [job EXCEPT ![p] = [doc |-> d, version |-> version,
                                      epoch |-> epoch, trigger |-> why]]
        /\ tasks' = [tasks EXCEPT ![d] = p]
        /\ aborted' = [q \in Passes |-> aborted[q] \/ q = tasks[d]]
  BY DEF SpawnLintPass
<1>2. Registered'
  BY <1>1, LintAssumption
<1>3. ASSUME NEW q \in Passes, pc'[q] # "free", ~aborted'[q] PROVE tasks'[job'[q].doc] = q
  <2>1. CASE q = p
    BY <1>1, <2>1
  <2>2. CASE q # p
    <3>1. pc[q] # "free" /\ ~aborted[q] /\ q # tasks[d] /\ job'[q] = job[q]
      <4>1. aborted'[q] <=> (aborted[q] \/ q = tasks[d])
        BY <1>1, Zenon
      <4>2. pc'[q] = pc[q] /\ job'[q] = job[q]
        BY <1>1, <2>2
      <4> QED BY <1>3, <4>1, <4>2
    <3>2. tasks[job[q].doc] = q /\ job[q].doc \in Docs /\ job[q].doc # d
      BY <3>1
    <3> QED BY <1>1, <3>1, <3>2
  <2> QED BY <2>1, <2>2
<1> QED BY <1>2, <1>3

\* One more runs, on a permit.
LEMMA StartedCounts ==
  ASSUME Shapes, NEW p \in Passes, kondo[p] # "run",
         \A q \in Passes \ {p} : kondo'[q] = kondo[q], kondo'[p] = "run", permits' = permits - 1
  PROVE  (IsFiniteSet(Running) /\ PermitsConserved)'
<1>1. Running' = Running \cup {p} /\ p \notin Running
  BY DEF Running
<1>2. /\ IsFiniteSet(Running') /\ Cardinality(Running') = Cardinality(Running) + 1
      /\ Cardinality(Running) \in Nat
  BY <1>1, FS_AddElement, FS_CardinalityType DEF Shapes
<1> QED BY <1>2, LintAssumption DEF Shapes, TypeOK, PermitsConserved, Running

\* One less runs, and its permit is back.
LEMMA EndedCounts ==
  ASSUME Shapes, NEW p \in Passes, kondo[p] = "run",
         \A q \in Passes \ {p} : kondo'[q] = kondo[q], kondo'[p] # "run", permits' = permits + 1
  PROVE  (IsFiniteSet(Running) /\ PermitsConserved)' /\ permits' \in 0..Limit
<1>1. Running' = Running \ {p} /\ p \in Running
  BY DEF Running
<1>2. /\ IsFiniteSet(Running') /\ Cardinality(Running') = Cardinality(Running) - 1
      /\ Cardinality(Running) \in Nat /\ Cardinality(Running') \in Nat
  BY <1>1, FS_RemoveElement, FS_CardinalityType DEF Shapes
<1>3. permits + Cardinality(Running) = Limit /\ permits \in Nat /\ Limit \in Nat
  BY LintAssumption DEF Shapes, TypeOK, PermitsConserved, Running
<1>4. permits' + Cardinality(Running') = Limit /\ permits' \in 0..Limit
  BY <1>2, <1>3
<1> QED BY <1>2, <1>4 DEF PermitsConserved, Running


\* What is published is put together from numbers and an engine.
LEMMA PublishTyped == ASSUME Shapes, NEW p \in Passes, Publish(p) PROVE TypeOK'
<1>1. job[p].doc \in Docs /\ job[p] \in Jobs
  BY DEF Publish, Shapes, TypeOK, PassesHold
<1> DEFINE mark == [version |-> job[p].version, epoch |-> job[p].epoch,
                    rev |-> seen[p], engine |-> used[p]]
<1>2. mark \in [version : Int, epoch : Nat, rev : Nat, engine : Engines \cup {None}]
  BY <1>1 DEF Shapes, TypeOK
<1>3. shown' = shown \/ shown' = [shown EXCEPT ![job[p].doc] = mark]
  BY DEF Publish
<1> HIDE DEF mark
<1>4. shown' \in [Docs -> [version : Int, epoch : Nat, rev : Nat, engine : Engines \cup {None}]]
  BY <1>1, <1>2, <1>3 DEF Shapes, TypeOK
<1>5. pc' = [pc EXCEPT ![p] = "retire"] /\ raced' \subseteq Docs
  BY <1>1 DEF Publish, Shapes, TypeOK
<1> QED BY <1>4, <1>5 DEF Publish, Shapes, TypeOK


-----------------------------------------------------------------------------
(* The steps of a pass. *)

\* Only its place changes.
LEMMA WakeShapes ==
  ASSUME Shapes, NEW p \in Passes, Wake(p)
  PROVE  Shapes'
BY LintAssumption DEF Shapes, TypeOK, PassesHold, Registered, CapturesAreOfDocs, StoreHolds,
   OneLivePass, Running, PermitsConserved, Wake, IsCurrent, Checked

\* Revisions are numbers.
LEMMA TakeSnapshotShapes ==
  ASSUME Shapes, NEW p \in Passes, TakeSnapshot(p)
  PROVE  Shapes'
BY LintAssumption DEF Shapes, TypeOK, PassesHold, Registered, CapturesAreOfDocs, StoreHolds,
   OneLivePass, Running, PermitsConserved, TakeSnapshot, IsOpen, Checked

\* It may want clj-kondo from here on, and is in the join.
LEMMA ReadEngineShapes ==
  ASSUME Shapes, NEW p \in Passes, ReadEngine(p)
  PROVE  Shapes'
<1> USE LintAssumption DEF Shapes, ReadEngine, Checked
<1>1. TypeOK'
  BY DEF TypeOK, PassesHold, CapturesAreOfDocs
<1>2. PassesHold'
  BY DEF TypeOK, PassesHold, Registered, CapturesAreOfDocs, StoreHolds
<1>3. Registered' /\ OneLivePass'
  BY DEF TypeOK, PassesHold, Registered, CapturesAreOfDocs, OneLivePass
<1>4. CapturesAreOfDocs' /\ StoreHolds'
  BY DEF TypeOK, CapturesAreOfDocs, StoreHolds
<1>5. (IsFiniteSet(Running) /\ PermitsConserved)'
  BY DEF TypeOK, PassesHold, PermitsConserved, Running
<1> QED BY <1>1, <1>2, <1>3, <1>4, <1>5

\* In the join.
LEMMA NativeGivesUpShapes ==
  ASSUME Shapes, NEW p \in Passes, NativeGivesUp(p)
  PROVE  Shapes'
BY LintAssumption DEF Shapes, TypeOK, PassesHold, Registered, CapturesAreOfDocs, StoreHolds,
   OneLivePass, Running, PermitsConserved, NativeGivesUp, IsCurrent, Checked

\* One more runs, on one permit.
LEMMA AcquirePermitShapes ==
  ASSUME Shapes, NEW p \in Passes, AcquirePermit(p)
  PROVE  Shapes'
<1> USE LintAssumption DEF Shapes, AcquirePermit, Checked
<1>1. TypeOK'
  BY DEF TypeOK, PassesHold, CapturesAreOfDocs
<1>2. PassesHold'
  BY DEF TypeOK, PassesHold, Registered, CapturesAreOfDocs, StoreHolds
<1>3. Registered' /\ OneLivePass'
  BY DEF TypeOK, PassesHold, Registered, CapturesAreOfDocs, OneLivePass
<1>4. CapturesAreOfDocs' /\ StoreHolds'
  BY DEF TypeOK, CapturesAreOfDocs, StoreHolds
<1>5. (IsFiniteSet(Running) /\ PermitsConserved)'
  BY StartedCounts DEF TypeOK, PassesHold
<1> QED BY <1>1, <1>2, <1>3, <1>4, <1>5

\* One less runs; whatever it answered, it no longer wants to run.
LEMMA KondoTierShapes ==
  ASSUME Shapes, NEW p \in Passes, KondoTier(p)
  PROVE  Shapes'
<1> USE LintAssumption DEF Shapes, KondoTier, Checked
<1>1. TypeOK'
  BY EndedCounts DEF TypeOK, PassesHold
<1>2. PassesHold'
  BY DEF TypeOK, PassesHold, Registered, CapturesAreOfDocs, StoreHolds
<1>3. Registered' /\ OneLivePass'
  BY DEF TypeOK, PassesHold, Registered, CapturesAreOfDocs, OneLivePass
<1>4. CapturesAreOfDocs' /\ StoreHolds'
  BY DEF TypeOK, CapturesAreOfDocs, StoreHolds
<1>5. (IsFiniteSet(Running) /\ PermitsConserved)'
  BY EndedCounts DEF TypeOK, PassesHold
<1> QED BY <1>1, <1>2, <1>3, <1>4, <1>5

\* Past the check by way of the check.
LEMMA CheckStaleShapes ==
  ASSUME Shapes, NEW p \in Passes, CheckStale(p)
  PROVE  Shapes'
BY LintAssumption DEF Shapes, TypeOK, PassesHold, Registered, CapturesAreOfDocs, StoreHolds,
   OneLivePass, Running, PermitsConserved, CheckStale, StillValid, IsCurrent, Checked

\* What ran has a result: no failure, or a reason.
LEMMA RecordHealthShapes ==
  ASSUME Shapes, NEW p \in Passes, RecordHealth(p)
  PROVE  Shapes'
<1> USE LintAssumption DEF Shapes, RecordHealth, Checked
<1>1. TypeOK'
  BY DEF TypeOK, PassesHold, CapturesAreOfDocs
<1>2. PassesHold'
  BY DEF TypeOK, PassesHold, Registered, CapturesAreOfDocs, StoreHolds
<1>3. Registered' /\ OneLivePass'
  BY DEF TypeOK, PassesHold, Registered, CapturesAreOfDocs, OneLivePass
<1>4. CapturesAreOfDocs' /\ StoreHolds'
  BY DEF TypeOK, CapturesAreOfDocs, StoreHolds
<1>5. (IsFiniteSet(Running) /\ PermitsConserved)'
  BY DEF TypeOK, PassesHold, PermitsConserved, Running
<1> QED BY <1>1, <1>2, <1>3, <1>4, <1>5

\* The status is the state's.
LEMMA AnnounceHealthShapes ==
  ASSUME Shapes, NEW p \in Passes, AnnounceHealth(p)
  PROVE  Shapes'
BY LintAssumption DEF Shapes, TypeOK, PassesHold, Registered, CapturesAreOfDocs, StoreHolds,
   OneLivePass, Running, PermitsConserved, AnnounceHealth, Checked

\* The mark is put together from numbers.
LEMMA PublishShapes ==
  ASSUME Shapes, NEW p \in Passes, Publish(p)
  PROVE  Shapes'
<1> USE LintAssumption DEF Shapes, Publish, IsCurrent, Checked
<1>1. TypeOK'
  BY PublishTyped
<1>2. PassesHold'
  BY DEF TypeOK, PassesHold, Registered, CapturesAreOfDocs, StoreHolds
<1>3. Registered' /\ OneLivePass'
  BY DEF TypeOK, PassesHold, Registered, CapturesAreOfDocs, OneLivePass
<1>4. CapturesAreOfDocs' /\ StoreHolds'
  BY DEF TypeOK, CapturesAreOfDocs, StoreHolds
<1>5. (IsFiniteSet(Running) /\ PermitsConserved)'
  BY DEF TypeOK, PassesHold, PermitsConserved, Running
<1> QED BY <1>1, <1>2, <1>3, <1>4, <1>5

\* It leaves the registry, if it is in it, and is free.
LEMMA RetireShapes ==
  ASSUME Shapes, NEW p \in Passes, Retire(p)
  PROVE  Shapes'
<1> USE LintAssumption DEF Shapes, Retire, Over, Checked
<1>1. TypeOK'
  BY DEF TypeOK, PassesHold, CapturesAreOfDocs
<1>2. PassesHold'
  BY DEF TypeOK, PassesHold, Registered, CapturesAreOfDocs, StoreHolds
<1>3. Registered' /\ OneLivePass'
  BY DEF TypeOK, PassesHold, Registered, CapturesAreOfDocs, OneLivePass
<1>4. CapturesAreOfDocs' /\ StoreHolds'
  BY DEF TypeOK, CapturesAreOfDocs, StoreHolds
<1>5. (IsFiniteSet(Running) /\ PermitsConserved)'
  BY DEF TypeOK, PassesHold, PermitsConserved, Running
<1> QED BY <1>1, <1>2, <1>3, <1>4, <1>5

\* An aborted pass is in no entry; a permit goes back if it had one.
LEMMA DropShapes ==
  ASSUME Shapes, NEW p \in Passes, Drop(p)
  PROVE  Shapes'
<1> USE LintAssumption DEF Shapes, Drop, Over, Checked
<1>0. (IsFiniteSet(Running) /\ PermitsConserved)' /\ permits' \in 0..Limit
  <2>1. CASE kondo[p] = "run"
    BY <2>1, EndedCounts DEF TypeOK
  <2>2. CASE kondo[p] # "run"
    <3>1. Running' = Running /\ permits' = permits
      BY <2>2 DEF TypeOK, Running
    <3> QED BY <3>1 DEF TypeOK, PermitsConserved, Running
  <2> QED BY <2>1, <2>2
<1>1. TypeOK'
  BY <1>0 DEF TypeOK, PassesHold
<1>2. PassesHold'
  BY DEF TypeOK, PassesHold, Registered, CapturesAreOfDocs, StoreHolds
<1>3. Registered' /\ OneLivePass'
  BY DEF TypeOK, PassesHold, Registered, CapturesAreOfDocs, OneLivePass
<1>4. CapturesAreOfDocs' /\ StoreHolds'
  BY DEF TypeOK, CapturesAreOfDocs, StoreHolds
<1>5. (IsFiniteSet(Running) /\ PermitsConserved)'
  BY <1>0
<1> QED BY <1>1, <1>2, <1>3, <1>4, <1>5

-----------------------------------------------------------------------------
(* The steps of the handler. *)

\* A revision of its own.
LEMMA DidOpenShapes ==
  ASSUME Shapes, NEW d \in Docs, DidOpen(d)
  PROVE  Shapes'
BY LintAssumption DEF Shapes, TypeOK, PassesHold, Registered, CapturesAreOfDocs, StoreHolds,
   OneLivePass, Running, PermitsConserved, DidOpen, DrawRev, IsOpen, HandlerGoto, Checked

\* As above, versioned or not.
LEMMA DidChangeShapes ==
  ASSUME Shapes, NEW d \in Docs, DidChange(d)
  PROVE  Shapes'
BY LintAssumption DEF Shapes, TypeOK, PassesHold, Registered, CapturesAreOfDocs, StoreHolds,
   OneLivePass, Running, PermitsConserved, DidChange, DrawRev, IsOpen, HandlerGoto, Checked

\* An open document has a version unless its open is being handled.
LEMMA DidSaveShapes ==
  ASSUME Shapes, NEW d \in Docs, DidSave(d)
  PROVE  Shapes'
BY LintAssumption DEF Shapes, TypeOK, PassesHold, Registered, CapturesAreOfDocs, StoreHolds,
   OneLivePass, Running, PermitsConserved, DidSave, IsOpen, HandlerGoto, Checked

\* The entry is gone, and its pass aborted.
LEMMA DidCloseShapes ==
  ASSUME Shapes, NEW d \in Docs, DidClose(d)
  PROVE  Shapes'
<1> USE LintAssumption DEF Shapes, DidClose, IsOpen, HandlerGoto, Checked
<1>1. TypeOK'
  BY DEF TypeOK, PassesHold, CapturesAreOfDocs
<1>2. PassesHold'
  BY DEF TypeOK, PassesHold, Registered, CapturesAreOfDocs, StoreHolds
<1>3. Registered' /\ OneLivePass'
  <2>1. Registered'
    BY DEF TypeOK, PassesHold, Registered, CapturesAreOfDocs, OneLivePass
  <2>2. OneLivePass'
    BY DEF TypeOK, PassesHold, Registered, CapturesAreOfDocs, OneLivePass
  <2> QED BY <2>1, <2>2
<1>4. CapturesAreOfDocs' /\ StoreHolds'
  BY DEF TypeOK, CapturesAreOfDocs, StoreHolds
<1>5. (IsFiniteSet(Running) /\ PermitsConserved)'
  BY DEF TypeOK, PassesHold, PermitsConserved, Running
<1> QED BY <1>1, <1>2, <1>3, <1>4, <1>5

\* The first version is a number, and so is the next.
LEMMA SetVersionShapes ==
  ASSUME Shapes, SetVersion
  PROVE  Shapes'
BY LintAssumption DEF Shapes, TypeOK, PassesHold, Registered, CapturesAreOfDocs, StoreHolds,
   OneLivePass, Running, PermitsConserved, SetVersion, HandlerGoto, Checked

\* What was registered is aborted.
LEMMA HandlerSpawnsShapes ==
  ASSUME Shapes, HandlerSpawns
  PROVE  Shapes'
<1>0. Registered' /\ OneLivePass'
  <2>1. /\ hdoc \in Docs /\ VersionOrZero(hdoc) \in Nat /\ epochs[hdoc] \in Nat /\ trigger \in Triggers
        /\ SpawnLintPass(hdoc, VersionOrZero(hdoc), epochs[hdoc], trigger)
    BY DEF HandlerSpawns, VersionOrZero, Shapes, TypeOK, StoreHolds
  <2> QED BY <2>1, SpawnRegisters
<1> USE LintAssumption DEF Shapes, HandlerSpawns, SpawnLintPass, HandlerIdle, HandlerGoto,
  VersionOrZero, Checked
<1>1. TypeOK'
  BY DEF TypeOK, PassesHold, CapturesAreOfDocs
<1>2. PassesHold'
  BY DEF TypeOK, PassesHold, Registered, CapturesAreOfDocs, StoreHolds
<1>3. Registered' /\ OneLivePass'
  BY <1>0
<1>4. CapturesAreOfDocs' /\ StoreHolds'
  BY DEF TypeOK, CapturesAreOfDocs, StoreHolds
<1>5. (IsFiniteSet(Running) /\ PermitsConserved)'
  BY DEF TypeOK, PassesHold, PermitsConserved, Running
<1> QED BY <1>1, <1>2, <1>3, <1>4, <1>5

\* Everything of the document is reset.
LEMMA ForgetShapes ==
  ASSUME Shapes, Forget
  PROVE  Shapes'
BY LintAssumption DEF Shapes, TypeOK, PassesHold, Registered, CapturesAreOfDocs, StoreHolds,
   OneLivePass, Running, PermitsConserved, Forget, HandlerGoto, Checked

\* Clear is a mark.
LEMMA ClearDiagnosticsShapes ==
  ASSUME Shapes, ClearDiagnostics
  PROVE  Shapes'
BY LintAssumption DEF Shapes, TypeOK, PassesHold, Registered, CapturesAreOfDocs, StoreHolds,
   OneLivePass, Running, PermitsConserved, ClearDiagnostics, HandlerIdle, HandlerGoto, Clear, Checked

-----------------------------------------------------------------------------
(* The reloads. *)

\* A reload begins with nothing captured and nothing to do.
LEMMA TriggerShapes ==
  ASSUME Shapes, NEW r \in Reloads, NEW at \in {"queue", "list"},
         NEW relint \in BOOLEAN, Trigger(r, at, relint)
  PROVE  Shapes'
BY LintAssumption DEF Shapes, TypeOK, PassesHold, Registered, CapturesAreOfDocs, StoreHolds,
   OneLivePass, Running, PermitsConserved, Trigger

\* Any engine.
LEMMA ProbeShapes ==
  ASSUME Shapes, NEW r \in Reloads, Probe(r)
  PROVE  Shapes'
BY LintAssumption DEF Shapes, TypeOK, PassesHold, Registered, CapturesAreOfDocs, StoreHolds,
   OneLivePass, Running, PermitsConserved, Probe, Checked

\* The status is the state's.
LEMMA AnnounceShapes ==
  ASSUME Shapes, NEW r \in Reloads, Announce(r)
  PROVE  Shapes'
BY LintAssumption DEF Shapes, TypeOK, PassesHold, Registered, CapturesAreOfDocs, StoreHolds,
   OneLivePass, Running, PermitsConserved, Announce, Checked

\* Open documents are documents.
LEMMA ListOpenShapes ==
  ASSUME Shapes, NEW r \in Reloads, ListOpen(r)
  PROVE  Shapes'
BY LintAssumption DEF Shapes, TypeOK, PassesHold, Registered, CapturesAreOfDocs, StoreHolds,
   OneLivePass, Running, PermitsConserved, ListOpen, IsOpen, Checked

\* A missing version is captured as 0.
LEMMA CaptureShapes ==
  ASSUME Shapes, NEW r \in Reloads, Capture(r)
  PROVE  Shapes'
BY LintAssumption DEF Shapes, TypeOK, PassesHold, Registered, CapturesAreOfDocs, StoreHolds,
   OneLivePass, Running, PermitsConserved, Capture, VersionOrZero, Checked

\* As for the handler's passes.
LEMMA RelintShapes ==
  ASSUME Shapes, NEW r \in Reloads, Relint(r)
  PROVE  Shapes'
<1>0. Registered' /\ OneLivePass'
  <2> DEFINE c == captured[r]
  <2>1. /\ c.doc \in Docs /\ c.version \in Nat /\ c.epoch \in Nat /\ c.trigger \in Triggers
        /\ SpawnLintPass(c.doc, c.version, c.epoch, c.trigger)
    BY DEF Relint, Shapes, TypeOK, CapturesAreOfDocs
  <2> QED BY <2>1, SpawnRegisters
<1> USE LintAssumption DEF Shapes, Relint, SpawnLintPass, Checked
<1>1. TypeOK'
  BY DEF TypeOK, PassesHold, CapturesAreOfDocs
<1>2. PassesHold'
  BY DEF TypeOK, PassesHold, Registered, CapturesAreOfDocs, StoreHolds
<1>3. Registered' /\ OneLivePass'
  BY <1>0
<1>4. CapturesAreOfDocs' /\ StoreHolds'
  BY DEF TypeOK, CapturesAreOfDocs, StoreHolds
<1>5. (IsFiniteSet(Running) /\ PermitsConserved)'
  BY DEF TypeOK, PassesHold, PermitsConserved, Running
<1> QED BY <1>1, <1>2, <1>3, <1>4, <1>5

\* Nothing is left over.
LEMMA ReloadEndsShapes ==
  ASSUME Shapes, NEW r \in Reloads, ReloadEnds(r)
  PROVE  Shapes'
BY LintAssumption DEF Shapes, TypeOK, PassesHold, Registered, CapturesAreOfDocs, StoreHolds,
   OneLivePass, Running, PermitsConserved, ReloadEnds, Checked

-----------------------------------------------------------------------------
\* At the start nothing is under way.
LEMMA InitShapes == Init => Shapes
<1> SUFFICES ASSUME Init PROVE Shapes
  OBVIOUS
<1>1. TypeOK
  BY LintAssumption DEF Init, TypeOK, Clear
<1>2. PassesHold /\ Registered /\ CapturesAreOfDocs /\ StoreHolds /\ OneLivePass
  BY LintAssumption DEF Init, PassesHold, Registered, CapturesAreOfDocs, StoreHolds, OneLivePass, Checked
<1>3. Running = {} /\ IsFiniteSet(Running) /\ Cardinality(Running) = 0
  BY FS_EmptySet DEF Init, Running
<1>4. PermitsConserved
  BY <1>3, LintAssumption DEF Init, PermitsConserved, Running
<1> QED BY <1>1, <1>2, <1>3, <1>4 DEF Shapes

\* Every step is one of the above, or a stutter.
LEMMA NextShapes == Shapes /\ [Next]_vars => Shapes'
<1> SUFFICES ASSUME Shapes, [Next]_vars PROVE Shapes'
  OBVIOUS
<1>1. ASSUME NEW p \in Passes, PassStep(p) PROVE Shapes'
  BY <1>1, WakeShapes, TakeSnapshotShapes, ReadEngineShapes, NativeGivesUpShapes,
     AcquirePermitShapes, KondoTierShapes, CheckStaleShapes, RecordHealthShapes,
     AnnounceHealthShapes, PublishShapes, RetireShapes, DropShapes DEF PassStep
<1>2. ASSUME NEW d \in Docs, ClientInput(d) PROVE Shapes'
  BY <1>2, DidOpenShapes, DidChangeShapes, DidSaveShapes, DidCloseShapes DEF ClientInput
<1>3. CASE HandlerStep
  BY <1>3, SetVersionShapes, HandlerSpawnsShapes, ForgetShapes, ClearDiagnosticsShapes
     DEF HandlerStep
<1>4. ASSUME NEW r \in Reloads, SettingsInput(r) PROVE Shapes'
  BY <1>4, TriggerShapes DEF SettingsInput, DidChangeConfiguration, DidChangePulseConfig,
     DidChangeKondoConfig
<1>5. ASSUME NEW r \in Reloads, ReloadStep(r) PROVE Shapes'
  BY <1>5, ProbeShapes, AnnounceShapes, ListOpenShapes, CaptureShapes, RelintShapes,
     ReloadEndsShapes DEF ReloadStep
<1>6. CASE UNCHANGED vars
  BY <1>6 DEF vars, Shapes, TypeOK, PassesHold, Registered, CapturesAreOfDocs, StoreHolds,
     OneLivePass, Running, PermitsConserved, IsCurrent
<1> QED BY <1>1, <1>2, <1>3, <1>4, <1>5, <1>6 DEF Next

\* So the shapes hold throughout.
LEMMA ShapesHold == Spec => []Shapes
BY InitShapes, NextShapes, PTL DEF Spec
-----------------------------------------------------------------------------
(* Part 2.  What a step leaves alone: a document, a pass. *)

SameDoc(d) ==
  /\ rev'[d] = 0 <=> rev[d] = 0
  /\ versions'[d] = versions[d] /\ epochs'[d] = epochs[d]
  /\ accepted'[d] = accepted[d] /\ shown'[d] = shown[d]
  /\ engine' = engine
  /\ ReloadComes(d) => ReloadComes(d)'

SamePass(p) ==
  /\ pc'[p] = pc[p] /\ job'[p] = job[p] /\ seen'[p] = seen[p] /\ used'[p] = used[p]
  /\ gaveUp'[p] = gaveUp[p] /\ aborted'[p] = aborted[p]

\* What is promised of a document that a step leaves alone stays promised, if
\* every pass is left alone as well or keeps its part of it.
LEMMA PromiseKept ==
  ASSUME NEW d \in Docs, Promised(d), hdoc # d, SameDoc(d),
         \A p \in Passes : \/ SamePass(p)
                           \/ /\ WillShow(p, d) => WillShow(p, d)'
                              /\ IsOpen(d) => Fresh(p, d)'
  PROVE  Promised(d)'
<1>1. IsOpen(d)' <=> IsOpen(d)
  BY DEF SameDoc, IsOpen
<1>2. UpToDate(d) => UpToDate(d)'
  BY <1>1 DEF SameDoc, UpToDate
<1>3. ASSUME NEW p \in Passes, SamePass(p), job[p].doc = d PROVE InForce(p, d)' <=> InForce(p, d)
  BY <1>3 DEF SamePass, SameDoc, InForce, IsCurrent
<1>4. ASSUME NEW p \in Passes, WillShow(p, d) PROVE WillShow(p, d)'
  <2> SUFFICES ASSUME SamePass(p) PROVE WillShow(p, d)'
    BY <1>4
  <2> QED BY <1>3, <1>4 DEF SamePass, SameDoc, WillShow, InForce
<1>5. ASSUME NEW p \in Passes, IsOpen(d), Fresh(p, d) PROVE Fresh(p, d)'
  <2> SUFFICES ASSUME SamePass(p), InForce(p, d)' PROVE Fresh(p, d)'
    BY <1>5 DEF Fresh
  <2>1. InForce(p, d)
    BY <1>3 DEF InForce, SamePass
  <2> QED BY <1>5, <2>1 DEF Fresh, SamePass, SameDoc
<1> QED BY <1>1, <1>2, <1>4, <1>5 DEF Promised, SameDoc

\* The steps of a pass other than Publish: a document's promise is kept if the
\* pass keeps its part of it.
LEMMA PassMoves ==
  ASSUME Shapes, NothingIsLost, NEW p \in Passes, \A q \in Passes \ {p} : SamePass(q),
         UNCHANGED <<rev, versions, epochs, accepted, shown, raced, engine, hdoc, reloader>>,
         \A d \in Docs : WillShow(p, d) => WillShow(p, d)',
         \A d \in Docs \ raced : hdoc # d /\ IsOpen(d) /\ Fresh(p, d) => Fresh(p, d)'
  PROVE  NothingIsLost'
<1>1. ASSUME NEW d \in Docs \ raced, hdoc # d PROVE Promised(d)'
  <2>1. Promised(d) /\ SameDoc(d)
    BY DEF NothingIsLost, SameDoc, ReloadComes
  <2>2. IsOpen(d) => Fresh(p, d)
    BY <1>1, <2>1 DEF Promised
  <2> QED BY <1>1, <2>1, <2>2, PromiseKept
<1> QED BY <1>1 DEF NothingIsLost, Promised

\* A pass in force is for an open document: a closed one has no version.
LEMMA InForceIsOpen ==
  ASSUME Shapes, NEW p \in Passes, NEW d \in Docs, InForce(p, d)
  PROVE  IsOpen(d)
BY DEF InForce, IsCurrent, IsOpen, Shapes, StoreHolds, PassesHold
\* A pass in force is found current, and goes on.
LEMMA WakePromise ==
  ASSUME Shapes, NothingIsLost, NEW p \in Passes, Wake(p)
  PROVE  NothingIsLost'
<1>1. /\ \A q \in Passes \ {p} : SamePass(q)
      /\ UNCHANGED <<rev, versions, epochs, accepted, shown, raced, engine, hdoc, reloader>>
  BY DEF Wake, SamePass, Shapes, TypeOK
<1>2. \A d \in Docs : WillShow(p, d) => WillShow(p, d)'
  BY DEF Wake, WillShow, InForce, IsCurrent, Checked, Shapes,
     TypeOK, PassesHold
<1>3. \A d \in Docs \ raced : hdoc # d /\ IsOpen(d) /\ Fresh(p, d) => Fresh(p, d)'
  BY DEF Wake, Fresh, InForce, IsCurrent, ReloadComes, Checked, Shapes,
     TypeOK, PassesHold
<1> QED BY <1>1, <1>2, <1>3, PassMoves

\* What it has seen is as new as the last accepted edit; it goes on, for the document is open.
LEMMA TakeSnapshotPromise ==
  ASSUME Shapes, NothingIsLost, NEW p \in Passes, TakeSnapshot(p)
  PROVE  NothingIsLost'
<1>1. /\ \A q \in Passes \ {p} : SamePass(q)
      /\ UNCHANGED <<rev, versions, epochs, accepted, shown, raced, engine, hdoc, reloader>>
  BY DEF TakeSnapshot, IsOpen, SamePass, Shapes, TypeOK
<1>2. \A d \in Docs : WillShow(p, d) => WillShow(p, d)'
  <2> SUFFICES ASSUME NEW d \in Docs, WillShow(p, d) PROVE WillShow(p, d)'
    OBVIOUS
  <2>1. IsOpen(d) /\ job[p].doc = d
    BY InForceIsOpen DEF WillShow, InForce
  <2>2. pc' = [pc EXCEPT ![p] = "engine"]
    BY <2>1 DEF TakeSnapshot
  <2> QED BY <2>2 DEF TakeSnapshot, WillShow, InForce, IsCurrent, Checked, Shapes, TypeOK
<1>3. \A d \in Docs \ raced : hdoc # d /\ IsOpen(d) /\ Fresh(p, d) => Fresh(p, d)'
  BY DEF TakeSnapshot, IsOpen, Fresh, InForce, IsCurrent, ReloadComes, Checked, Shapes,
     TypeOK, PassesHold, StoreHolds
<1> QED BY <1>1, <1>2, <1>3, PassMoves

\* What it uses from here on is the engine.
LEMMA ReadEnginePromise ==
  ASSUME Shapes, NothingIsLost, NEW p \in Passes, ReadEngine(p)
  PROVE  NothingIsLost'
<1>1. /\ \A q \in Passes \ {p} : SamePass(q)
      /\ UNCHANGED <<rev, versions, epochs, accepted, shown, raced, engine, hdoc, reloader>>
  BY DEF ReadEngine, SamePass, Shapes, TypeOK
<1>2. \A d \in Docs : WillShow(p, d) => WillShow(p, d)'
  BY DEF ReadEngine, WillShow, InForce, IsCurrent, Checked, Shapes,
     TypeOK, PassesHold
<1>3. \A d \in Docs \ raced : hdoc # d /\ IsOpen(d) /\ Fresh(p, d) => Fresh(p, d)'
  BY DEF ReadEngine, Fresh, InForce, IsCurrent, ReloadComes, Checked, Shapes,
     TypeOK, PassesHold
<1> QED BY <1>1, <1>2, <1>3, PassMoves

\* Only a stale pass gives up.
LEMMA NativeGivesUpPromise ==
  ASSUME Shapes, NothingIsLost, NEW p \in Passes, NativeGivesUp(p)
  PROVE  NothingIsLost'
<1>1. /\ \A q \in Passes \ {p} : SamePass(q)
      /\ UNCHANGED <<rev, versions, epochs, accepted, shown, raced, engine, hdoc, reloader>>
  BY DEF NativeGivesUp, SamePass, Shapes, TypeOK
<1>2. \A d \in Docs : WillShow(p, d) => WillShow(p, d)'
  BY DEF NativeGivesUp, WillShow, InForce, IsCurrent, Checked, Shapes,
     TypeOK, PassesHold
<1>3. \A d \in Docs \ raced : hdoc # d /\ IsOpen(d) /\ Fresh(p, d) => Fresh(p, d)'
  BY DEF NativeGivesUp, Fresh, InForce, IsCurrent, ReloadComes, Checked, Shapes,
     TypeOK, PassesHold
<1> QED BY <1>1, <1>2, <1>3, PassMoves

\* A permit promises nothing.
LEMMA AcquirePermitPromise ==
  ASSUME Shapes, NothingIsLost, NEW p \in Passes, AcquirePermit(p)
  PROVE  NothingIsLost'
<1>1. /\ \A q \in Passes \ {p} : SamePass(q)
      /\ UNCHANGED <<rev, versions, epochs, accepted, shown, raced, engine, hdoc, reloader>>
  BY DEF AcquirePermit, SamePass, Shapes, TypeOK
<1>2. \A d \in Docs : WillShow(p, d) => WillShow(p, d)'
  BY DEF AcquirePermit, WillShow, InForce, IsCurrent, Checked, Shapes,
     TypeOK, PassesHold
<1>3. \A d \in Docs \ raced : hdoc # d /\ IsOpen(d) /\ Fresh(p, d) => Fresh(p, d)'
  BY DEF AcquirePermit, Fresh, InForce, IsCurrent, ReloadComes, Checked, Shapes,
     TypeOK, PassesHold
<1> QED BY <1>1, <1>2, <1>3, PassMoves

\* Nor does clj-kondo's answer.
LEMMA KondoTierPromise ==
  ASSUME Shapes, NothingIsLost, NEW p \in Passes, KondoTier(p)
  PROVE  NothingIsLost'
<1>1. /\ \A q \in Passes \ {p} : SamePass(q)
      /\ UNCHANGED <<rev, versions, epochs, accepted, shown, raced, engine, hdoc, reloader>>
  BY DEF KondoTier, SamePass, Shapes, TypeOK
<1>2. \A d \in Docs : WillShow(p, d) => WillShow(p, d)'
  BY DEF KondoTier, WillShow, InForce, IsCurrent, Checked, Shapes,
     TypeOK, PassesHold
<1>3. \A d \in Docs \ raced : hdoc # d /\ IsOpen(d) /\ Fresh(p, d) => Fresh(p, d)'
  BY DEF KondoTier, Fresh, InForce, IsCurrent, ReloadComes, Checked, Shapes,
     TypeOK, PassesHold
<1> QED BY <1>1, <1>2, <1>3, PassMoves

\* The check lets a pass through that is in force with the engine it used.
LEMMA CheckStalePromise ==
  ASSUME Shapes, NothingIsLost, NEW p \in Passes, CheckStale(p)
  PROVE  NothingIsLost'
<1>1. /\ \A q \in Passes \ {p} : SamePass(q)
      /\ UNCHANGED <<rev, versions, epochs, accepted, shown, raced, engine, hdoc, reloader>>
  BY DEF CheckStale, StillValid, SamePass, Shapes, TypeOK
<1>2. \A d \in Docs : WillShow(p, d) => WillShow(p, d)'
  BY DEF CheckStale, StillValid, WillShow, InForce, IsCurrent, Checked, Shapes,
     TypeOK, PassesHold
<1>3. \A d \in Docs \ raced : hdoc # d /\ IsOpen(d) /\ Fresh(p, d) => Fresh(p, d)'
  BY DEF CheckStale, StillValid, Fresh, InForce, IsCurrent, ReloadComes, Checked, Shapes,
     TypeOK, PassesHold
<1> QED BY <1>1, <1>2, <1>3, PassMoves

\* The health says nothing of a document.
LEMMA RecordHealthPromise ==
  ASSUME Shapes, NothingIsLost, NEW p \in Passes, RecordHealth(p)
  PROVE  NothingIsLost'
<1>1. /\ \A q \in Passes \ {p} : SamePass(q)
      /\ UNCHANGED <<rev, versions, epochs, accepted, shown, raced, engine, hdoc, reloader>>
  BY DEF RecordHealth, SamePass, Shapes, TypeOK
<1>2. \A d \in Docs : WillShow(p, d) => WillShow(p, d)'
  BY DEF RecordHealth, WillShow, InForce, IsCurrent, Checked, Shapes,
     TypeOK, PassesHold
<1>3. \A d \in Docs \ raced : hdoc # d /\ IsOpen(d) /\ Fresh(p, d) => Fresh(p, d)'
  BY DEF RecordHealth, Fresh, InForce, IsCurrent, ReloadComes, Checked, Shapes,
     TypeOK, PassesHold
<1> QED BY <1>1, <1>2, <1>3, PassMoves

\* Nor does the status.
LEMMA AnnounceHealthPromise ==
  ASSUME Shapes, NothingIsLost, NEW p \in Passes, AnnounceHealth(p)
  PROVE  NothingIsLost'
<1>1. /\ \A q \in Passes \ {p} : SamePass(q)
      /\ UNCHANGED <<rev, versions, epochs, accepted, shown, raced, engine, hdoc, reloader>>
  BY DEF AnnounceHealth, SamePass, Shapes, TypeOK
<1>2. \A d \in Docs : WillShow(p, d) => WillShow(p, d)'
  BY DEF AnnounceHealth, WillShow, InForce, IsCurrent, Checked, Shapes,
     TypeOK, PassesHold
<1>3. \A d \in Docs \ raced : hdoc # d /\ IsOpen(d) /\ Fresh(p, d) => Fresh(p, d)'
  BY DEF AnnounceHealth, Fresh, InForce, IsCurrent, ReloadComes, Checked, Shapes,
     TypeOK, PassesHold
<1> QED BY <1>1, <1>2, <1>3, PassMoves

\* A pass that retires was not going to show anything.
LEMMA RetirePromise ==
  ASSUME Shapes, NothingIsLost, NEW p \in Passes, Retire(p)
  PROVE  NothingIsLost'
<1>1. /\ \A q \in Passes \ {p} : SamePass(q)
      /\ UNCHANGED <<rev, versions, epochs, accepted, shown, raced, engine, hdoc, reloader>>
  BY DEF Retire, Over, SamePass, Shapes, TypeOK
<1>2. \A d \in Docs : WillShow(p, d) => WillShow(p, d)'
  BY DEF Retire, Over, WillShow, InForce, IsCurrent, Checked, Shapes,
     TypeOK, PassesHold
<1>3. \A d \in Docs \ raced : hdoc # d /\ IsOpen(d) /\ Fresh(p, d) => Fresh(p, d)'
  BY DEF Retire, Over, Fresh, InForce, IsCurrent, ReloadComes, Checked, Shapes,
     TypeOK, PassesHold
<1> QED BY <1>1, <1>2, <1>3, PassMoves

\* Nor was one that is aborted.
LEMMA DropPromise ==
  ASSUME Shapes, NothingIsLost, NEW p \in Passes, Drop(p)
  PROVE  NothingIsLost'
<1>1. /\ \A q \in Passes \ {p} : SamePass(q)
      /\ UNCHANGED <<rev, versions, epochs, accepted, shown, raced, engine, hdoc, reloader>>
  BY DEF Drop, Over, SamePass, Shapes, TypeOK
<1>2. \A d \in Docs : WillShow(p, d) => WillShow(p, d)'
  BY DEF Drop, Over, WillShow, InForce, IsCurrent, Checked, Shapes,
     TypeOK, PassesHold
<1>3. \A d \in Docs \ raced : hdoc # d /\ IsOpen(d) /\ Fresh(p, d) => Fresh(p, d)'
  BY DEF Drop, Over, Fresh, InForce, IsCurrent, ReloadComes, Checked, Shapes,
     TypeOK, PassesHold
<1> QED BY <1>1, <1>2, <1>3, PassMoves
\* The pass in force shows what it should, unless the engine has changed; any other one is a race.
LEMMA PublishPromise ==
  ASSUME Shapes, NothingIsLost, NEW p \in Passes, Publish(p)
  PROVE  NothingIsLost'
<1>1. /\ \A q \in Passes \ {p} : SamePass(q)
      /\ pc'[p] = "retire" /\ job'[p] = job[p]
      /\ UNCHANGED <<rev, versions, epochs, accepted, engine, hdoc, reloader, seen, used>>
      /\ raced \subseteq raced'
  BY DEF Publish, SamePass, Shapes, TypeOK
<1>2. \A d \in Docs : Fresh(p, d)'
  BY <1>1 DEF Fresh, Checked
<1>3. CASE gaveUp[p]
  <2>1. UNCHANGED <<shown, raced>> /\ \A d \in Docs : ~WillShow(p, d)
    BY <1>3 DEF Publish, WillShow
  <2> QED BY <1>1, <1>2, <2>1, PassMoves
<1>4. CASE ~gaveUp[p]
  <2>0. PICK c \in Docs : c = job[p].doc
    BY DEF Publish, Shapes, PassesHold
  <2>1. ASSUME NEW d \in Docs \ raced', hdoc # d, d # c PROVE Promised(d)'
    <3>1. Promised(d) /\ SameDoc(d)
      BY <1>1, <1>4, <2>0, <2>1 DEF NothingIsLost, SameDoc, ReloadComes, Publish, Shapes, TypeOK
    <3>2. ~WillShow(p, d)
      BY <2>0, <2>1 DEF WillShow, InForce
    <3> QED BY <1>1, <1>2, <2>1, <3>1, <3>2, PromiseKept
  <2>2. ASSUME c \notin raced', hdoc # c PROVE Promised(c)'
    <3>1. pc[p] \in Checked
      BY DEF Publish, Shapes, PassesHold, Checked
    <3>2. InForce(p, c)
      BY <1>4, <2>0, <2>2, <3>1 DEF Publish, InForce, Shapes, PassesHold, Checked
    <3>3. IsOpen(c) /\ Promised(c)
      BY <1>1, <2>2, <3>1, <3>2, InForceIsOpen DEF NothingIsLost
    <3>4. seen[p] >= accepted[c] /\ (used[p] = engine \/ ReloadComes(c))
      BY <2>2, <3>1, <3>2, <3>3 DEF Promised, Fresh
    <3>5. shown'[c] = [version |-> versions[c], epoch |-> epochs[c], rev |-> seen[p], engine |-> used[p]]
      BY <1>4, <2>0, <3>1, <3>2 DEF Publish, InForce, IsCurrent, Shapes, TypeOK
    <3>6. IsOpen(c)' /\ (UpToDate(c)' \/ ReloadComes(c)')
      BY <1>1, <3>3, <3>4, <3>5 DEF UpToDate, IsOpen, ReloadComes
    <3>7. ASSUME NEW q \in Passes PROVE Fresh(q, c)'
      <4>1. CASE q = p
        BY <1>2, <4>1
      <4>2. CASE q # p /\ InForce(q, c)'
        <5>1. SamePass(q) /\ InForce(q, c) /\ Fresh(q, c)
          BY <1>1, <2>2, <3>3, <4>2 DEF SamePass, InForce, IsCurrent, Promised
        <5> QED BY <1>1, <5>1 DEF Fresh, SamePass, ReloadComes
      <4> QED BY <4>1, <4>2 DEF Fresh
    <3> QED BY <3>6, <3>7 DEF Promised
  <2> QED BY <1>1, <2>1, <2>2 DEF NothingIsLost, Promised
<1> QED BY <1>3, <1>4

-----------------------------------------------------------------------------
(* The steps of the handler. *)

\* While the handler is at a document nothing is promised of it, and its steps
\* leave the others alone.
LEMMA HandlerMoves ==
  ASSUME Shapes, NothingIsLost, NEW c \in Docs, hdoc \in {None, c}, hdoc' = c,
         UNCHANGED <<engine, shown, raced, reloader>>,
         \A d \in Docs \ {c} : /\ rev'[d] = rev[d] /\ versions'[d] = versions[d]
                               /\ epochs'[d] = epochs[d] /\ accepted'[d] = accepted[d],
         \A p \in Passes : SamePass(p) \/ (job[p].doc = c /\ job'[p] = job[p])
  PROVE  NothingIsLost'
<1>1. ASSUME NEW d \in Docs \ raced, d # c PROVE Promised(d)'
  <2>1. Promised(d) /\ SameDoc(d) /\ hdoc # d
    BY <1>1, LintAssumption DEF NothingIsLost, SameDoc, ReloadComes
  <2>2. ASSUME NEW p \in Passes, ~SamePass(p) PROVE ~WillShow(p, d) /\ Fresh(p, d)'
    BY <1>1, <2>2 DEF WillShow, Fresh, InForce
  <2> QED BY <2>1, <2>2, PromiseKept
<1> QED BY <1>1 DEF NothingIsLost, Promised

\* The handler is at the document.
LEMMA DidOpenPromise ==
  ASSUME Shapes, NothingIsLost, NEW d \in Docs, DidOpen(d)
  PROVE  NothingIsLost'
<1>1. /\ hdoc = None /\ hdoc' = d /\ UNCHANGED <<engine, shown, raced, reloader, versions, epochs, accepted>>
      /\ \A c \in Docs \ {d} : rev'[c] = rev[c]
      /\ \A p \in Passes : SamePass(p)
  BY DEF DidOpen, DrawRev, HandlerGoto, SamePass, Shapes, TypeOK
<1> QED BY <1>1, HandlerMoves

\* Either the handler is at it, or an edit came that never got a version.
LEMMA DidChangePromise ==
  ASSUME Shapes, NothingIsLost, NEW d \in Docs, DidChange(d)
  PROVE  NothingIsLost'
<1>1. /\ hdoc = None /\ UNCHANGED <<engine, shown, raced, reloader, versions, epochs, accepted>>
      /\ \A c \in Docs \ {d} : rev'[c] = rev[c]
      /\ rev[d] # 0 /\ rev'[d] # 0
      /\ \A p \in Passes : SamePass(p)
  BY DEF DidChange, DrawRev, SamePass, IsOpen, Shapes, TypeOK
<1>2. CASE hdoc' = d
  BY <1>1, <1>2, HandlerMoves
<1>3. CASE hdoc' = None
  <2>1. ASSUME NEW c \in Docs \ raced PROVE Promised(c)'
    <3>1. hdoc # c /\ Promised(c) /\ SameDoc(c)
      BY <1>1, LintAssumption DEF NothingIsLost, SameDoc, ReloadComes
    <3> QED BY <1>1, <3>1, PromiseKept
  <2> QED BY <1>1, <2>1 DEF NothingIsLost
<1> QED BY <1>1, <1>2, <1>3 DEF DidChange, HandlerGoto

\* The handler is at the document.
LEMMA DidSavePromise ==
  ASSUME Shapes, NothingIsLost, NEW d \in Docs, DidSave(d)
  PROVE  NothingIsLost'
<1>1. /\ hdoc = None /\ hdoc' = d /\ UNCHANGED <<engine, shown, raced, reloader, versions, rev, accepted>>
      /\ \A c \in Docs \ {d} : epochs'[c] = epochs[c]
      /\ \A p \in Passes : SamePass(p)
  BY DEF DidSave, HandlerGoto, SamePass, Shapes, TypeOK
<1> QED BY <1>1, HandlerMoves

\* The handler is at the document, and the pass it aborts is the document's.
LEMMA DidClosePromise ==
  ASSUME Shapes, NothingIsLost, NEW d \in Docs, DidClose(d)
  PROVE  NothingIsLost'
<1>1. hdoc = None /\ hdoc' = d /\ UNCHANGED <<engine, shown, raced, reloader, store>>
  BY DEF DidClose, HandlerGoto, Shapes, TypeOK
<1>2. ASSUME NEW p \in Passes PROVE SamePass(p) \/ (job[p].doc = d /\ job'[p] = job[p])
  <2>1. aborted'[p] <=> (aborted[p] \/ p = tasks[d])
    BY Zenon DEF DidClose
  <2>2. p = tasks[d] => job[p].doc = d
    BY LintAssumption DEF Shapes, TypeOK, Registered
  <2>3. aborted[p] \in BOOLEAN /\ aborted'[p] \in BOOLEAN
    BY DEF DidClose, Shapes, TypeOK
  <2> QED BY <2>1, <2>2, <2>3 DEF DidClose, SamePass
<1> QED BY <1>1, <1>2, HandlerMoves

\* The handler is at the document.
LEMMA SetVersionPromise ==
  ASSUME Shapes, NothingIsLost, SetVersion
  PROVE  NothingIsLost'
<1>1. /\ hdoc \in Docs /\ hdoc' = hdoc /\ UNCHANGED <<engine, shown, raced, reloader, rev>>
      /\ \A c \in Docs \ {hdoc} : /\ epochs'[c] = epochs[c] /\ versions'[c] = versions[c]
                                  /\ accepted'[c] = accepted[c]
      /\ \A p \in Passes : SamePass(p)
  BY DEF SetVersion, HandlerGoto, SamePass, Shapes, TypeOK
<1> QED BY <1>1, HandlerMoves

\* The handler is at the document.
LEMMA ForgetPromise ==
  ASSUME Shapes, NothingIsLost, Forget
  PROVE  NothingIsLost'
<1>1. /\ hdoc \in Docs /\ hdoc' = hdoc /\ UNCHANGED <<engine, shown, raced, reloader>>
      /\ \A c \in Docs \ {hdoc} : /\ rev'[c] = rev[c] /\ epochs'[c] = epochs[c]
                                  /\ versions'[c] = versions[c] /\ accepted'[c] = accepted[c]
      /\ \A p \in Passes : SamePass(p)
  BY DEF Forget, HandlerGoto, SamePass, Shapes, TypeOK
<1> QED BY <1>1, HandlerMoves

\* The handler leaves a closed document with nothing shown.
LEMMA ClearDiagnosticsPromise ==
  ASSUME Shapes, NothingIsLost, ClearDiagnostics
  PROVE  NothingIsLost'
<1>1. /\ hdoc \in Docs /\ UNCHANGED <<engine, raced, reloader, store>>
      /\ rev[hdoc] = 0 /\ shown' = [shown EXCEPT ![hdoc] = Clear]
      /\ \A p \in Passes : SamePass(p)
  BY DEF ClearDiagnostics, SamePass, Shapes, TypeOK, StoreHolds
<1>2. ASSUME NEW d \in Docs \ raced PROVE Promised(d)'
  <2>1. CASE d = hdoc
    BY <1>1, <2>1 DEF Promised, UpToDate, IsOpen, Shapes, TypeOK
  <2>2. CASE d # hdoc
    <3>1. Promised(d) /\ SameDoc(d)
      BY <1>1, <2>2 DEF NothingIsLost, SameDoc, ReloadComes, Shapes, TypeOK
    <3> QED BY <1>1, <2>2, <3>1, PromiseKept
  <2> QED BY <2>1, <2>2
<1> QED BY <1>1, <1>2 DEF NothingIsLost
-----------------------------------------------------------------------------
(* A new pass: it is the one in force for its document, and no other document *)
(* is concerned.                                                              *)
LEMMA SpawnPromises ==
  ASSUME Shapes, NEW d \in Docs, NEW version \in Nat, NEW epoch \in Nat, NEW why \in Triggers,
         SpawnLintPass(d, version, epoch, why), UNCHANGED <<store, engine>>
  PROVE  /\ \A c \in Docs \ {d}, q \in Passes :
              SamePass(q) \/ (~WillShow(q, c) /\ Fresh(q, c)')
         /\ \A q \in Passes : Fresh(q, d)'
         /\ versions[d] = version /\ epochs[d] = epoch => \E q \in Passes : WillShow(q, d)'
<1>1. PICK p \in Passes :
        /\ pc[p] = "free" /\ pc' = [pc EXCEPT ![p] = "delay"]
        /\ job' = [job EXCEPT ![p] = [doc |-> d, version |-> version,
                                      epoch |-> epoch, trigger |-> why]]
        /\ UNCHANGED <<seen, used, gaveUp>>
        /\ tasks' = [tasks EXCEPT ![d] = p]
        /\ aborted' = [q \in Passes |-> aborted[q] \/ q = tasks[d]]
  BY DEF SpawnLintPass
<1>2. /\ pc'[p] = "delay" /\ job'[p].doc = d /\ job'[p].version = version /\ job'[p].epoch = epoch
      /\ \A q \in Passes \ {p} : pc'[q] = pc[q] /\ job'[q] = job[q]
  BY <1>1 DEF Shapes, TypeOK
<1>3. \A q \in Passes : /\ aborted'[q] <=> (aborted[q] \/ q = tasks[d])
                        /\ aborted[q] \in BOOLEAN /\ aborted'[q] \in BOOLEAN
  <2>1. \A q \in Passes : aborted'[q] = (aborted[q] \/ q = tasks[d])
    BY <1>1, Zenon
  <2> QED BY <2>1 DEF Shapes, TypeOK
<1>4. \A q \in Passes : q = tasks[d] => job[q].doc = d /\ pc[q] # "free"
  BY LintAssumption DEF Shapes, TypeOK, Registered
<1>5. ~aborted'[p] /\ ~gaveUp'[p]
  BY <1>1, <1>3, <1>4 DEF Shapes, PassesHold
<1>6. ASSUME NEW c \in Docs \ {d}, NEW q \in Passes
      PROVE  SamePass(q) \/ (~WillShow(q, c) /\ Fresh(q, c)')
  <2>1. CASE q = p
    BY <1>1, <1>2, <2>1 DEF WillShow, InForce, Fresh
  <2>2. CASE q # p /\ q = tasks[d]
    BY <1>2, <1>4, <2>2 DEF WillShow, InForce, Fresh
  <2>3. CASE q # p /\ q # tasks[d]
    BY <1>1, <1>2, <1>3, <2>3 DEF SamePass
  <2> QED BY <2>1, <2>2, <2>3
<1>7. ASSUME NEW q \in Passes PROVE Fresh(q, d)'
  <2>1. CASE q = p
    BY <1>2, <2>1 DEF Fresh, Checked
  <2>2. CASE q # p
    <3>1. pc[q] # "free" /\ ~aborted[q] /\ job[q].doc = d => tasks[d] = q
      BY DEF Shapes, OneLivePass
    <3> QED BY <1>2, <1>3, <2>2, <3>1 DEF Fresh, InForce
  <2> QED BY <2>1, <2>2
<1>8. ASSUME versions[d] = version, epochs[d] = epoch PROVE WillShow(p, d)'
  BY <1>2, <1>5, <1>8 DEF WillShow, InForce, IsCurrent, Checked
<1> QED BY <1>6, <1>7, <1>8

\* The handler leaves an open document with a pass in force.
LEMMA HandlerSpawnsPromise ==
  ASSUME Shapes, NothingIsLost, HandlerSpawns
  PROVE  NothingIsLost'
<1>1. PICK d \in Docs : d = hdoc
  BY DEF HandlerSpawns, Shapes, TypeOK
<1>2. /\ VersionOrZero(d) \in Nat /\ epochs[d] \in Nat /\ trigger \in Triggers
      /\ SpawnLintPass(d, VersionOrZero(d), epochs[d], trigger)
      /\ versions[d] = VersionOrZero(d) /\ rev[d] # 0
  BY <1>1 DEF HandlerSpawns, VersionOrZero, Shapes, TypeOK, StoreHolds
<1>3. UNCHANGED <<store, engine, shown, raced, reloader>>
  BY DEF HandlerSpawns, HandlerIdle, HandlerGoto
<1>4. /\ \A c \in Docs \ {d}, q \in Passes : SamePass(q) \/ (~WillShow(q, c) /\ Fresh(q, c)')
      /\ \A q \in Passes : Fresh(q, d)'
      /\ \E q \in Passes : WillShow(q, d)'
  BY <1>2, <1>3, SpawnPromises
<1>5. ASSUME NEW c \in Docs \ raced, c # d PROVE Promised(c)'
  <2>1. Promised(c) /\ SameDoc(c)
    BY <1>3 DEF NothingIsLost, SameDoc, ReloadComes
  <2> QED BY <1>1, <1>4, <1>5, <2>1, PromiseKept
<1>6. Promised(d)'
  BY <1>2, <1>3, <1>4 DEF Promised, IsOpen
<1> QED BY <1>3, <1>5, <1>6 DEF NothingIsLost
-----------------------------------------------------------------------------
(* The reloads. *)

\* The steps of a reload that touch no document and no pass: what it owes, it
\* still owes.
LEMMA ReloadMoves ==
  ASSUME Shapes, NothingIsLost, UNCHANGED <<store, engine, hdoc, passVars, shown, raced>>,
         \A d \in Docs : IsOpen(d) /\ ReloadComes(d) => ReloadComes(d)'
  PROVE  NothingIsLost'
<1>1. ASSUME NEW d \in Docs \ raced, hdoc # d, IsOpen(d) PROVE Promised(d)'
  <2>1. Promised(d) /\ SameDoc(d)
    BY <1>1 DEF NothingIsLost, SameDoc
  <2> QED BY <1>1, <2>1, PromiseKept DEF SamePass
<1>2. ASSUME NEW d \in Docs \ raced, ~IsOpen(d) PROVE Promised(d)'
  BY <1>2 DEF NothingIsLost, Promised, UpToDate, IsOpen
<1> QED BY <1>1, <1>2 DEF NothingIsLost, Promised

\* A reload that has begun owes nothing yet.
LEMMA TriggerPromise ==
  ASSUME Shapes, NothingIsLost, NEW r \in Reloads, NEW at \in {"queue", "list"},
         NEW relint \in BOOLEAN,
         Trigger(r, at, relint)
  PROVE  NothingIsLost'
<1>1. \A d \in Docs : ReloadComes(d) => ReloadComes(d)'
  BY DEF Trigger, ReloadComes, Shapes, TypeOK
<1> QED BY <1>1, ReloadMoves DEF Trigger

\* If the engine changes, this reload is to come for every document.
LEMMA ProbePromise ==
  ASSUME Shapes, NothingIsLost, NEW r \in Reloads, Probe(r)
  PROVE  NothingIsLost'
<1>1. \A d \in Docs : ReloadComes(d) => ReloadComes(d)'
  BY DEF Probe, ReloadComes, Shapes, TypeOK
<1>2. CASE engine' = engine
  BY <1>1, <1>2, ReloadMoves DEF Probe
<1>3. CASE engine' # engine
  <2>1. \A d \in Docs : ReloadComes(d)'
    BY <1>3 DEF Probe, ReloadComes, Shapes, TypeOK
  <2>2. UNCHANGED <<store, hdoc, passVars, shown, raced>>
    BY DEF Probe
  <2>3. ASSUME NEW d \in Docs \ raced, hdoc # d PROVE Promised(d)'
    <3>1. Promised(d)
      BY DEF NothingIsLost
    <3>2. ASSUME NEW p \in Passes, IsOpen(d) PROVE Fresh(p, d)'
      BY <2>1, <2>2, <2>3, <3>1, <3>2 DEF Promised, Fresh, InForce, IsCurrent
    <3> QED BY <2>1, <2>2, <2>3, <3>1, <3>2 DEF Promised, UpToDate, IsOpen
  <2> QED BY <2>2, <2>3 DEF NothingIsLost, Promised
<1> QED BY <1>2, <1>3

\* It still owes the same.
LEMMA AnnouncePromise ==
  ASSUME Shapes, NothingIsLost, NEW r \in Reloads, Announce(r)
  PROVE  NothingIsLost'
<1>1. \A d \in Docs : ReloadComes(d) => ReloadComes(d)'
  BY DEF Announce, ReloadComes, Shapes, TypeOK
<1> QED BY <1>1, ReloadMoves DEF Announce

\* What it lists is every open document, if the engine has changed.
LEMMA ListOpenPromise ==
  ASSUME Shapes, NothingIsLost, NEW r \in Reloads, ListOpen(r)
  PROVE  NothingIsLost'
<1>1. \A d \in Docs : IsOpen(d) /\ ReloadComes(d) => ReloadComes(d)'
  BY DEF ListOpen, ReloadComes, Shapes, TypeOK
<1> QED BY <1>1, ReloadMoves DEF ListOpen

\* What it has captured it still owes.
LEMMA CapturePromise ==
  ASSUME Shapes, NothingIsLost, NEW r \in Reloads, Capture(r)
  PROVE  NothingIsLost'
<1>1. ASSUME NEW d \in Docs, ReloadComes(d) PROVE ReloadComes(d)'
  <2>1. PICK s \in Reloads : \/ rpc[s] \in {"announce", "list"} /\ changed[s]
                             \/ rpc[s] = "relint" /\ (d \in todo[s] \/ captured[s].doc = d)
    BY <1>1 DEF ReloadComes
  <2>2. CASE s # r
    BY <2>1, <2>2 DEF Capture, ReloadComes, Shapes, TypeOK
  <2>3. CASE s = r
    BY <2>1, <2>3, LintAssumption DEF Capture, ReloadComes, Shapes, TypeOK
  <2> QED BY <2>2, <2>3
<1> QED BY <1>1, ReloadMoves DEF Capture

\* It ends when it owes nothing.
LEMMA ReloadEndsPromise ==
  ASSUME Shapes, NothingIsLost, NEW r \in Reloads, ReloadEnds(r)
  PROVE  NothingIsLost'
<1>1. \A d \in Docs : ReloadComes(d) => ReloadComes(d)'
  BY LintAssumption DEF ReloadEnds, ReloadComes, Shapes, TypeOK
<1> QED BY <1>1, ReloadMoves DEF ReloadEnds

\* The re-lint of one document: its pass is in force, unless what was captured
\* of it is stale by now, and that is one of the two races.
LEMMA RelintPromise ==
  ASSUME Shapes, NothingIsLost, NEW r \in Reloads, Relint(r)
  PROVE  NothingIsLost'
<1>1. PICK d \in Docs, version \in Nat, epoch \in Nat :
        captured[r].doc = d /\ captured[r].version = version /\ captured[r].epoch = epoch
  BY DEF Relint, Shapes, TypeOK, CapturesAreOfDocs
<1>2. captured[r].trigger \in Triggers /\ SpawnLintPass(d, version, epoch, captured[r].trigger)
  BY <1>1 DEF Relint, Shapes, TypeOK
<1>3. /\ UNCHANGED <<store, engine, hdoc, shown, rpc, changed, todo>>
      /\ captured' = [captured EXCEPT ![r] = NoJob] /\ raced \subseteq raced'
      /\ d \notin raced' => versions[d] = version /\ epochs[d] = epoch
  BY <1>1 DEF Relint
<1>4. /\ \A c \in Docs \ {d}, q \in Passes : SamePass(q) \/ (~WillShow(q, c) /\ Fresh(q, c)')
      /\ \A q \in Passes : Fresh(q, d)'
      /\ versions[d] = version /\ epochs[d] = epoch => \E q \in Passes : WillShow(q, d)'
  BY <1>2, <1>3, SpawnPromises
<1>5. ASSUME NEW c \in Docs \ raced', hdoc # c, c # d PROVE Promised(c)'
  <2>1. ReloadComes(c) => ReloadComes(c)'
    BY <1>1, <1>3, <1>5 DEF ReloadComes, Shapes, TypeOK
  <2>2. Promised(c) /\ SameDoc(c)
    BY <1>3, <2>1 DEF NothingIsLost, SameDoc
  <2> QED BY <1>4, <1>5, <2>2, PromiseKept
<1>6. ASSUME d \notin raced' PROVE Promised(d)'
  <2>1. IsOpen(d)'
    BY <1>3, <1>6 DEF IsOpen, Shapes, TypeOK, StoreHolds
  <2> QED BY <1>3, <1>4, <1>6, <2>1 DEF Promised
<1> QED BY <1>3, <1>5, <1>6 DEF NothingIsLost, Promised

-----------------------------------------------------------------------------
\* Nothing is open, and nothing shown.
LEMMA InitPromise == Init => NothingIsLost
BY LintAssumption DEF Init, NothingIsLost, Promised, UpToDate, IsOpen, Clear

\* Every step is one of the above, or a stutter.
LEMMA NextPromise == Shapes /\ NothingIsLost /\ [Next]_vars => NothingIsLost'
<1> SUFFICES ASSUME Shapes, NothingIsLost, [Next]_vars PROVE NothingIsLost'
  OBVIOUS
<1>1. ASSUME NEW p \in Passes, PassStep(p) PROVE NothingIsLost'
  BY <1>1, WakePromise, TakeSnapshotPromise, ReadEnginePromise, NativeGivesUpPromise,
     AcquirePermitPromise, KondoTierPromise, CheckStalePromise, RecordHealthPromise,
     AnnounceHealthPromise, PublishPromise, RetirePromise, DropPromise DEF PassStep
<1>2. ASSUME NEW d \in Docs, ClientInput(d) PROVE NothingIsLost'
  BY <1>2, DidOpenPromise, DidChangePromise, DidSavePromise, DidClosePromise DEF ClientInput
<1>3. CASE HandlerStep
  BY <1>3, SetVersionPromise, HandlerSpawnsPromise, ForgetPromise, ClearDiagnosticsPromise
     DEF HandlerStep
<1>4. ASSUME NEW r \in Reloads, SettingsInput(r) PROVE NothingIsLost'
  BY <1>4, TriggerPromise DEF SettingsInput, DidChangeConfiguration, DidChangePulseConfig,
     DidChangeKondoConfig
<1>5. ASSUME NEW r \in Reloads, ReloadStep(r) PROVE NothingIsLost'
  BY <1>5, ProbePromise, AnnouncePromise, ListOpenPromise, CapturePromise, RelintPromise,
     ReloadEndsPromise DEF ReloadStep
<1>6. CASE UNCHANGED vars
  BY <1>6 DEF vars, NothingIsLost, Promised, UpToDate, IsOpen, Fresh, WillShow, InForce,
     IsCurrent, ReloadComes
<1> QED BY <1>1, <1>2, <1>3, <1>4, <1>5, <1>6 DEF Next

\* So nothing is lost throughout.
LEMMA PromiseHolds == Spec => []NothingIsLost
BY ShapesHold, InitPromise, NextPromise, PTL DEF Spec

-----------------------------------------------------------------------------
(* The theorems. *)

\* What the passes, the handler and the reloads hold keeps its type
\* (spawn_lint_pass, spawn_kondo_reload).
THEOREM TypeCorrect == Spec => []TypeOK
<1>1. Shapes => TypeOK
  BY DEF Shapes
<1> QED BY <1>1, ShapesHold, PTL

\* However spawns, aborts, closes and drops overlap, a document has one pass
\* that is not aborted, the registered one (spawn_lint_pass under the registry
\* entry, remove_if).
THEOREM OnlyOneLives == Spec => []OneLivePass
<1>1. Shapes => OneLivePass
  BY DEF Shapes
<1> QED BY <1>1, ShapesHold, PTL

\* Whatever is aborted and when, the permits of KONDO_LIMIT that are free and
\* the runs of clj-kondo add up.
THEOREM PermitsComeBack == Spec => []PermitsConserved
<1>1. Shapes => PermitsConserved
  BY DEF Shapes
<1> QED BY <1>1, ShapesHold, PTL

\* When nothing is under way for a document, the client has the diagnostics of
\* its last edit or save under the current engine, or none if it is closed,
\* unless one of the two races hit it.
THEOREM NoPassIsLost == Spec => []QuietIsUpToDate
<1>1. Shapes /\ NothingIsLost => QuietIsUpToDate
  <2> SUFFICES ASSUME Shapes, NothingIsLost, NEW d \in Docs \ raced, Quiet(d) PROVE UpToDate(d)
    BY DEF QuietIsUpToDate
  <2>1. hdoc # d /\ ~ReloadComes(d) /\ \A p \in Passes : ~WillShow(p, d)
    BY DEF Quiet, ReloadComes, WillShow, InForce
  <2> QED BY <2>1 DEF NothingIsLost, Promised
<1> QED BY <1>1, ShapesHold, PromiseHolds, PTL

-----------------------------------------------------------------------------
(***************************************************************************)
(* Part 3: the passes implement Diagnostics.                               *)
(***************************************************************************)
ServiceStep == [Service!Next]_(Service!vars)

\* Most steps show the client nothing and move no document.
LEMMA Stutters ==
  ASSUME UNCHANGED <<versions, epochs, shown, raced>>
  PROVE  ServiceStep
BY DEF ServiceStep, Service!vars

\* The handler moves the document that it is at.
LEMMA Moves ==
  ASSUME NEW c \in Docs, UNCHANGED <<shown, raced>>,
         \A d \in Docs \ {c} : versions'[d] = versions[d] /\ epochs'[d] = epochs[d]
  PROVE  ServiceStep
<1>1. Service!Move(c)
  BY DEF Service!Move, Service!OnlyAt
<1> QED BY <1>1 DEF ServiceStep, Service!Next

\* What is published is the mark of the document, or the document is given up.
LEMMA Shows ==
  ASSUME NEW c \in Docs, UNCHANGED <<versions, epochs>>,
         \A d \in Docs \ {c} : shown'[d] = shown[d],
         \/ raced' = raced /\ shown'[c].version = versions[c] /\ shown'[c].epoch = epochs[c]
         \/ raced' = raced \cup {c}
  PROVE  ServiceStep
<1>1. CASE raced' = raced \cup {c}
  <2>1. Service!Lose(c)
    BY <1>1 DEF Service!Lose, Service!OnlyAt
  <2> QED BY <2>1 DEF ServiceStep, Service!Next
<1>2. CASE c \notin raced /\ raced' = raced /\ shown'[c].version = versions[c] /\ shown'[c].epoch = epochs[c]
  <2>1. Service!Show(c)
    BY <1>2 DEF Service!Show, Service!OnlyAt, MarkOf
  <2> QED BY <2>1 DEF ServiceStep, Service!Next
<1> QED BY <1>1, <1>2

\* The check before it stands, or the race is recorded.
LEMMA PublishShows ==
  ASSUME Shapes, NEW p \in Passes, Publish(p)
  PROVE  ServiceStep
<1>1. CASE gaveUp[p]
  BY <1>1, Stutters DEF Publish
<1>2. CASE ~gaveUp[p]
  <2>1. PICK c \in Docs : c = job[p].doc
    BY DEF Publish, Shapes, PassesHold
  <2>2. passed[p] /\ UNCHANGED <<versions, epochs>>
    BY DEF Publish, Shapes, PassesHold, Checked
  <2>3. /\ shown' = [shown EXCEPT ![c] = [version |-> job[p].version, epoch |-> job[p].epoch,
                                          rev |-> seen[p], engine |-> used[p]]]
        /\ \/ raced' = raced \cup {c}
           \/ raced' = raced /\ versions[c] = job[p].version /\ epochs[c] = job[p].epoch
    BY <1>2, <2>1, <2>2 DEF Publish, IsCurrent
  <2>4. /\ \A d \in Docs \ {c} : shown'[d] = shown[d]
        /\ shown'[c].version = job[p].version /\ shown'[c].epoch = job[p].epoch
    BY <2>3 DEF Shapes, TypeOK
  <2> QED BY <2>2, <2>3, <2>4, Shows
<1> QED BY <1>1, <1>2

\* A closed document has the mark of one that has never been opened.
LEMMA ClearDiagnosticsShows ==
  ASSUME Shapes, ClearDiagnostics
  PROVE  ServiceStep
<1>1. PICK c \in Docs : c = hdoc
  BY DEF ClearDiagnostics, Shapes, TypeOK
<1>2. versions[c] = NoVersion /\ epochs[c] = 0
  BY <1>1 DEF ClearDiagnostics, Shapes, StoreHolds
<1>3. /\ \A d \in Docs \ {c} : shown'[d] = shown[d]
      /\ shown'[c] = Clear /\ raced' = raced /\ UNCHANGED <<versions, epochs>>
  BY <1>1 DEF ClearDiagnostics, Shapes, TypeOK
<1> QED BY <1>2, <1>3, Shows DEF Clear

\* A re-lint with a stale capture is recorded as a race, and shows nothing yet.
LEMMA RelintShows ==
  ASSUME Shapes, NEW r \in Reloads, Relint(r)
  PROVE  ServiceStep
<1>1. PICK c \in Docs : c = captured[r].doc
  BY DEF Relint, Shapes, CapturesAreOfDocs
<1>2. UNCHANGED <<versions, epochs, shown>> /\ (raced' = raced \/ raced' = raced \cup {c})
  BY <1>1 DEF Relint
<1>3. CASE raced' = raced
  BY <1>2, <1>3, Stutters
<1>4. CASE raced' = raced \cup {c}
  BY <1>2, <1>4, Shows
<1> QED BY <1>2, <1>3, <1>4

\* Every step is a step of the service, or a stutter.
LEMMA NextImplements == Shapes /\ [Next]_vars => ServiceStep
<1> SUFFICES ASSUME Shapes, [Next]_vars PROVE ServiceStep
  OBVIOUS
<1>1. ASSUME NEW p \in Passes, PassStep(p) PROVE ServiceStep
  BY <1>1, Stutters, PublishShows DEF PassStep, Wake, TakeSnapshot, ReadEngine, NativeGivesUp,
     AcquirePermit, KondoTier, CheckStale, RecordHealth, AnnounceHealth, Retire, Drop
<1>2. ASSUME NEW d \in Docs, ClientInput(d) PROVE ServiceStep
  <2>1. CASE DidOpen(d) \/ DidChange(d) \/ DidClose(d)
    BY <2>1, Stutters DEF DidOpen, DidChange, DidClose
  <2>2. CASE DidSave(d)
    BY <2>2, Moves DEF DidSave, Shapes, TypeOK
  <2> QED BY <1>2, <2>1, <2>2 DEF ClientInput
<1>3. CASE HandlerStep
  <2>1. CASE SetVersion \/ Forget
    <3>1. PICK c \in Docs : c = hdoc
      BY <2>1 DEF SetVersion, Forget, Shapes, TypeOK
    <3>2. /\ UNCHANGED <<shown, raced>>
          /\ \A d \in Docs \ {c} : versions'[d] = versions[d] /\ epochs'[d] = epochs[d]
      BY <2>1, <3>1 DEF SetVersion, Forget, Shapes, TypeOK
    <3> QED BY <3>2, Moves
  <2>2. CASE HandlerSpawns
    BY <2>2, Stutters DEF HandlerSpawns
  <2> QED BY <1>3, <2>1, <2>2, ClearDiagnosticsShows DEF HandlerStep
<1>4. ASSUME NEW r \in Reloads, SettingsInput(r) PROVE ServiceStep
  BY <1>4, Stutters DEF SettingsInput, DidChangeConfiguration, DidChangePulseConfig,
     DidChangeKondoConfig, Trigger
<1>5. ASSUME NEW r \in Reloads, ReloadStep(r) PROVE ServiceStep
  BY <1>5, Stutters, RelintShows DEF ReloadStep, Probe, Announce, ListOpen, Capture, ReloadEnds
<1>6. CASE UNCHANGED vars
  BY <1>6, Stutters DEF vars
<1> QED BY <1>1, <1>2, <1>3, <1>4, <1>5, <1>6 DEF Next

\* Whatever the passes and their races do, the client is shown a document's
\* diagnostics in one step and those of the document as it is in that step, or
\* the document has been hit by one of the two races.
THEOREM PassesImplementDiagnostics == Spec => ImplementsDiagnostics
<1>1. Init => Service!Init
  BY DEF Init, Clear, Service!Init, MarkOf
<1>2. Shapes /\ [Next]_vars => [Service!Next]_(Service!vars)
  BY NextImplements DEF ServiceStep
<1> QED BY <1>1, <1>2, ShapesHold, PTL DEF Spec, ImplementsDiagnostics, Service!Spec
=============================================================================
