------------------------ MODULE ChildProcess_proofs ------------------------
(***************************************************************************)
(* Proofs that a run that was given up leaves no process, that an answer   *)
(* is the whole output, and that full pipes never hold each other up, for  *)
(* every size of pipe and input.                                           *)
(***************************************************************************)
EXTENDS ChildProcess, TLAPS

\* The guard is armed exactly while a run of clj-kondo is waited for, so that
\* an abort finds it armed.
GuardHolds == armed \in BOOLEAN /\ (armed <=> Waiting /\ caller = "kondo")

\* A run that has not begun has no process and no outcome.
NotBegun == caller = "none" => outcome = "waiting" /\ alive = {}

\* A command that was collected has nobody left to write more, and nobody to
\* start one who could.
Collapsed == outcome = "exited" => Child \notin alive /\ holders = {} /\ stdout = 0

\* No byte of the output is lost or made up on its way.
Conserved ==
  /\ stdout \in Int /\ output \in Int /\ written \in Int
  /\ written = stdout + output

IInv == GuardHolds /\ NotBegun /\ NoOrphans /\ Collapsed /\ Conserved

USE DEF IInv, GuardHolds, NotBegun, NoOrphans, Collapsed, Conserved, Waiting,
        serverVars, writerVars, groupVars

\* What the pipes and the two ends of them hold is a number of bytes, and only a
\* process that lives has a pipe open.
PipesInv ==
  /\ stdin \in Nat /\ stdout \in Nat /\ unfed \in Nat /\ owed \in Nat
  /\ fed \in BOOLEAN /\ ready \in BOOLEAN
  /\ holders \subseteq alive

LEMMA InitIInv == RunInit => IInv
<1> SUFFICES ASSUME RunInit PROVE IInv
  OBVIOUS
<1>1. GuardHolds /\ NotBegun
  BY DEF RunInit
<1>2. NoOrphans /\ Collapsed /\ Conserved
  BY DEF RunInit
<1> QED BY <1>1, <1>2

LEMMA CommandIInv == IInv /\ CommandStep => IInv'
<1> SUFFICES ASSUME IInv, CommandStep PROVE IInv'
  OBVIOUS
<1>1. CASE Fork
  BY <1>1 DEF Fork, Child, Inner
<1>2. CASE Read
  BY <1>2 DEF Read
<1>3. CASE ReadEnd
  BY <1>3 DEF ReadEnd
<1>4. CASE Write
  <2>1. stdout' = stdout + 1 /\ written' = written + 1 /\ output' = output
    BY <1>4 DEF Write
  <2>2. (GuardHolds /\ NotBegun /\ NoOrphans /\ Collapsed)'
    BY <1>4 DEF Write, MayWrite
  <2>3. /\ stdout \in Int /\ output \in Int /\ written \in Int
        /\ written = stdout + output
    OBVIOUS
  <2>4. Conserved'
    <3> HIDE DEF IInv, NotBegun, GuardHolds, NoOrphans, Collapsed
    <3> QED BY ONLY <2>1, <2>3 DEF Conserved
  <2> QED BY <2>2, <2>4
<1>5. ASSUME NEW p \in {Child, Inner}, Exit(p) PROVE IInv'
  BY <1>5 DEF Exit
<1>6. ASSUME NEW p \in {Child, Inner}, CloseOutput(p) PROVE IInv'
  BY <1>6 DEF CloseOutput
<1> QED BY <1>1, <1>2, <1>3, <1>4, <1>5, <1>6 DEF CommandStep

LEMMA NextIInv == IInv /\ [RunNext]_runVars => IInv'
<1> SUFFICES ASSUME IInv, [RunNext]_runVars PROVE IInv'
  OBVIOUS
<1>1. ASSUME NEW data \in 0..MaxInput, SpawnKondo(data) PROVE IInv'
  BY <1>1 DEF SpawnKondo, SpawnCommand
<1>0. CASE SpawnClasspath
  BY <1>0 DEF SpawnClasspath, SpawnCommand
<1>2. ASSUME NEW who \in {"kondo", "classpath"}, SpawnFails(who) PROVE IInv'
  BY <1>2 DEF SpawnFails
<1>3. CASE Feed
  BY <1>3 DEF Feed
<1>4. CASE EndFeed
  BY <1>4 DEF EndFeed
<1>5. CASE Drain
  BY <1>5 DEF Drain, MayDrain
<1>6. CASE Collected
  BY <1>6 DEF Collected
<1>7. CASE TimeOut
  BY <1>7 DEF TimeOut, Kill
<1>8. CASE Abort
  BY <1>8 DEF Abort, Kill
<1>9. CASE CommandStep
  BY <1>9, CommandIInv
<1>10. CASE UNCHANGED runVars
  BY <1>10 DEF runVars
<1> QED BY <1>0, <1>1, <1>2, <1>3, <1>4, <1>5, <1>6, <1>7, <1>8, <1>9, <1>10
      DEF RunNext

THEOREM Invariance == RunSpec => []IInv
BY InitIInv, NextIInv, PTL DEF RunSpec

\* A run that is timed out or aborted leaves no process behind, whatever the
\* command had started (KillGroupOnDrop and kill_group in kondo.rs).
THEOREM NothingSurvives == RunSpec => []NoOrphans
BY Invariance, PTL

\* What the caller gets of a run that ended by itself is all that was written
\* (wait_with_output in kondo.rs and classpath.rs).
THEOREM WholeAnswers == RunSpec => []OutputIsWhole
<1>1. IInv => OutputIsWhole
  BY DEF OutputIsWhole
<1> QED BY <1>1, Invariance, PTL

LEMMA InitPipes == RunInit => PipesInv
<1> SUFFICES ASSUME RunInit PROVE PipesInv
  OBVIOUS
<1>1. stdin \in Nat /\ stdout \in Nat /\ unfed \in Nat /\ owed \in Nat
  BY DEF RunInit
<1>2. fed \in BOOLEAN /\ ready \in BOOLEAN /\ holders \subseteq alive
  BY DEF RunInit
<1> QED BY <1>1, <1>2 DEF PipesInv

LEMMA NextPipes == PipesInv /\ [RunNext]_runVars => PipesInv'
<1> SUFFICES ASSUME PipesInv, [RunNext]_runVars PROVE PipesInv'
  OBVIOUS
<1> USE PipeAssumption DEF PipesInv
<1>1. ASSUME NEW data \in 0..MaxInput, SpawnKondo(data) PROVE PipesInv'
  BY <1>1 DEF SpawnKondo, SpawnCommand
<1>2. CASE SpawnClasspath
  BY <1>2 DEF SpawnClasspath, SpawnCommand
<1>3. ASSUME NEW who \in {"kondo", "classpath"}, SpawnFails(who) PROVE PipesInv'
  BY <1>3 DEF SpawnFails
<1>4. CASE Feed
  BY <1>4 DEF Feed, MayFeed
<1>5. CASE EndFeed
  BY <1>5 DEF EndFeed, MayEndFeed
<1>6. CASE Drain
  BY <1>6 DEF Drain, MayDrain
<1>7. CASE Collected
  BY <1>7 DEF Collected
<1>8. CASE TimeOut
  BY <1>8 DEF TimeOut, Kill
<1>9. CASE Abort
  BY <1>9 DEF Abort, Kill
<1>10. CASE CommandStep
  <2>1. CASE Fork
    BY <2>1 DEF Fork
  <2>2. CASE Read
    BY <2>2 DEF Read, MayRead
  <2>3. CASE ReadEnd
    BY <2>3 DEF ReadEnd, MayReadEnd
  <2>4. CASE Write
    BY <2>4 DEF Write, MayWrite
  <2>5. ASSUME NEW p \in {Child, Inner}, Exit(p) PROVE PipesInv'
    BY <2>5 DEF Exit
  <2>6. ASSUME NEW p \in {Child, Inner}, CloseOutput(p) PROVE PipesInv'
    BY <2>6 DEF CloseOutput
  <2> QED BY <1>10, <2>1, <2>2, <2>3, <2>4, <2>5, <2>6 DEF CommandStep
<1>11. CASE UNCHANGED runVars
  BY <1>11 DEF runVars
<1> QED BY <1>1, <1>2, <1>3, <1>4, <1>5, <1>6, <1>7, <1>8, <1>9, <1>10, <1>11
      DEF RunNext

\* Somebody can always move while a live command has something to read or to
\* write: two full pipes never wait for each other (the writer task of run in
\* kondo.rs).
THEOREM NeverStalled == RunSpec => []PipesNeverStall
<1>1. PipesInv => PipesNeverStall
  BY PipeAssumption DEF PipesInv, PipesNeverStall, MayFeed, MayEndFeed, MayDrain, MayRead,
    MayReadEnd, MayWrite
<1> QED BY <1>1, InitPipes, NextPipes, PTL DEF RunSpec
=============================================================================
