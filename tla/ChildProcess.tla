---------------------------- MODULE ChildProcess ----------------------------
(***************************************************************************)
(* One run of an external command: clj-kondo's own `run` (kondo.rs) and a  *)
(* project's classpath command (classpath.rs). The future that waits for   *)
(* the output has a deadline, and a lint pass that is superseded drops its *)
(* future in the middle of the wait. The command may be a shell or a shim  *)
(* around the real program: a group of processes that share the pipes.     *)
(*                                                                         *)
(* Of the bytes only their number is kept. A process that leaves its group *)
(* or hands its pipes to one outside it is not modelled.                   *)
(***************************************************************************)
EXTENDS Integers

CONSTANTS
  Pipe,       \* bytes a pipe holds
  MaxInput,   \* bound: bytes fed to the command
  PerByte     \* what it writes for a byte it reads, and at the end of its input

ASSUME PipeAssumption == Pipe \in Nat \ {0} /\ MaxInput \in Nat /\ PerByte \in Nat

\* The process that is spawned, and one that it starts.
Child == "child"
Inner == "inner"

VARIABLES
  caller,     \* "kondo" or "classpath": whose run it is; "none" before
  outcome,    \* "waiting", or how the run ended
  armed,      \* KillGroupOnDrop holds the pid
  unfed,      \* what the writer task has not written yet
  fed,        \* the writer task closed the command's stdin, or there is none
  stdin,      \* bytes in the pipe to the command
  stdout,     \* bytes in the pipe from it
  output,     \* bytes wait_with_output has collected
  alive,      \* the processes of the group that run
  holders,    \* the ones among them with the write end of stdout open
  owed,       \* what the command has yet to write for what it has read
  written,    \* bytes it has written
  ready       \* it has read the end of its input

serverVars == <<caller, outcome, armed, output>>
writerVars == <<unfed, fed>>
groupVars  == <<alive, holders, owed, written, ready>>
runVars == <<serverVars, writerVars, stdin, stdout, groupVars>>

Waiting == caller # "none" /\ outcome = "waiting"

-----------------------------------------------------------------------------
(* The command. Which process of the group reads and writes does not matter. *)

\* The spawned process starts the real one, which inherits its pipes.
Fork ==
  /\ Child \in alive /\ Inner \notin alive
  /\ alive' = alive \cup {Inner}
  /\ holders' = holders \cup (IF Child \in holders THEN {Inner} ELSE {})
  /\ UNCHANGED <<owed, written, ready, stdin, stdout, serverVars, writerVars>>

MayRead == alive # {} /\ stdin > 0 /\ owed = 0

Read ==
  /\ MayRead
  /\ stdin' = stdin - 1 /\ owed' = PerByte
  /\ UNCHANGED <<stdout, alive, holders, written, ready, serverVars, writerVars>>

MayReadEnd == alive # {} /\ stdin = 0 /\ fed /\ owed = 0 /\ ~ready

ReadEnd ==
  /\ MayReadEnd
  /\ ready' = TRUE /\ owed' = PerByte
  /\ UNCHANGED <<stdin, stdout, alive, holders, written, serverVars, writerVars>>

MayWrite == holders # {} /\ owed > 0 /\ stdout < Pipe

Write ==
  /\ MayWrite
  /\ stdout' = stdout + 1 /\ owed' = owed - 1 /\ written' = written + 1
  /\ UNCHANGED <<stdin, alive, holders, ready, serverVars, writerVars>>

\* A process ends: because it is done, because it fails, or the shell before
\* the program it started.
Exit(p) ==
  /\ p \in alive
  /\ alive' = alive \ {p} /\ holders' = holders \ {p}
  /\ UNCHANGED <<owed, written, ready, stdin, stdout, serverVars, writerVars>>

\* A process detaches from the output and goes on.
CloseOutput(p) ==
  /\ p \in holders
  /\ holders' = holders \ {p}
  /\ UNCHANGED <<alive, owed, written, ready, stdin, stdout, serverVars, writerVars>>

-----------------------------------------------------------------------------
(* The server. *)

\* The command runs in a group of its own, and hands its pipes to the server.
SpawnCommand(who, data) ==
  /\ caller = "none" /\ caller' = who
  /\ alive' = {Child} /\ holders' = {Child}
  /\ unfed' = data /\ fed' = (data = 0)
  /\ UNCHANGED <<outcome, output, stdin, stdout, owed, written, ready>>

\* run: the guard is armed, and the input, if there is one, goes to a task of
\* its own.
SpawnKondo(data) == SpawnCommand("kondo", data) /\ armed' = TRUE

\* resolve_via_cmd: no input and no guard.
SpawnClasspath == SpawnCommand("classpath", 0) /\ UNCHANGED armed

\* cmd.spawn() fails.
SpawnFails(who) ==
  /\ caller = "none" /\ caller' = who /\ outcome' = "failed"
  /\ UNCHANGED <<armed, output, writerVars, stdin, stdout, groupVars>>

\* The writer task: write_all, as far as the pipe takes it.
MayFeed == alive # {} /\ unfed > 0 /\ stdin < Pipe

Feed ==
  /\ MayFeed
  /\ stdin' = stdin + 1 /\ unfed' = unfed - 1
  /\ UNCHANGED <<fed, stdout, serverVars, groupVars>>

\* Everything is written, or nobody is left to read it: the handle is dropped.
MayEndFeed == ~fed /\ (unfed = 0 \/ alive = {})

EndFeed ==
  /\ MayEndFeed
  /\ fed' = TRUE
  /\ UNCHANGED <<unfed, stdin, stdout, serverVars, groupVars>>

\* Variant: the input is written inline, before anything is read.
MayDrainOnceFed == Waiting /\ stdout > 0 /\ fed

\* wait_with_output reads while it waits.
MayDrain == Waiting /\ stdout > 0

Drain ==
  /\ MayDrain
  /\ stdout' = stdout - 1 /\ output' = output + 1
  /\ UNCHANGED <<caller, outcome, armed, writerVars, stdin, groupVars>>

\* Variant: the exit of the spawned process ends the wait.
CollectedAtExit ==
  /\ Waiting /\ Child \notin alive
  /\ outcome' = "exited" /\ armed' = FALSE
  /\ UNCHANGED <<caller, output, writerVars, stdin, stdout, groupVars>>

\* The wait is over when the spawned process has exited and the output has
\* ended, which takes every process that holds it; the guard is disarmed.
Collected ==
  /\ Waiting /\ Child \notin alive /\ holders = {} /\ stdout = 0
  /\ outcome' = "exited" /\ armed' = FALSE
  /\ UNCHANGED <<caller, output, writerVars, stdin, stdout, groupVars>>

\* Variant: only the process that was spawned is killed.
KillChild(group) ==
  /\ alive' = alive \ {Child} /\ holders' = holders \ {Child}
  /\ UNCHANGED <<owed, written, ready>>

\* kill_on_drop reaps the spawned process; kill_group, when called, all of them.
Kill(group) ==
  /\ alive' = IF group THEN {} ELSE alive \ {Child}
  /\ holders' = holders \cap alive'
  /\ UNCHANGED <<owed, written, ready>>

\* The deadline: the child is dropped with the wait and its group is killed.
TimeOut ==
  /\ Waiting
  /\ outcome' = "timed out" /\ armed' = FALSE
  /\ Kill(TRUE)
  /\ UNCHANGED <<caller, output, writerVars, stdin, stdout>>

\* The pass that awaits clj-kondo is aborted: the child is dropped, then the
\* guard. Nobody aborts the task of a classpath command.
Abort ==
  /\ Waiting /\ caller = "kondo"
  /\ outcome' = "aborted" /\ armed' = FALSE
  /\ Kill(armed)
  /\ UNCHANGED <<caller, output, writerVars, stdin, stdout>>

RunInit ==
  /\ caller = "none" /\ outcome = "waiting" /\ armed = FALSE
  /\ unfed = 0 /\ fed = TRUE /\ stdin = 0 /\ stdout = 0 /\ output = 0
  /\ alive = {} /\ holders = {} /\ owed = 0 /\ written = 0 /\ ready = FALSE

CommandStep ==
  \/ Fork \/ Read \/ ReadEnd \/ Write
  \/ \E p \in {Child, Inner} : Exit(p) \/ CloseOutput(p)

RunNext ==
  \/ SpawnClasspath \/ \E data \in 0..MaxInput : SpawnKondo(data)
  \/ \E who \in {"kondo", "classpath"} : SpawnFails(who)
  \/ Feed \/ EndFeed \/ Drain \/ Collected \/ TimeOut \/ Abort
  \/ CommandStep

RunSpec == RunInit /\ [][RunNext]_runVars

-----------------------------------------------------------------------------
(* Properties. *)

\* Nothing of a command outlives a run that was given up: neither the deadline
\* nor the abort of a superseded pass leaves the program behind the shim alive
\* (KillGroupOnDrop, kill_group).
NoOrphans == outcome \in {"timed out", "aborted"} => alive = {}

\* An answer is the whole output: also of a program that outlives the shell it
\* was started from (wait_with_output in run and resolve_via_cmd).
OutputIsWhole == outcome = "exited" => output = written

\* Full pipes on both sides do not hold each other up: as long as a live command
\* has something to read or write, somebody can move, and the deadline is for
\* commands that hang (the writer task of run). What follows the guards of these
\* actions only says what they change, so a guard that holds is a step enabled.
PipesNeverStall ==
  Waiting /\ holders # {} /\ ~(ready /\ owed = 0) =>
    MayFeed \/ MayEndFeed \/ MayDrain \/ MayRead \/ MayReadEnd \/ MayWrite
=============================================================================
