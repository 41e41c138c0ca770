------------------------- MODULE MC_ConfigPipeline -------------------------
(* A workspace of a root and one subproject, for TLC. *)
EXTENDS ConfigPipeline, TLC

CONSTANTS root, sub, cmdA, cmdB, startup, t1, t2

MCProjects == {root, sub}
MCCmds     == {cmdA, cmdB}
MCTasks    == {startup, t1, t2}

On(c)  == [enabled |-> TRUE, cmd |-> c]
Off(c) == [enabled |-> FALSE, cmd |-> c]

\* The root, which is always a project, and a subproject that comes and goes.
MCChoices == (root :> {On(cmdA)}) @@ (sub :> {On(cmdA), Off(cmdA), None})
MCStart   == {(root :> On(cmdA)) @@ (sub :> c) : c \in {Off(cmdA), None}}

\* The root alone, whose command is changed.
RootOnly    == {root}
RootChoices == root :> {On(cmdA), On(cmdB)}
RootStart   == {root :> On(cmdA)}

TaskSymmetry == Permutations({t1, t2})
=============================================================================
