--------------------------- MODULE MC_KondoEngine ---------------------------
(***************************************************************************)
(* Instances of KondoEngine and ChildProcess for TLC: two reloads and two  *)
(* applications over a project that comes and goes, and one run of a       *)
(* command. KondoEngine takes a run as one step that ends; a behaviour of  *)
(* this instance is one of the first or one of the second.                 *)
(***************************************************************************)
EXTENDS KondoEngine, ChildProcess

CONSTANTS sub, cp1, cp2, native_only, kondo_a, r1, r2, startup, a1

VARIABLE part  \* whose behaviour it is

MCInit == part \in {"engine", "run"} /\ Init /\ RunInit

MCNext ==
  \/ part = "engine" /\ Next /\ UNCHANGED <<runVars, part>>
  \/ part = "run" /\ RunNext /\ UNCHANGED <<vars, part>>

MCSpec == MCInit /\ [][MCNext]_<<vars, runVars, part>> /\ Fairness
=============================================================================
