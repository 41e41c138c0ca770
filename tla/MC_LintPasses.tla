--------------------------- MODULE MC_LintPasses ---------------------------
(***************************************************************************)
(* Instances of LintPasses for TLC.  The .cfg files name the documents,    *)
(* tasks and engines and set the bounds.                                   *)
(***************************************************************************)
EXTENDS LintPasses

CONSTANTS d1, d2, p1, p2, r1, r2, native_only, kondo_a, crash
=============================================================================
