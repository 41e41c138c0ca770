----------------------------- MODULE MC_Settles -----------------------------
(***************************************************************************)
(* One instance for the lint passes, under fair scheduling, and for the    *)
(* guard around the handlers, which share no state.  A behaviour is one of *)
(* a part, with the other at rest.                                         *)
(***************************************************************************)
EXTENDS LintPasses, PanicGuard

CONSTANTS d1, p1, p2, r1, native_only, kondo_a, crash

VARIABLE part  \* whose behaviour it is

MCInit == Init /\ GuardInit /\ (part = "lint" \/ (part = "guard" /\ engine = native_only))

MCNext ==
  \/ part = "lint" /\ Next /\ UNCHANGED <<guardVars, part>>
  \/ part = "guard" /\ GuardNext /\ UNCHANGED <<vars, part>>

MCFairSpec == MCInit /\ [][MCNext]_<<vars, guardVars, part>> /\ Fairness
=============================================================================
