---------------------------- MODULE Diagnostics ----------------------------
(***************************************************************************)
(* What the lint passes of clj-pulse promise the client, with the passes   *)
(* left out: a document is shown the diagnostics of what it is now, in one *)
(* step, or nothing new.  Passes, debounces, aborts, permits and re-lints  *)
(* are LintPasses' way of doing that (server.rs, spawn_lint_pass and what  *)
(* calls it).                                                              *)
(***************************************************************************)
CONSTANT Docs

VARIABLES
  wanted,  \* the mark (version and lint epoch) of each document as it is
  shown,   \* the mark of the diagnostics that the client has of it
  lost     \* documents that one of the two known races has hit

vars == <<wanted, shown, lost>>

OnlyAt(d, f, g) == \A c \in Docs \ {d} : f[c] = g[c]

\* The client opens, edits, saves or closes a document.
Move(d) == OnlyAt(d, wanted', wanted) /\ UNCHANGED <<shown, lost>>

\* Its diagnostics arrive, and are those of the document at this moment.
Show(d) ==
  /\ d \notin lost /\ shown'[d] = wanted[d] /\ OnlyAt(d, shown', shown)
  /\ UNCHANGED <<wanted, lost>>

\* A race: from here on nothing is promised of the document.
Lose(d) ==
  /\ lost' = lost \cup {d} /\ OnlyAt(d, shown', shown)
  /\ UNCHANGED wanted

Init == shown = wanted /\ lost = {}
Next == \E d \in Docs : Move(d) \/ Show(d) \/ Lose(d)
Spec == Init /\ [][Next]_vars
=============================================================================
