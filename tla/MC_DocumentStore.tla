-------------------------- MODULE MC_DocumentStore --------------------------
(***************************************************************************)
(* Instances of DocumentStore, TextEdits, Renames and NsEdits for TLC. The *)
(* four share nothing but the text, which DocumentStore takes as one       *)
(* value, TextEdits character by character and the others form by form; a  *)
(* behaviour of this instance is one of a part, with the others at rest.   *)
(***************************************************************************)
EXTENDS DocumentStore, TextEdits, MC_Renames, MC_NsEdits

CONSTANTS d1, w1, w2, a1, a2, a3, defn_a, defn_b, plain, lint_as,
          letter, wide, newline, colon

VARIABLE part  \* whose behaviour it is

\* A wide character is outside the basic plane: a surrogate pair, four bytes.
MCUnits == [c \in Chars |-> IF c = wide THEN 2 ELSE 1]
MCBytes == [c \in Chars |-> IF c = wide THEN 4 ELSE 1]

StoreRests == current = a1 /\ content = [a \in Addrs |-> plain]
EditsRest  == buffer = <<>> /\ text = <<>> /\ edit = NoEdit
RenamesRest ==
  /\ live = Having(NoLintAs) /\ cached = [f \in Files |-> Read(f, live[f])] /\ index = cached
  /\ open = {} /\ last = NoRename /\ renames = 0
NsRests == source = Source(<<>>) /\ read = AnalysisOf(source) /\ indexed = read.meta /\ took = NoAction /\ accepts = 0

MCInit ==
  /\ Init
  /\ \/ part = "store" /\ EditsRest /\ RenamesRest /\ NsRests
     \/ part = "edits" /\ StoreRests /\ EditInit /\ RenamesRest /\ NsRests
     \/ part = "renames" /\ StoreRests /\ EditsRest /\ RenameInit /\ NsRests
     \/ part = "ns" /\ StoreRests /\ EditsRest /\ RenamesRest /\ EditsInit

MCNext ==
  \/ part = "store" /\ Next /\ UNCHANGED <<textVars, renameVars, editVars, part>>
  \/ part = "edits" /\ EditNext /\ UNCHANGED <<vars, renameVars, editVars, part>>
  \/ part = "renames" /\ RenameNext /\ UNCHANGED <<vars, textVars, editVars, part>>
  \/ part = "ns" /\ EditsNext /\ UNCHANGED <<vars, textVars, renameVars, part>>

MCSpec == MCInit /\ [][MCNext]_<<vars, textVars, renameVars, editVars, part>>

WorkerSymmetry == Permutations(Workers) \cup Permutations(Addrs)
=============================================================================
