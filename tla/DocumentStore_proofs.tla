------------------------ MODULE DocumentStore_proofs ------------------------
(***************************************************************************)
(* The document store: proofs of the invariants of DocumentStore, the      *)
(* analysis cache is transparent for any number of documents, workers,     *)
(* texts, configs and config addresses; and of TextEdits, the rope and the *)
(* editor's copy of a text stay in step, and tree-sitter is told exactly   *)
(* what a change did, for texts of any length over any characters,         *)
(* whatever a character measures.                                          *)
(***************************************************************************)
EXTENDS DocumentStore, TextEdits, TLAPS, WellFoundedInduction, NaturalsInduction

(***************************************************************************)
(* None of the three properties is inductive. What is missing is what ties *)
(* a worker that holds no lock to the document it asks about: its revision *)
(* was drawn before any later one, so that an equal revision still means   *)
(* an equal text; its config is held, so that its address keeps its        *)
(* content; and what it has computed but not stored yet is right.          *)
(***************************************************************************)
SnapshotsAreOld == \A w \in Workers : snap[w].rev < nextRev

SameRevSameText ==
  \A w \in Workers : wpc[w] # "idle" /\ snap[w].rev = rev[wdoc[w]] /\ snap[w].rev # 0
    => snap[w].text = rope[wdoc[w]]

WorkersHold ==
  \A w \in Workers :
    /\ wpc[w] # "idle" => wdoc[w] \in Docs
    /\ wpc[w] \in {"lookup", "compute", "store", "answered"} => wcfg[w] \in Addrs

ResultsAreRight ==
  \A w \in Workers : wpc[w] \in {"store", "answered"} =>
    result[w] = Analyze(snap[w].tree, snap[w].text, content[wcfg[w]])

IInv ==
  /\ TypeOK
  /\ SnapshotsAreOld
  /\ TreeMatchesText
  /\ SameRevSameText
  /\ SlotIsOfThisRevision
  /\ WorkersHold
  /\ ResultsAreRight

-----------------------------------------------------------------------------
\* An analysis has the type of its parts.
LEMMA AnalyzeType ==
  ASSUME NEW t \in TextOrNone, NEW txt \in TextOrNone, NEW c \in Configs \cup {None}
  PROVE  Analyze(t, txt, c) \in Analyses
BY DEF Analyze, Analyses

LEMMA EmptyType ==
  /\ Empty \in [rev : Nat, cfg : Addrs \cup {None}, analysis : Analyses]
  /\ NoAnalysis \in Analyses
  /\ NoSnapshot \in [text : TextOrNone, tree : TextOrNone, rev : Nat]
BY DEF Empty, NoAnalysis, NoSnapshot, Analyze, Analyses, TextOrNone

\* The initial states satisfy the inductive invariant.
LEMMA InitIInv == Init => IInv
<1> SUFFICES ASSUME Init PROVE IInv
  OBVIOUS
<1>1. TypeOK
  BY EmptyType DEF Init, TypeOK, TextOrNone
<1>2. SnapshotsAreOld
  BY DEF Init, SnapshotsAreOld, NoSnapshot
<1>3. TreeMatchesText
  BY DEF Init, TreeMatchesText, NoSnapshot
<1>4. SameRevSameText /\ SlotIsOfThisRevision /\ WorkersHold /\ ResultsAreRight
  BY DEF Init, SameRevSameText, SlotIsOfThisRevision, WorkersHold, ResultsAreRight
<1> QED
  BY <1>1, <1>2, <1>3, <1>4 DEF IInv

-----------------------------------------------------------------------------
(***************************************************************************)
(* open and apply_changes do the same to everything but the tree: they put *)
(* a text at a fresh revision and empty the slot.                          *)
(***************************************************************************)
LEMMA NewTextIInv ==
  ASSUME IInv, NEW d \in Docs, NEW txt \in Texts, NEW t \in {txt, None},
         rope' = [rope EXCEPT ![d] = txt],
         tree' = [tree EXCEPT ![d] = t],
         rev' = [rev EXCEPT ![d] = nextRev],
         slot' = [slot EXCEPT ![d] = Empty],
         nextRev' = nextRev + 1,
         UNCHANGED <<configVars, workerVars>>
  PROVE  IInv'
<1> USE DEF IInv, TypeOK, configVars, workerVars
<1>1. TypeOK'
  <2>1. slot' \in [Docs -> [rev : Nat, cfg : Addrs \cup {None}, analysis : Analyses]]
    BY EmptyType
  <2>2. /\ rope' \in [Docs -> TextOrNone] /\ tree' \in [Docs -> TextOrNone]
    BY DEF TextOrNone
  <2>3. /\ rev' \in [Docs -> Nat] /\ nextRev' \in Nat \ {0}
        /\ \A e \in Docs : rev'[e] < nextRev'
    OBVIOUS
  <2> QED
    BY <2>1, <2>2, <2>3
<1>2. SnapshotsAreOld'
  BY DEF SnapshotsAreOld
<1>3. TreeMatchesText'
  BY DEF TreeMatchesText
<1>4. SameRevSameText'
  \* The fresh revision is no worker's.
  BY DEF SameRevSameText, SnapshotsAreOld, WorkersHold
<1>5. SlotIsOfThisRevision'
  BY DEF SlotIsOfThisRevision, IsOpen
<1>6. WorkersHold' /\ ResultsAreRight'
  BY DEF WorkersHold, ResultsAreRight
<1> QED
  BY <1>1, <1>2, <1>3, <1>4, <1>5, <1>6

\* A closed document has no revision, so no worker is at its revision.
LEMMA CloseIInv ==
  ASSUME IInv, NEW d \in Docs, Close(d)
  PROVE  IInv'
<1> USE DEF IInv, TypeOK, Close, configVars, workerVars
<1>1. TypeOK'
  <2>1. slot' \in [Docs -> [rev : Nat, cfg : Addrs \cup {None}, analysis : Analyses]]
    BY EmptyType
  <2> QED
    BY <2>1 DEF TextOrNone
<1>2. SnapshotsAreOld' /\ TreeMatchesText'
  BY DEF SnapshotsAreOld, TreeMatchesText
<1>3. SameRevSameText'
  BY DEF SameRevSameText, WorkersHold
<1>4. SlotIsOfThisRevision'
  BY DEF SlotIsOfThisRevision, IsOpen
<1>5. WorkersHold' /\ ResultsAreRight'
  BY DEF WorkersHold, ResultsAreRight
<1> QED
  BY <1>1, <1>2, <1>3, <1>4, <1>5

\* A new config goes to an address that no cached entry and no worker holds, so
\* what they hold keeps its content.
LEMMA SetExtractConfigIInv ==
  ASSUME IInv, NEW a \in Addrs, NEW cfg \in Configs, SetExtractConfig(a, cfg)
  PROVE  IInv'
<1> USE DEF IInv, SetExtractConfig, docVars, workerVars
<1>1. TypeOK'
  BY DEF TypeOK
<1>2. SnapshotsAreOld' /\ TreeMatchesText' /\ SameRevSameText' /\ WorkersHold'
  BY DEF SnapshotsAreOld, TreeMatchesText, SameRevSameText, WorkersHold
<1>3. /\ \A w \in Workers : content'[wcfg[w]] = content[wcfg[w]]
      /\ \A d \in Docs : content'[slot[d].cfg] = content[slot[d].cfg]
  BY DEF Held, TypeOK
<1>4. SlotIsOfThisRevision'
  BY <1>3 DEF SlotIsOfThisRevision, IsOpen
<1>5. ResultsAreRight'
  BY <1>3 DEF ResultsAreRight
<1> QED
  BY <1>1, <1>2, <1>4, <1>5

-----------------------------------------------------------------------------
(***************************************************************************)
(* The steps of a worker. All but Store leave the documents' revisions and *)
(* slots alone; what there is to show is about that worker.                *)
(***************************************************************************)
LEMMA TakeSnapshotIInv ==
  ASSUME IInv, NEW w \in Workers, NEW d \in Docs, TakeSnapshot(w, d)
  PROVE  IInv'
<1> USE DEF IInv, TakeSnapshot, configVars
<1> DEFINE t == IF tree[d] = None THEN rope[d] ELSE tree[d]
<1>1. t = rope[d] /\ t \in TextOrNone
  BY DEF TreeMatchesText, TypeOK
<1>2. TypeOK'
  BY <1>1 DEF TypeOK
<1>3. SnapshotsAreOld'
  BY DEF SnapshotsAreOld, TypeOK
<1>4. TreeMatchesText'
  BY <1>1 DEF TreeMatchesText, TypeOK
<1>5. SameRevSameText'
  BY DEF SameRevSameText, TypeOK
<1>6. SlotIsOfThisRevision'
  BY DEF SlotIsOfThisRevision, IsOpen
<1>7. WorkersHold' /\ ResultsAreRight'
  BY DEF WorkersHold, ResultsAreRight, TypeOK
<1> QED
  BY <1>2, <1>3, <1>4, <1>5, <1>6, <1>7

LEMMA ReadConfigIInv ==
  ASSUME IInv, NEW w \in Workers, ReadConfig(w)
  PROVE  IInv'
<1> USE DEF IInv, ReadConfig, configVars, docVars
<1>1. TypeOK'
  BY DEF TypeOK
<1>2. SnapshotsAreOld' /\ TreeMatchesText' /\ SameRevSameText' /\ SlotIsOfThisRevision'
  BY DEF SnapshotsAreOld, TreeMatchesText, SameRevSameText, SlotIsOfThisRevision, IsOpen, TypeOK
<1>3. WorkersHold' /\ ResultsAreRight'
  BY DEF WorkersHold, ResultsAreRight, TypeOK
<1> QED
  BY <1>1, <1>2, <1>3

LEMMA LookupIInv ==
  ASSUME IInv, NEW w \in Workers, Lookup(w)
  PROVE  IInv'
<1> USE DEF IInv, Lookup, configVars, docVars
<1>1. TypeOK'
  BY DEF TypeOK, WorkersHold
<1>2. SnapshotsAreOld' /\ TreeMatchesText' /\ SameRevSameText' /\ SlotIsOfThisRevision'
  BY DEF SnapshotsAreOld, TreeMatchesText, SameRevSameText, SlotIsOfThisRevision, IsOpen, TypeOK
<1>3. WorkersHold'
  BY DEF WorkersHold, TypeOK
<1>4. ResultsAreRight'
  \* A hit is of the snapshot's revision, hence of its text.
  <2> DEFINE d == wdoc[w]
  <2>1. CASE ~SlotAnswers(w)
    BY <2>1 DEF ResultsAreRight, TypeOK
  <2>2. CASE SlotAnswers(w)
    <3>1. d \in Docs /\ slot[d] # Empty /\ slot[d].rev = snap[w].rev /\ slot[d].cfg = wcfg[w]
      BY <2>2 DEF SlotAnswers, WorkersHold
    <3>2. /\ snap[w].rev = rev[d] /\ snap[w].rev # 0
          /\ slot[d].analysis = Analyze(rope[d], rope[d], content[wcfg[w]])
      BY <3>1 DEF SlotIsOfThisRevision, IsOpen
    <3>3. snap[w].text = rope[d] /\ snap[w].tree = rope[d]
      BY <3>2 DEF SameRevSameText, TreeMatchesText
    <3>4. result' = [result EXCEPT ![w] = Analyze(snap[w].tree, snap[w].text, content[wcfg[w]])]
      BY <2>2, <3>2, <3>3
    <3> QED
      BY <3>4 DEF ResultsAreRight, TypeOK
  <2> QED
    BY <2>1, <2>2
<1> QED
  BY <1>1, <1>2, <1>3, <1>4

LEMMA ComputeIInv ==
  ASSUME IInv, NEW w \in Workers, Compute(w)
  PROVE  IInv'
<1> USE DEF IInv, Compute, configVars, docVars
<1>1. Analyze(snap[w].tree, snap[w].text, content[wcfg[w]]) \in Analyses
  BY AnalyzeType DEF TypeOK, WorkersHold
<1>2. TypeOK'
  BY <1>1 DEF TypeOK
<1>3. SnapshotsAreOld' /\ TreeMatchesText' /\ SameRevSameText' /\ SlotIsOfThisRevision'
  BY DEF SnapshotsAreOld, TreeMatchesText, SameRevSameText, SlotIsOfThisRevision, IsOpen, TypeOK
<1>4. WorkersHold' /\ ResultsAreRight'
  BY DEF WorkersHold, ResultsAreRight, TypeOK
<1> QED
  BY <1>2, <1>3, <1>4

LEMMA StoreIInv ==
  ASSUME IInv, NEW w \in Workers, Store(w)
  PROVE  IInv'
<1> USE DEF IInv, Store, configVars
<1> DEFINE d     == wdoc[w]
           entry == [rev |-> snap[w].rev, cfg |-> wcfg[w], analysis |-> result[w]]
<1>1. d \in Docs /\ wcfg[w] \in Addrs
  BY DEF WorkersHold
<1>2. entry \in [rev : Nat, cfg : Addrs \cup {None}, analysis : Analyses]
  BY <1>1 DEF TypeOK
<1>3. TypeOK'
  BY <1>1, <1>2 DEF TypeOK
<1>4. SnapshotsAreOld' /\ TreeMatchesText' /\ SameRevSameText'
  BY DEF SnapshotsAreOld, TreeMatchesText, SameRevSameText, TypeOK
<1>5. SlotIsOfThisRevision'
  <2>1. CASE ~(snap[w].rev # 0 /\ rev[d] = snap[w].rev)
    BY <2>1 DEF SlotIsOfThisRevision, IsOpen
  <2>2. CASE snap[w].rev # 0 /\ rev[d] = snap[w].rev
    <3>1. snap[w].text = rope[d] /\ snap[w].tree = rope[d]
      BY <2>2, <1>1 DEF SameRevSameText, TreeMatchesText
    <3>2. entry.analysis = Analyze(rope[d], rope[d], content[entry.cfg])
      BY <3>1 DEF ResultsAreRight
    <3>3. slot' = [slot EXCEPT ![d] = entry]
      BY <2>2
    <3> QED
      BY <3>2, <3>3, <2>2, <1>1 DEF SlotIsOfThisRevision, IsOpen, TypeOK
  <2> QED
    BY <2>1, <2>2
<1>6. WorkersHold' /\ ResultsAreRight'
  BY DEF WorkersHold, ResultsAreRight, TypeOK
<1> QED
  BY <1>3, <1>4, <1>5, <1>6

LEMMA FinishIInv ==
  ASSUME IInv, NEW w \in Workers, Finish(w)
  PROVE  IInv'
<1> USE DEF IInv, Finish, configVars, docVars
<1>1. TypeOK'
  BY EmptyType DEF TypeOK
<1>2. SnapshotsAreOld' /\ TreeMatchesText'
  BY DEF SnapshotsAreOld, TreeMatchesText, TypeOK, NoSnapshot
<1>3. SameRevSameText' /\ SlotIsOfThisRevision'
  BY DEF SameRevSameText, SlotIsOfThisRevision, IsOpen, TypeOK
<1>4. WorkersHold' /\ ResultsAreRight'
  BY DEF WorkersHold, ResultsAreRight, TypeOK
<1> QED
  BY <1>1, <1>2, <1>3, <1>4

-----------------------------------------------------------------------------
\* Every step preserves the inductive invariant.
LEMMA StepIInv == IInv /\ [Next]_vars => IInv'
<1> SUFFICES ASSUME IInv, [Next]_vars PROVE IInv'
  OBVIOUS
<1>1. ASSUME NEW d \in Docs, NEW txt \in Texts, Open(d, txt) PROVE IInv'
  BY <1>1, NewTextIInv DEF Open
<1>2. ASSUME NEW d \in Docs, NEW txt \in Texts, NEW ok \in BOOLEAN, ApplyChanges(d, txt, ok)
      PROVE IInv'
  <2>1. (IF ok THEN txt ELSE None) \in {txt, None}
    OBVIOUS
  <2> QED
    BY <1>2, <2>1, NewTextIInv DEF ApplyChanges
<1>3. ASSUME NEW d \in Docs, Close(d) PROVE IInv'
  BY <1>3, CloseIInv
<1>4. ASSUME NEW a \in Addrs, NEW cfg \in Configs, SetExtractConfig(a, cfg) PROVE IInv'
  BY <1>4, SetExtractConfigIInv
<1>5. ASSUME NEW w \in Workers, WorkerStep(w) PROVE IInv'
  BY <1>5, TakeSnapshotIInv, ReadConfigIInv, LookupIInv, ComputeIInv, StoreIInv, FinishIInv
     DEF WorkerStep
<1>6. CASE UNCHANGED vars
  BY <1>6 DEF vars, docVars, configVars, workerVars, IInv, TypeOK, SnapshotsAreOld,
              TreeMatchesText, SameRevSameText, SlotIsOfThisRevision, WorkersHold,
              ResultsAreRight, IsOpen
<1> QED
  BY <1>1, <1>2, <1>3, <1>4, <1>5, <1>6 DEF Next, HandlerStep

\* The inductive invariant holds in every reachable state.
LEMMA AlwaysIInv == Spec => []IInv
  BY InitIInv, StepIInv, PTL DEF Spec

\* Every variable keeps its type, and no revision is ever drawn twice.
THEOREM TypeCorrect == Spec => []TypeOK
<1>1. IInv => TypeOK
  BY DEF IInv
<1> QED
  BY <1>1, AlwaysIInv, PTL

\* No interleaving of edits, failed batches and snapshots pairs a tree with a
\* text it was not parsed from.
THEOREM TreesMatchTexts == Spec => []TreeMatchesText
<1>1. IInv => TreeMatchesText
  BY DEF IInv
<1> QED
  BY <1>1, AlwaysIInv, PTL

\* The doc comment of DocumentStore::analysis: "the slot never holds anything
\* but its own revision", however late a store comes.
THEOREM SlotsAreCurrent == Spec => []SlotIsOfThisRevision
<1>1. IInv => SlotIsOfThisRevision
  BY DEF IInv
<1> QED
  BY <1>1, AlwaysIInv, PTL

\* The cache is transparent: "the analysis of exactly `snapshot`", whichever
\* worker computed it and whatever config now lives where an old one did.
THEOREM AnswersAreExact == Spec => []AnswerIsOfThisSnapshot
<1>1. IInv => AnswerIsOfThisSnapshot
  BY DEF IInv, ResultsAreRight, AnswerIsOfThisSnapshot
<1> QED
  BY <1>1, AlwaysIInv, PTL

-----------------------------------------------------------------------------
(* TextEdits: measures of a prefix of a text, and what a change makes of    *)
(* them.                                                                     *)

\* Every non-empty set of numbers has a least element.
LEMMA LeastNat ==
  ASSUME NEW T, T \subseteq Nat, T # {}
  PROVE  \E x \in T : \A y \in T : ~(y < x)
<1>1. IsWellFoundedOn(OpToRel(<,Nat), Nat)
  BY NatLessThanWellFounded
<1>2. \E x \in T : \A y \in T : ~ (<<y, x>> \in OpToRel(<,Nat))
  BY <1>1, WFMin
<1> QED BY <1>2 DEF OpToRel

\* The least and the greatest of some offsets are among them.
LEMMA MinIs ==
  ASSUME NEW T, T \subseteq Nat, T # {}
  PROVE  Min(T) \in T /\ \A y \in T : Min(T) <= y
<1>1. PICK x \in T : \A y \in T : ~(y < x)
  BY LeastNat
<1>2. \A y \in T : x =< y
  BY <1>1
<1> QED BY <1>1, <1>2 DEF Min

LEMMA MaxIs ==
  ASSUME NEW n \in Nat, NEW T, T \subseteq 0..n, T # {}
  PROVE  Max(T) \in T /\ \A y \in T : y <= Max(T)
<1> DEFINE D == {d \in 0..n : n - d \in T}
<1>1. D \subseteq Nat /\ D # {}
  <2>1. PICK y \in T : TRUE
    OBVIOUS
  <2>2. y \in 0..n
    BY <2>1
  <2>3. n - y \in 0..n /\ n - (n - y) = y
    BY <2>2
  <2>4. n - (n - y) \in T
    BY <2>1, <2>3
  <2>5. n - y \in D
    BY <2>3, <2>4
  <2>6. D \subseteq Nat
    OBVIOUS
  <2> HIDE DEF D
  <2> QED BY <2>5, <2>6
<1>2. PICK d \in D : \A c \in D : ~(c < d)
  <2> HIDE DEF D
  <2> QED BY <1>1, LeastNat
<1>3. n - d \in T /\ d \in 0..n
  BY <1>2
<1>4. \A y \in T : n - d >= y
  <2> TAKE y \in T
  <2>1. y \in T /\ y \in 0..n
    OBVIOUS
  <2>2. n - y \in 0..n /\ n - (n - y) = y
    BY <2>1
  <2>3. n - (n - y) \in T
    BY <2>1, <2>2
  <2>4. n - y \in D
    BY <2>2, <2>3
  <2>5. ~(n - y < d)
    <3> HIDE DEF D
    <3> QED BY <1>2, <2>4
  <2> QED BY <1>3, <2>1, <2>5
<1> QED BY <1>3, <1>4 DEF Max

-----------------------------------------------------------------------------
(* Sums. *)

\* s is the function Sums chooses, as far as k.
IsSums(s, t, M, k) ==
  s = [i \in 0..k |-> IF i = 0 THEN 0 ELSE s[i - 1] + M[t[i]]]

LEMMA SumsGrow ==
  ASSUME NEW t, NEW M, NEW k \in Nat, NEW s, IsSums(s, t, M, k)
  PROVE  \E u : IsSums(u, t, M, k + 1)
<1> DEFINE u == [i \in 0..(k+1) |-> IF i = k + 1 THEN s[k] + M[t[k+1]] ELSE s[i]]
<1>1. \A i \in 0..(k+1) : i # 0 => u[i-1] = s[i-1]
  OBVIOUS
<1>2. \A i \in 0..k : s[i] = IF i = 0 THEN 0 ELSE s[i-1] + M[t[i]]
  BY DEF IsSums
<1>3. \A i \in 0..(k+1) : u[i] = IF i = 0 THEN 0 ELSE u[i-1] + M[t[i]]
  <2> TAKE i \in 0..(k+1)
  <2>1. CASE i = 0 BY <1>2, <2>1
  <2>2. CASE i = k + 1 BY <1>1, <2>2
  <2>3. CASE i \in 1..k BY <1>1, <1>2, <2>3
  <2> QED BY <2>1, <2>2, <2>3
<1>4. IsSums(u, t, M, k+1)
  <2> HIDE <1>2
  <2> QED BY <1>3 DEF IsSums
<1> QED BY <1>4

LEMMA SumsExist ==
  ASSUME NEW t, NEW M, NEW k \in Nat
  PROVE  \E s : IsSums(s, t, M, k)
<1> DEFINE T == {j \in Nat : ~\E s : IsSums(s, t, M, j)}
<1>1. SUFFICES ASSUME T # {} PROVE FALSE
  OBVIOUS
<1>2. PICK j \in T : \A i \in T : ~(i < j)
  <2> HIDE DEF T
  <2> QED BY <1>1, LeastNat DEF T
<1>3. IsSums([i \in 0..0 |-> 0], t, M, 0)
  BY DEF IsSums
<1>4. j # 0 BY <1>3
<1>5. j - 1 \in Nat /\ j - 1 \notin T BY <1>2, <1>4
<1>6. PICK s : IsSums(s, t, M, j - 1) BY <1>5
<1>7. \E u : IsSums(u, t, M, (j - 1) + 1) BY <1>5, <1>6, SumsGrow
<1> QED BY <1>7

\* Sums starts at nothing, and every character adds what it measures.
LEMMA SumsAre ==
  ASSUME NEW t \in Seq(Chars), NEW M \in [Chars -> Nat]
  PROVE  /\ \A i \in 0..Len(t) : Sums(t, M)[i] \in Nat
         /\ Sums(t, M)[0] = 0
         /\ \A i \in 1..Len(t) : Sums(t, M)[i] = Sums(t, M)[i - 1] + M[t[i]]
<1> DEFINE s == Sums(t, M)
<1>1. Len(t) \in Nat
  OBVIOUS
<1>2. s = CHOOSE u : IsSums(u, t, M, Len(t))
  BY DEF Sums, IsSums
<1>3. IsSums(s, t, M, Len(t))
  <2>1. \E u : IsSums(u, t, M, Len(t))
    BY <1>1, SumsExist
  <2> HIDE DEF s
  <2> QED BY <1>2, <2>1
<1>4. \A i \in 0..Len(t) : s[i] = IF i = 0 THEN 0 ELSE s[i-1] + M[t[i]]
  <2> HIDE DEF s
  <2> QED BY <1>3 DEF IsSums
<1>5. \A i \in 1..Len(t) : t[i] \in Chars /\ M[t[i]] \in Nat
  OBVIOUS
<1> HIDE DEF s
<1>6. \A i \in 0..Len(t) : s[i] \in Nat
  <2> DEFINE T == {i \in 0..Len(t) : s[i] \notin Nat}
  <2>1. SUFFICES ASSUME T # {} PROVE FALSE
    OBVIOUS
  <2>2. PICK i \in T : \A k \in T : ~(k < i)
    <3>1. T \subseteq Nat
      BY <1>1
    <3> HIDE DEF T
    <3> QED BY <3>1, <2>1, LeastNat
  <2>3. i # 0
    BY <1>1, <1>4, <2>2
  <2>4. i - 1 \in 0..Len(t) /\ i - 1 \notin T /\ i \in 1..Len(t)
    BY <1>1, <2>2, <2>3
  <2>5. s[i] = s[i-1] + M[t[i]]
    BY <1>4, <2>3, <2>4
  <2> QED BY <1>5, <2>2, <2>4, <2>5
<1>7. s[0] = 0 /\ \A i \in 1..Len(t) : s[i] = s[i-1] + M[t[i]]
  BY <1>1, <1>4
<1> QED BY <1>6, <1>7 DEF s

\* The n characters from offset a of t are those from offset b of u, and they
\* measure the same all along.
Common(t, a, u, b, n) ==
  a + n <= Len(t) /\ b + n <= Len(u) /\ \A k \in 1..n : t[a + k] = u[b + k]
SumsAgree(t, a, u, b, n, M) ==
  \A k \in 0..n : Sums(t, M)[a + k] - Sums(t, M)[a] = Sums(u, M)[b + k] - Sums(u, M)[b]

\* Two texts with a piece in common measure the same along it.
LEMMA Aligned ==
  ASSUME NEW t \in Seq(Chars), NEW u \in Seq(Chars), NEW M \in [Chars -> Nat],
         NEW a \in Nat, NEW b \in Nat, NEW n \in Nat, Common(t, a, u, b, n)
  PROVE  SumsAgree(t, a, u, b, n, M)
<1> USE DEF Common, SumsAgree
<1> DEFINE T == {k \in 0..n : Sums(t, M)[a + k] - Sums(t, M)[a] # Sums(u, M)[b + k] - Sums(u, M)[b]}
<1>1. SUFFICES ASSUME T # {} PROVE FALSE
  OBVIOUS
<1>2. PICK k \in T : \A j \in T : ~(j < k)
  <2>1. T \subseteq Nat
    OBVIOUS
  <2> HIDE DEF T
  <2> QED BY <2>1, <1>1, LeastNat
<1>3. PICK S : S = Sums(t, M)
  OBVIOUS
<1>4. PICK U : U = Sums(u, M)
  OBVIOUS
<1>5. /\ \A i \in 0..Len(t) : S[i] \in Nat
      /\ \A i \in 1..Len(t) : S[i] = S[i - 1] + M[t[i]]
  BY SumsAre, <1>3
<1>6. /\ \A i \in 0..Len(u) : U[i] \in Nat
      /\ \A i \in 1..Len(u) : U[i] = U[i - 1] + M[u[i]]
  BY SumsAre, <1>4
<1>7. k # 0
  <2>1. CASE k = 0
    <3>1. S[a] \in Nat /\ U[b] \in Nat
      BY <1>5, <1>6
    <3> QED BY <1>2, <1>3, <1>4, <2>1, <3>1
  <2> QED BY <2>1
<1>8. k - 1 \in 0..n /\ k \in 1..n /\ k - 1 \notin T
  <2>1. k \in 0..n
    BY <1>2
  <2>2. k - 1 < k /\ k - 1 \in 0..n /\ k \in 1..n
    BY <1>7, <2>1
  <2> HIDE DEF T
  <2> QED BY <1>2, <2>2
<1>9. S[a + (k - 1)] - S[a] = U[b + (k - 1)] - U[b]
  BY <1>3, <1>4, <1>8
<1>10. /\ S[a + k] = S[a + (k - 1)] + M[t[a + k]] /\ S[a + (k - 1)] \in Nat /\ S[a] \in Nat
       /\ U[b + k] = U[b + (k - 1)] + M[u[b + k]] /\ U[b + (k - 1)] \in Nat /\ U[b] \in Nat
       /\ t[a + k] = u[b + k] /\ M[t[a + k]] \in Nat
  <2>1. (a + k) - 1 = a + (k - 1) /\ (b + k) - 1 = b + (k - 1)
    BY <1>8
  <2>2. a + k \in 1..Len(t) /\ b + k \in 1..Len(u) /\ a + (k - 1) \in 0..Len(t) /\ b + (k - 1) \in 0..Len(u)
    BY <1>8
  <2>3. a \in 0..Len(t) /\ b \in 0..Len(u)
    OBVIOUS
  <2> QED BY <1>5, <1>6, <1>8, <2>1, <2>2, <2>3
<1>11. S[a + k] - S[a] = U[b + k] - U[b]
  <2>1. M[u[b + k]] = M[t[a + k]]
    BY <1>10
  <2>2. ASSUME NEW x0 \in Nat, NEW x1 \in Nat, NEW y0 \in Nat, NEW y1 \in Nat, NEW m \in Nat,
               x1 - x0 = y1 - y0
        PROVE  (x1 + m) - x0 = (y1 + m) - y0
    BY <2>2
  <2>3. PICK x0, x1, y0, y1, m :
          x0 = S[a] /\ x1 = S[a + (k - 1)] /\ y0 = U[b] /\ y1 = U[b + (k - 1)] /\ m = M[t[a + k]]
    OBVIOUS
  <2> HIDE DEF T
  <2>4. /\ x0 \in Nat /\ x1 \in Nat /\ y0 \in Nat /\ y1 \in Nat /\ m \in Nat
        /\ S[a + k] = x1 + m /\ U[b + k] = y1 + m
    BY ONLY <1>10, <2>1, <2>3
  <2>5. x1 - x0 = y1 - y0
    BY ONLY <1>9, <2>3
  <2>6. (x1 + m) - x0 = (y1 + m) - y0
    BY ONLY <2>2, <2>4, <2>5
  <2> QED BY ONLY <2>3, <2>4, <2>6
<1> QED BY <1>2, <1>3, <1>4, <1>11

\* The further into a text, the more it measures.
LEMMA Rising ==
  ASSUME NEW t \in Seq(Chars), NEW M \in [Chars -> Nat],
         NEW j \in 0..Len(t), NEW i \in 0..j
  PROVE  Sums(t, M)[i] <= Sums(t, M)[j]
<1> DEFINE T == {k \in Nat : k <= Len(t) /\ i <= k /\ ~(Sums(t, M)[i] <= Sums(t, M)[k])}
<1>1. SUFFICES ASSUME T # {} PROVE FALSE
  OBVIOUS
<1>2. PICK k \in T : \A l \in T : ~(l < k)
  <2>1. T \subseteq Nat
    OBVIOUS
  <2> HIDE DEF T
  <2> QED BY <2>1, <1>1, LeastNat
<1>3. PICK S : S = Sums(t, M)
  OBVIOUS
<1>4. /\ \A l \in 0..Len(t) : S[l] \in Nat
      /\ \A l \in 1..Len(t) : S[l] = S[l - 1] + M[t[l]]
  BY SumsAre, <1>3
<1>5. k # i
  BY <1>2, <1>3, <1>4
<1>6. k \in 1..Len(t) /\ k - 1 \in 0..Len(t) /\ i <= k - 1 /\ k - 1 \notin T /\ i \in 0..Len(t)
  BY <1>2, <1>5
<1>7. S[i] <= S[k - 1] /\ S[k] = S[k - 1] + M[t[k]] /\ M[t[k]] \in Nat
  BY <1>3, <1>4, <1>6
<1>8. S[i] <= S[k]
  <2>1. S[i] \in Nat /\ S[k - 1] \in Nat
    BY <1>4, <1>6
  <2> QED BY ONLY <1>7, <2>1
<1> QED BY <1>2, <1>3, <1>8

\* It measures more past a character that measures something.
LEMMA RisesPast ==
  ASSUME NEW t \in Seq(Chars), NEW M \in [Chars -> Nat],
         NEW j \in 0..Len(t), NEW i \in 0..j, NEW k \in (i + 1)..j, M[t[k]] > 0
  PROVE  Sums(t, M)[i] < Sums(t, M)[j]
<1>1. k \in 1..Len(t) /\ k - 1 \in 0..Len(t) /\ i \in 0..(k - 1) /\ k \in 0..j
  OBVIOUS
<1>2. Sums(t, M)[i] <= Sums(t, M)[k - 1] /\ Sums(t, M)[k] <= Sums(t, M)[j]
  BY <1>1, Rising
<1>3. Sums(t, M)[k] = Sums(t, M)[k - 1] + M[t[k]] /\ M[t[k]] \in Nat
  BY <1>1, SumsAre
<1>4. \A l \in 0..Len(t) : Sums(t, M)[l] \in Nat
  BY SumsAre
<1> QED BY <1>1, <1>2, <1>3, <1>4

\* It measures the same past characters that measure nothing.
LEMMA Level ==
  ASSUME NEW t \in Seq(Chars), NEW M \in [Chars -> Nat],
         NEW j \in 0..Len(t), NEW i \in 0..j, \A k \in (i + 1)..j : M[t[k]] = 0
  PROVE  Sums(t, M)[i] = Sums(t, M)[j]
<1> DEFINE T == {k \in Nat : k <= j /\ i <= k /\ Sums(t, M)[i] # Sums(t, M)[k]}
<1>1. SUFFICES ASSUME T # {} PROVE FALSE
  OBVIOUS
<1>2. PICK k \in T : \A l \in T : ~(l < k)
  <2>1. T \subseteq Nat
    OBVIOUS
  <2> HIDE DEF T
  <2> QED BY <2>1, <1>1, LeastNat
<1>3. k # i
  BY <1>2
<1>4. k \in 1..Len(t) /\ k - 1 \in 0..Len(t) /\ k - 1 \notin T /\ k \in (i + 1)..j /\ i <= k - 1
  BY <1>2, <1>3
<1>5. Sums(t, M)[k] = Sums(t, M)[k - 1] + M[t[k]] /\ Sums(t, M)[k - 1] \in Nat
  BY <1>4, SumsAre
<1>6. Sums(t, M)[i] = Sums(t, M)[k - 1]
  BY <1>4
<1> QED BY <1>2, <1>4, <1>5, <1>6

-----------------------------------------------------------------------------
(* Pieces of a text. *)

\* What a character measures is a number, and all of them have a width.
LEMMA Measures ==
  /\ Units \in [Chars -> Nat] /\ Bytes \in [Chars -> Nat] /\ Breaks \in [Chars -> Nat]
  /\ \A c \in Chars : Units[c] > 0
  /\ Newline \in Chars /\ Breaks[Newline] = 1
  /\ \A c \in Chars : c # Newline => Breaks[c] = 0
  /\ Newline \notin Ident
BY EditAssumption DEF Breaks

LEMMA PieceIs ==
  ASSUME NEW t \in Seq(Chars), NEW j \in 0..Len(t), NEW i \in 0..j
  PROVE  /\ SubSeq(t, i + 1, j) \in Seq(Chars) /\ Len(SubSeq(t, i + 1, j)) = j - i
         /\ \A k \in 1..(j - i) : SubSeq(t, i + 1, j)[k] = t[i + k]
OBVIOUS

\* All along a piece, it measures what the text does from the offset i.
PieceSums(u, t, i, M) ==
  \A k \in 0..Len(u) : Sums(u, M)[k] = Sums(t, M)[i + k] - Sums(t, M)[i]

\* A piece measures what lies between its ends.
LEMMA PieceMeasures ==
  ASSUME NEW t \in Seq(Chars), NEW j \in 0..Len(t), NEW i \in 0..j, NEW M \in [Chars -> Nat]
  PROVE  /\ PieceSums(SubSeq(t, i + 1, j), t, i, M)
         /\ Total(SubSeq(t, i + 1, j), M) = Sums(t, M)[j] - Sums(t, M)[i]
<1> PICK u : u = SubSeq(t, i + 1, j)
  OBVIOUS
<1>1. u \in Seq(Chars) /\ Len(u) = j - i /\ \A k \in 1..(j - i) : u[k] = t[i + k]
  BY PieceIs
<1>2. \A k \in 0..(j - i) : Sums(t, M)[i + k] - Sums(t, M)[i] = Sums(u, M)[0 + k] - Sums(u, M)[0]
  <2>0. PICK z, n : z = 0 /\ n = j - i
    OBVIOUS
  <2>1. i \in Nat /\ z \in Nat /\ n \in Nat
    BY <2>0
  <2>2. Common(t, i, u, z, n)
    BY <1>1, <2>0 DEF Common
  <2>3. SumsAgree(t, i, u, z, n, M)
    BY <1>1, <2>1, <2>2, Aligned
  <2> QED BY <2>0, <2>3 DEF SumsAgree
<1>3. \A k \in 0..(j - i) : Sums(u, M)[k] = Sums(t, M)[i + k] - Sums(t, M)[i]
  <2> TAKE k \in 0..(j - i)
  <2>1. Sums(u, M)[k] \in Nat /\ Sums(u, M)[0] = 0
    BY <1>1, SumsAre
  <2> QED BY <1>2, <2>1
<1>4. Total(u, M) = Sums(t, M)[j] - Sums(t, M)[i]
  <2>1. j - i \in 0..(j - i) /\ i + (j - i) = j
    OBVIOUS
  <2> QED BY <1>1, <1>3, <2>1 DEF Total
<1> QED BY <1>1, <1>3, <1>4 DEF PieceSums

LEMMA BeforeIs ==
  ASSUME NEW t \in Seq(Chars), NEW i \in 0..Len(t)
  PROVE  /\ Before(t, i) \in Seq(Chars) /\ Len(Before(t, i)) = i
         /\ \A k \in 1..i : Before(t, i)[k] = t[k]
         /\ \A M \in [Chars -> Nat] : Total(Before(t, i), M) = Sums(t, M)[i]
         /\ Newlines(Before(t, i)) = Sums(t, Breaks)[i]
<1>1. 0 \in 0..i /\ i - 0 = i /\ 0 + 1 = 1
  OBVIOUS
<1>2. Before(t, i) \in Seq(Chars) /\ Len(Before(t, i)) = i /\ \A k \in 1..i : Before(t, i)[k] = t[k]
  BY <1>1 DEF Before
<1>3. \A M \in [Chars -> Nat] : Total(Before(t, i), M) = Sums(t, M)[i]
  <2> TAKE M \in [Chars -> Nat]
  <2>1. Total(SubSeq(t, 0 + 1, i), M) = Sums(t, M)[i] - Sums(t, M)[0]
    BY <1>1, PieceMeasures
  <2>2. Sums(t, M)[i] \in Nat /\ Sums(t, M)[0] = 0
    BY SumsAre
  <2> QED BY <1>1, <2>1, <2>2 DEF Before
<1> QED BY <1>2, <1>3, Measures DEF Newlines

-----------------------------------------------------------------------------
(* Lines. *)

\* Where the line of an offset begins, as the editor looks for it.
LineStart(t, i) == Max({k \in 0..i : k = 0 \/ t[k] = Newline})

LEMMA LineStartIs ==
  ASSUME NEW t \in Seq(Chars), NEW i \in 0..Len(t)
  PROVE  /\ LineStart(t, i) \in 0..i
         /\ LineStart(t, i) = 0 \/ t[LineStart(t, i)] = Newline
         /\ \A k \in (LineStart(t, i) + 1)..i : t[k] # Newline
         /\ Sums(t, Breaks)[LineStart(t, i)] = Sums(t, Breaks)[i]
<1> DEFINE T == {k \in 0..i : k = 0 \/ t[k] = Newline}
<1>1. T \subseteq 0..i /\ 0 \in T /\ i \in Nat
  OBVIOUS
<1>2. PICK m : m = LineStart(t, i)
  OBVIOUS
<1>3. m \in T /\ \A y \in T : y <= m
  <2> HIDE DEF T
  <2>1. T # {}
    BY <1>1
  <2>2. Max(T) \in T /\ \A y \in T : y <= Max(T)
    BY <1>1, <2>1, MaxIs
  <2> QED BY <1>2, <2>2 DEF LineStart, T
<1>4. m \in 0..i /\ (m = 0 \/ t[m] = Newline)
  BY <1>3
<1>5. \A k \in (m + 1)..i : t[k] # Newline
  <2> TAKE k \in (m + 1)..i
  <2>1. k \in 0..i /\ ~(k <= m)
    BY <1>4
  <2> QED BY <1>3, <2>1
<1>6. \A k \in (m + 1)..i : Breaks[t[k]] = 0
  <2> TAKE k \in (m + 1)..i
  <2>1. k \in 1..Len(t)
    BY <1>4
  <2>2. t[k] \in Chars
    BY <2>1
  <2> QED BY <1>5, <2>2, Measures
<1>7. Sums(t, Breaks)[m] = Sums(t, Breaks)[i]
  BY <1>4, <1>6, Level, Measures
<1> QED BY <1>2, <1>4, <1>5, <1>7

\* An offset has the start of its line for its own, if no line begins between.
LEMMA LineStartOf ==
  ASSUME NEW t \in Seq(Chars), NEW i \in 0..Len(t), NEW m \in 0..i,
         m = 0 \/ t[m] = Newline, \A k \in (m + 1)..i : t[k] # Newline
  PROVE  LineStart(t, i) = m
<1>1. PICK l : l = LineStart(t, i)
  OBVIOUS
<1>2. l \in 0..i /\ (l = 0 \/ t[l] = Newline) /\ \A k \in (l + 1)..i : t[k] # Newline
  BY LineStartIs, <1>1
<1>3. ~(m < l)
  BY <1>2
<1>4. ~(l < m)
  BY <1>2
<1> QED BY <1>1, <1>2, <1>3, <1>4

\* The rope's line begins where the editor's does.
LEMMA LineToCharIs ==
  ASSUME NEW t \in Seq(Chars), NEW i \in 0..Len(t)
  PROVE  LineToChar(t, Sums(t, Breaks)[i]) = LineStart(t, i)
<1> PICK S : S = Sums(t, Breaks)
  OBVIOUS
<1> PICK m : m = LineStart(t, i)
  OBVIOUS
<1> DEFINE T == {k \in 0..Len(t) : Newlines(Before(t, k)) = S[i]} \cup {Len(t)}
<1>1. m \in 0..i /\ (m = 0 \/ t[m] = Newline) /\ S[m] = S[i]
  BY LineStartIs
<1>2. \A k \in 0..Len(t) : k \in T <=> S[k] = S[i] \/ k = Len(t)
  BY BeforeIs
<1>3. m \in T /\ T \subseteq 0..Len(t) /\ T \subseteq Nat
  <2>1. m \in 0..Len(t) /\ T \subseteq 0..Len(t)
    BY <1>1
  <2> HIDE DEF T
  <2> QED BY <1>1, <1>2, <2>1
<1>4. PICK l : l = LineToChar(t, S[i])
  OBVIOUS
<1>5. l \in T /\ l <= m
  <2> HIDE DEF T
  <2>1. Min(T) \in T /\ \A y \in T : Min(T) <= y
    BY <1>3, MinIs
  <2> QED BY <1>3, <1>4, <2>1 DEF LineToChar, T
<1>6. ~(l < m)
  <2> SUFFICES ASSUME l < m PROVE FALSE
    OBVIOUS
  <2>1. l \in 0..Len(t) /\ l # Len(t)
    <3> HIDE DEF T
    <3> QED BY <1>1, <1>3, <1>5
  <2>2. S[l] = S[i]
    <3> HIDE DEF T
    <3> QED BY <1>2, <1>5, <2>1
  <2>3. t[m] = Newline /\ m \in (l + 1)..m /\ m \in 0..Len(t) /\ l \in 0..m
    BY <1>1, <2>1
  <2>4. Breaks[t[m]] > 0
    BY <2>3, Measures
  <2>5. S[l] < S[m]
    BY <2>3, <2>4, RisesPast, Measures
  <2>6. S[m] \in Nat
    BY <2>3, SumsAre, Measures
  <2> QED BY <1>1, <2>2, <2>5, <2>6
<1>7. l \in Nat
  <2> HIDE DEF T
  <2> QED BY <1>3, <1>5
<1> QED BY <1>1, <1>4, <1>5, <1>6, <1>7

\* The next line begins past the offset, after a line break, or the text ends.
LEMMA NextLineIs ==
  ASSUME NEW t \in Seq(Chars), NEW i \in 0..Len(t)
  PROVE  /\ LineToChar(t, Sums(t, Breaks)[i] + 1) \in i..Len(t)
         /\ LineToChar(t, Sums(t, Breaks)[i] + 1) < Len(t) =>
              /\ i < LineToChar(t, Sums(t, Breaks)[i] + 1)
              /\ t[LineToChar(t, Sums(t, Breaks)[i] + 1)] = Newline
<1> PICK S : S = Sums(t, Breaks)
  OBVIOUS
<1> DEFINE T == {k \in 0..Len(t) : Newlines(Before(t, k)) = S[i] + 1} \cup {Len(t)}
<1>1. \A k \in 0..Len(t) : k \in T <=> S[k] = S[i] + 1 \/ k = Len(t)
  BY BeforeIs
<1>2. T \subseteq 0..Len(t) /\ T \subseteq Nat /\ Len(t) \in T
  OBVIOUS
<1>3. PICK l : l = LineToChar(t, S[i] + 1)
  OBVIOUS
<1>4. l \in T /\ (\A y \in T : l <= y) /\ l \in 0..Len(t)
  <2> HIDE DEF T
  <2>1. Min(T) \in T /\ \A y \in T : Min(T) <= y
    BY <1>2, MinIs
  <2> QED BY <1>2, <1>3, <2>1 DEF LineToChar, T
<1> HIDE DEF T
<1>5. (\A k \in 0..Len(t) : S[k] \in Nat) /\ \A k \in 1..Len(t) : S[k] = S[k - 1] + Breaks[t[k]]
  BY SumsAre, Measures
<1>6. CASE l = Len(t)
  BY <1>3, <1>6
<1>7. CASE l < Len(t)
  <2>1. S[l] = S[i] + 1
    BY <1>1, <1>4, <1>7
  <2>2. ~(l <= i)
    <3> SUFFICES ASSUME l <= i PROVE FALSE
      OBVIOUS
    <3>1. S[l] <= S[i]
      BY Rising, Measures, <1>4
    <3> QED BY <1>5, <2>1, <3>1
  <2>3. i < l /\ l - 1 \in 0..Len(t) /\ l \in 1..Len(t) /\ i \in 0..(l - 1) /\ l - 1 # Len(t)
    BY <1>4, <2>2
  <2>4. S[i] <= S[l - 1]
    BY <2>3, Rising, Measures
  <2>5. S[l - 1] # S[i] + 1
    <3>1. l - 1 \notin T
      BY <1>4, <2>3
    <3> QED BY <1>1, <2>3, <3>1
  <2>6. t[l] = Newline
    <3> SUFFICES ASSUME t[l] # Newline PROVE FALSE
      OBVIOUS
    <3>1. t[l] \in Chars
      BY <2>3
    <3>2. Breaks[t[l]] = 0
      BY <3>1, Measures
    <3>3. S[l] = S[l - 1]
      BY <1>5, <2>3, <3>2
    <3> QED BY <2>1, <2>5, <3>3
  <2> QED BY <1>3, <1>4, <2>3, <2>6
<1> QED BY <1>4, <1>6, <1>7

-----------------------------------------------------------------------------
(* Positions. *)

LEMMA EditorPositionIs ==
  ASSUME NEW t \in Seq(Chars), NEW i \in 0..Len(t)
  PROVE  EditorPosition(t, i) =
           [line      |-> Sums(t, Breaks)[i],
            character |-> Sums(t, Units)[i] - Sums(t, Units)[LineStart(t, i)]]
<1> PICK m : m = LineStart(t, i)
  OBVIOUS
<1>1. m \in 0..i
  BY LineStartIs
<1>2. Total(SubSeq(t, m + 1, i), Units) = Sums(t, Units)[i] - Sums(t, Units)[m]
  BY <1>1, PieceMeasures, Measures
<1>3. Newlines(Before(t, i)) = Sums(t, Breaks)[i]
  BY BeforeIs
<1> QED BY <1>2, <1>3 DEF EditorPosition, LineStart

\* L is the line of the offset i of t, and begins at m: it holds the offset, ends
\* with a line break or the text, and measures what the text does there.
LineHolds(L, t, m, i) ==
  /\ L \in Seq(Chars) /\ Len(L) \in Nat /\ m \in 0..i /\ i - m \in 0..Len(L)
  /\ m + Len(L) \in i..Len(t)
  /\ m + Len(L) < Len(t) => i < m + Len(L) /\ t[m + Len(L)] = Newline
  /\ \A k \in 1..Len(L) : L[k] = t[m + k]
  /\ PieceSums(L, t, m, Units)

\* The line of an offset, as the rope has it.
LEMMA LineIs ==
  ASSUME NEW t \in Seq(Chars), NEW i \in 0..Len(t), NEW L, L = Line(t, Sums(t, Breaks)[i]),
         NEW m, m = LineStart(t, i)
  PROVE  LineHolds(L, t, m, i)
<1> PICK l : l = LineToChar(t, Sums(t, Breaks)[i] + 1)
  OBVIOUS
<1>1. m \in 0..i
  BY LineStartIs
<1>2. l \in i..Len(t) /\ (l < Len(t) => i < l /\ t[l] = Newline)
  BY NextLineIs
<1>3. l \in 0..Len(t) /\ m \in 0..l
  BY <1>1, <1>2
<1>4. L = SubSeq(t, m + 1, l)
  BY LineToCharIs DEF Line
<1>5. L \in Seq(Chars) /\ Len(L) = l - m /\ \A k \in 1..(l - m) : L[k] = t[m + k]
  BY <1>3, <1>4, PieceIs
<1>6. PieceSums(L, t, m, Units)
  BY <1>3, <1>4, PieceMeasures, Measures
<1>7. m + Len(L) = l /\ i - m \in 0..Len(L)
  BY <1>1, <1>2, <1>5
<1> QED BY <1>1, <1>2, <1>5, <1>6, <1>7 DEF LineHolds

\* The column of an offset, in UTF-16 units, leads back to it.
LEMMA ColumnComesBack ==
  ASSUME NEW t \in Seq(Chars), NEW i \in 0..Len(t), NEW L, L = Line(t, Sums(t, Breaks)[i]),
         NEW m, m = LineStart(t, i), NEW col, col = Sums(t, Units)[i] - Sums(t, Units)[m]
  PROVE  Utf16ColToChar(L, col) = i - m
<1>1. /\ L \in Seq(Chars) /\ Len(L) \in Nat /\ m \in 0..i /\ i - m \in 0..Len(L)
      /\ \A k \in 0..Len(L) : Sums(L, Units)[k] = Sums(t, Units)[m + k] - Sums(t, Units)[m]
  <2>1. LineHolds(L, t, m, i)
    BY LineIs
  <2> QED BY <2>1 DEF LineHolds, PieceSums
<1> PICK S : S = Sums(L, Units)
  OBVIOUS
<1> DEFINE T == {k \in 0..Len(L) : Total(Before(L, k), Units) >= col} \cup {Len(L)}
<1>2. \A k \in 0..Len(L) : k \in T <=> S[k] >= col \/ k = Len(L)
  BY <1>1, BeforeIs, Measures
<1>3. S[i - m] = col
  <2>1. m + (i - m) = i
    BY <1>1
  <2> QED BY <1>1, <2>1
<1>4. \A k \in 0..Len(L) : S[k] \in Nat
  BY <1>1, SumsAre, Measures
<1>5. i - m \in T /\ T \subseteq Nat
  <2>1. T \subseteq 0..Len(L)
    BY <1>1
  <2> HIDE DEF T
  <2> QED BY <1>1, <1>2, <1>3, <1>4, <2>1
<1> PICK l : l = Utf16ColToChar(L, col)
  OBVIOUS
<1>6. l \in T /\ l <= i - m /\ l \in Nat
  <2> HIDE DEF T
  <2>1. Min(T) \in T /\ \A y \in T : Min(T) <= y
    BY <1>5, MinIs
  <2> QED BY <1>5, <2>1 DEF Utf16ColToChar, T
<1> HIDE DEF T
<1>7. ~(l < i - m)
  <2> SUFFICES ASSUME l < i - m PROVE FALSE
    OBVIOUS
  <2>1. l \in 0..Len(L) /\ l # Len(L)
    BY <1>1, <1>6
  <2>2. S[l] >= col
    BY <1>2, <1>6, <2>1
  <2> PICK j : j = i - m
    OBVIOUS
  <2>3. j \in 0..Len(L) /\ l \in 0..j /\ j \in (l + 1)..j /\ L[j] \in Chars
    BY <1>1, <1>6
  <2>4. S[l] < S[j]
    BY <1>1, <2>3, RisesPast, Measures
  <2> QED BY <1>3, <1>4, <2>1, <2>2, <2>3, <2>4
<1> QED BY <1>1, <1>6, <1>7

\* The offset the editor means is the one the server finds.
LEMMA PositionComesBack ==
  ASSUME NEW t \in Seq(Chars), NEW i \in 0..Len(t)
  PROVE  PositionToChar(t, EditorPosition(t, i)) = i
<1> PICK m : m = LineStart(t, i)
  OBVIOUS
<1> PICK L : L = Line(t, Sums(t, Breaks)[i])
  OBVIOUS
<1>1. Utf16ColToChar(L, Sums(t, Units)[i] - Sums(t, Units)[m]) = i - m
  BY ColumnComesBack
<1>2. m \in 0..i
  BY LineStartIs
<1>3. LineToChar(t, Sums(t, Breaks)[i]) = m
  BY LineToCharIs
<1>4. PositionToChar(t, EditorPosition(t, i)) = m + (i - m)
  BY <1>1, <1>3, EditorPositionIs DEF PositionToChar
<1> QED BY <1>2, <1>4

-----------------------------------------------------------------------------
(* The two sides stay in step. *)

EditInv == buffer \in Seq(Chars) /\ InStep

LEMMA ConcatIs ==
  ASSUME NEW a \in Seq(Chars), NEW b \in Seq(Chars)
  PROVE  /\ a \o b \in Seq(Chars) /\ Len(a \o b) = Len(a) + Len(b)
         /\ \A k \in 1..Len(a) : (a \o b)[k] = a[k]
         /\ \A k \in 1..Len(b) : (a \o b)[Len(a) + k] = b[k]
OBVIOUS

\* u is t up to s, then new up to n, then t from e.
Spliced(u, n, t, s, e, new) ==
  /\ u \in Seq(Chars) /\ n \in Nat /\ Len(u) = n + (Len(t) - e)
  /\ \A k \in 1..s : u[k] = t[k]
  /\ \A k \in 1..Len(new) : u[s + k] = new[k]
  /\ \A k \in 1..(Len(t) - e) : u[n + k] = t[e + k]

LEMMA SpliceIs ==
  ASSUME NEW t \in Seq(Chars), NEW new \in Seq(Chars), NEW e \in 0..Len(t), NEW s \in 0..e,
         NEW u, u = Splice(t, s, e, new), NEW n, n = s + Len(new)
  PROVE  Spliced(u, n, t, s, e, new)
<1>1. PICK b, a : b = Before(t, s) /\ a = After(t, e)
  OBVIOUS
<1>2. s \in 0..Len(t) /\ Len(t) \in 0..Len(t) /\ e \in 0..Len(t)
  OBVIOUS
<1>3. b \in Seq(Chars) /\ Len(b) = s /\ \A k \in 1..s : b[k] = t[k]
  BY <1>1, <1>2, BeforeIs
<1>4. a \in Seq(Chars) /\ Len(a) = Len(t) - e /\ \A k \in 1..(Len(t) - e) : a[k] = t[e + k]
  BY <1>1, <1>2, PieceIs DEF After
<1>5. u = (b \o new) \o a
  BY <1>1 DEF Splice
<1>6. PICK v : v = b \o new
  OBVIOUS
<1>7. v \in Seq(Chars) /\ Len(v) = n /\ (\A k \in 1..s : v[k] = b[k])
      /\ \A k \in 1..Len(new) : v[s + k] = new[k]
  BY <1>3, <1>6, ConcatIs
<1>8. u \in Seq(Chars) /\ Len(u) = n + Len(a) /\ (\A k \in 1..n : u[k] = v[k])
      /\ \A k \in 1..Len(a) : u[n + k] = a[k]
  <2>1. u = v \o a
    BY <1>5, <1>6
  <2>2. /\ v \o a \in Seq(Chars) /\ Len(v \o a) = Len(v) + Len(a)
        /\ \A k \in 1..Len(v) : (v \o a)[k] = v[k]
        /\ \A k \in 1..Len(a) : (v \o a)[Len(v) + k] = a[k]
    BY <1>4, <1>7, ConcatIs
  <2> QED BY ONLY <1>7, <2>1, <2>2
<1>9. s \in Nat /\ Len(new) \in Nat /\ n \in Nat /\ Len(t) - e \in Nat
  OBVIOUS
<1>10. \A k \in 1..s : u[k] = t[k]
  <2>1. \A k \in 1..s : k \in 1..n
    BY <1>9
  <2> QED BY <1>3, <1>7, <1>8, <2>1
<1>11. \A k \in 1..Len(new) : u[s + k] = new[k]
  <2>1. \A k \in 1..Len(new) : s + k \in 1..n
    BY <1>9
  <2> QED BY <1>7, <1>8, <2>1
<1>12. \A k \in 1..(Len(t) - e) : u[n + k] = t[e + k]
  BY <1>4, <1>8
<1> QED BY <1>4, <1>8, <1>9, <1>10, <1>11, <1>12 DEF Spliced

LEMMA ManyAreSeqs == Buffers \subseteq Seq(Chars) /\ Insertions \subseteq Seq(Chars)
BY EditAssumption DEF Buffers, Insertions

\* What the server makes of a change of the editor.
LEMMA ReplaceIs ==
  ASSUME EditInv, NEW e \in 0..Len(buffer), NEW s \in 0..e, NEW new \in Insertions,
         Replace(s, e, new)
  PROVE  /\ text \in Seq(Chars) /\ new \in Seq(Chars) /\ e \in 0..Len(text)
         /\ text' = Splice(text, s, e, new) /\ buffer' = Splice(buffer, s, e, new)
         /\ edit' = InputEdit(text, s, e, new)
<1>1. text = buffer /\ text \in Seq(Chars) /\ new \in Seq(Chars)
  BY ManyAreSeqs DEF EditInv, InStep
<1>2. /\ PositionToChar(text, EditorPosition(buffer, s)) = s
      /\ PositionToChar(text, EditorPosition(buffer, e)) = e
  BY <1>1, PositionComesBack
<1> QED BY <1>1, <1>2 DEF Replace

LEMMA NextEditInv == EditInv /\ [EditNext]_textVars => EditInv'
<1> SUFFICES ASSUME EditInv, [EditNext]_textVars PROVE EditInv'
  OBVIOUS
<1>1. ASSUME NEW e \in 0..Len(buffer), NEW s \in 0..e, NEW new \in Insertions, Replace(s, e, new)
      PROVE  EditInv'
  <2>1. text = buffer
    BY DEF EditInv, InStep
  <2>2. /\ text \in Seq(Chars) /\ new \in Seq(Chars) /\ e \in 0..Len(text)
        /\ text' = Splice(text, s, e, new) /\ buffer' = Splice(buffer, s, e, new)
    BY <1>1, ReplaceIs
  <2>3. Splice(text, s, e, new) \in Seq(Chars)
    BY <2>2, SpliceIs DEF Spliced
  <2> QED BY <2>1, <2>2, <2>3 DEF EditInv, InStep
<1>2. ASSUME NEW new \in Insertions, ReplaceText(new) PROVE EditInv'
  BY <1>2, ManyAreSeqs DEF ReplaceText, EditInv, InStep
<1>3. CASE UNCHANGED textVars
  BY <1>3 DEF textVars, EditInv, InStep
<1> QED BY <1>1, <1>2, <1>3 DEF EditNext

\* Two texts with the same characters in the same places are the same.
LEMMA SameText ==
  ASSUME NEW a \in Seq(Chars), NEW b \in Seq(Chars), Len(a) = Len(b), \A k \in 1..Len(a) : a[k] = b[k]
  PROVE  a = b
OBVIOUS

-----------------------------------------------------------------------------
(* What the tree is told. *)

LEMMA CharToByteIs ==
  ASSUME NEW t \in Seq(Chars), NEW i \in 0..Len(t)
  PROVE  CharToByte(t, i) = Sums(t, Bytes)[i]
BY BeforeIs, Measures DEF CharToByte

LEMMA PointIs ==
  ASSUME NEW t \in Seq(Chars), NEW i \in 0..Len(t)
  PROVE  Point(t, i) = [row    |-> Sums(t, Breaks)[i],
                        column |-> Sums(t, Bytes)[i] - Sums(t, Bytes)[LineStart(t, i)]]
<1>1. LineStart(t, i) \in 0..Len(t)
  BY LineStartIs
<1>2. Newlines(Before(t, i)) = Sums(t, Breaks)[i]
  BY BeforeIs
<1>3. LineToChar(t, Sums(t, Breaks)[i]) = LineStart(t, i)
  BY LineToCharIs
<1>4. CharToByte(t, LineStart(t, i)) = Sums(t, Bytes)[LineStart(t, i)]
  BY <1>1, CharToByteIs
<1>5. CharToByte(t, i) = Sums(t, Bytes)[i]
  BY CharToByteIs
<1> QED BY <1>2, <1>3, <1>4, <1>5 DEF Point

\* A text u measures what t does up to s, and from there on what new does.
SplicedSums(u, t, s, new, M) ==
  /\ \A k \in 0..s : Sums(u, M)[k] = Sums(t, M)[k]
  /\ \A k \in 0..Len(new) : Sums(u, M)[s + k] = Sums(t, M)[s] + Sums(new, M)[k]

LEMMA SpliceMeasures ==
  ASSUME NEW t \in Seq(Chars), NEW new \in Seq(Chars), NEW e \in 0..Len(t), NEW s \in 0..e,
         NEW u, u = Splice(t, s, e, new), NEW M \in [Chars -> Nat]
  PROVE  SplicedSums(u, t, s, new, M)
<1> PICK z, n : z = 0 /\ n = s + Len(new)
  OBVIOUS
<1>1. /\ u \in Seq(Chars) /\ n \in Nat /\ Len(u) = n + (Len(t) - e)
      /\ \A k \in 1..s : u[k] = t[k]
      /\ \A k \in 1..Len(new) : u[s + k] = new[k]
  <2>1. Spliced(u, n, t, s, e, new)
    BY SpliceIs
  <2> QED BY <2>1 DEF Spliced
<1>2. z \in Nat /\ s \in Nat /\ Len(new) \in Nat /\ s <= Len(t) /\ n <= Len(u)
  BY <1>1
<1>3. Common(u, z, t, z, s) /\ Common(u, s, new, z, Len(new))
  BY <1>1, <1>2 DEF Common
<1>4. SumsAgree(u, z, t, z, s, M) /\ SumsAgree(u, s, new, z, Len(new), M)
  BY <1>1, <1>2, <1>3, Aligned
<1>5. /\ \A k \in 0..Len(u) : Sums(u, M)[k] \in Nat
      /\ \A k \in 0..Len(t) : Sums(t, M)[k] \in Nat
      /\ \A k \in 0..Len(new) : Sums(new, M)[k] \in Nat
      /\ Sums(u, M)[0] = 0 /\ Sums(t, M)[0] = 0 /\ Sums(new, M)[0] = 0
  BY <1>1, SumsAre
<1>6. \A k \in 0..s : Sums(u, M)[k] = Sums(t, M)[k]
  <2> TAKE k \in 0..s
  <2>1. Sums(u, M)[z + k] - Sums(u, M)[z] = Sums(t, M)[z + k] - Sums(t, M)[z]
    BY <1>4 DEF SumsAgree
  <2>2. z + k = k /\ k \in 0..Len(u) /\ k \in 0..Len(t)
    BY <1>2
  <2>3. Sums(u, M)[k] \in Nat /\ Sums(t, M)[k] \in Nat /\ Sums(u, M)[z] = 0 /\ Sums(t, M)[z] = 0
    BY <1>5, <2>2
  <2> QED BY <2>1, <2>2, <2>3
<1>7. \A k \in 0..Len(new) : Sums(u, M)[s + k] = Sums(t, M)[s] + Sums(new, M)[k]
  <2> TAKE k \in 0..Len(new)
  <2>1. Sums(u, M)[s + k] - Sums(u, M)[s] = Sums(new, M)[z + k] - Sums(new, M)[z]
    BY <1>4 DEF SumsAgree
  <2>2. z + k = k /\ s + k \in 0..Len(u) /\ s \in 0..Len(u) /\ s \in 0..s
    BY <1>2
  <2>3. /\ Sums(u, M)[s + k] \in Nat /\ Sums(u, M)[s] \in Nat /\ Sums(new, M)[k] \in Nat
        /\ Sums(new, M)[z] = 0 /\ Sums(u, M)[s] = Sums(t, M)[s]
    BY <1>5, <1>6, <2>2
  <2> QED BY <2>1, <2>2, <2>3
<1> QED BY <1>6, <1>7 DEF SplicedSums

\* Walking the inserted text leads to the point where it ends in the new text.
LEMMA NewEndIsPoint ==
  ASSUME NEW t \in Seq(Chars), NEW new \in Seq(Chars), NEW e \in 0..Len(t), NEW s \in 0..e,
         NEW u, u = Splice(t, s, e, new), NEW n, n = s + Len(new)
  PROVE  NewEnd(Point(t, s), new) = Point(u, n)
<1>1. /\ u \in Seq(Chars) /\ n \in Nat /\ Len(u) = n + (Len(t) - e)
      /\ \A k \in 1..s : u[k] = t[k]
      /\ \A k \in 1..Len(new) : u[s + k] = new[k]
  <2>1. Spliced(u, n, t, s, e, new)
    BY SpliceIs
  <2> QED BY <2>1 DEF Spliced
<1>2. s \in 0..Len(t) /\ n \in 0..Len(u) /\ Len(new) \in Nat /\ Len(new) \in 0..Len(new) /\ s <= n
      /\ s \in Nat
  BY <1>1
<1>3. SplicedSums(u, t, s, new, Breaks) /\ SplicedSums(u, t, s, new, Bytes)
  BY SpliceMeasures, Measures
<1> PICK B, C, D, w : B = Sums(t, Bytes) /\ C = Sums(u, Bytes) /\ D = Sums(new, Bytes) /\ w = Len(new)
  OBVIOUS
<1>4. /\ \A k \in 0..s : C[k] = B[k]
      /\ \A k \in 0..w : C[s + k] = B[s] + D[k]
  BY <1>3 DEF SplicedSums
<1>5. /\ \A k \in 0..Len(t) : B[k] \in Nat
      /\ \A k \in 0..w : D[k] \in Nat
  BY SumsAre, Measures
<1>6. Sums(u, Breaks)[n] = Sums(t, Breaks)[s] + Newlines(new)
  BY <1>2, <1>3 DEF SplicedSums, Newlines, Total
<1>7. C[n] = B[s] + D[w] /\ Total(new, Bytes) = D[w]
  BY <1>2, <1>4 DEF Total
<1> PICK m : m = LineStart(t, s)
  OBVIOUS
<1>8. m \in 0..s /\ (m = 0 \/ t[m] = Newline) /\ \A k \in (m + 1)..s : t[k] # Newline
  BY <1>2, LineStartIs
<1>9. Point(t, s) = [row |-> Sums(t, Breaks)[s], column |-> B[s] - B[m]]
  BY <1>2, PointIs
<1>10. Point(u, n) = [row |-> Sums(u, Breaks)[n], column |-> C[n] - C[LineStart(u, n)]]
  BY <1>1, <1>2, PointIs
<1> DEFINE ends == {i \in DOMAIN new : new[i] = Newline}
<1>11. CASE ends = {}
  <2>1. \A k \in 1..w : new[k] # Newline
    BY <1>11
  <2>2. m \in 0..n /\ (m = 0 \/ u[m] = Newline)
    BY <1>1, <1>2, <1>8
  <2>3. \A k \in (m + 1)..n : u[k] # Newline
    <3> TAKE k \in (m + 1)..n
    <3>1. CASE k <= s
      <4>1. k \in 1..s /\ k \in (m + 1)..s
        BY <1>2, <1>8, <3>1
      <4> QED BY <1>1, <1>8, <4>1
    <3>2. CASE ~(k <= s)
      <4>1. k - s \in 1..w /\ s + (k - s) = k
        BY <1>2, <1>8, <3>2
      <4> QED BY <1>1, <2>1, <4>1
    <3> QED BY <3>1, <3>2
  <2>4. LineStart(u, n) = m
    BY <1>1, <1>2, <2>2, <2>3, LineStartOf
  <2>5. (B[s] - B[m]) + D[w] = (B[s] + D[w]) - B[m] /\ C[m] = B[m]
    <3>1. B[s] \in Nat /\ B[m] \in Nat /\ D[w] \in Nat
      BY <1>2, <1>5, <1>8
    <3> QED BY <1>4, <1>8, <3>1
  <2>6. C[n] - C[LineStart(u, n)] = (B[s] - B[m]) + D[w]
    BY <1>7, <2>4, <2>5
  <2> QED BY <1>6, <1>7, <1>9, <1>10, <1>11, <2>6 DEF NewEnd
<1>12. CASE ends # {}
  <2> PICK x : x = Max(ends)
    OBVIOUS
  <2>1. x \in ends /\ \A y \in ends : y <= x
    <3>1. ends \subseteq 0..w
      OBVIOUS
    <3> HIDE DEF ends
    <3> QED BY <1>2, <1>12, <3>1, MaxIs
  <2>2. x \in 1..w /\ new[x] = Newline
    BY <2>1
  <2>3. \A k \in (x + 1)..w : new[k] # Newline
    <3> TAKE k \in (x + 1)..w
    <3>1. k \in DOMAIN new /\ ~(k <= x)
      BY <2>2
    <3> QED BY <2>1, <3>1
  <2>4. s + x \in 0..n /\ u[s + x] = Newline
    BY <1>1, <1>2, <2>2
  <2>5. \A k \in (s + x + 1)..n : u[k] # Newline
    <3> TAKE k \in (s + x + 1)..n
    <3>1. k - s \in 1..w /\ s + (k - s) = k /\ k - s \in (x + 1)..w
      BY <1>2, <2>2
    <3> QED BY <1>1, <2>3, <3>1
  <2>6. LineStart(u, n) = s + x
    BY <1>1, <1>2, <2>4, <2>5, LineStartOf
  <2>7. Total(After(new, x), Bytes) = D[w] - D[x]
    <3>1. x \in 0..w /\ w \in 0..w
      BY <2>2
    <3> QED BY <3>1, PieceMeasures, Measures DEF After
  <2>8. C[n] - C[LineStart(u, n)] = D[w] - D[x]
    <3>1. x \in 0..w /\ B[s] \in Nat /\ D[w] \in Nat /\ D[x] \in Nat
      BY <1>2, <1>5, <2>2
    <3>2. C[s + x] = B[s] + D[x]
      BY <1>4, <3>1
    <3> QED BY <1>7, <2>6, <3>1, <3>2
  <2> QED BY <1>6, <1>9, <1>10, <1>12, <2>7, <2>8 DEF NewEnd
<1> QED BY <1>11, <1>12

\* Around what was replaced, the text is as it was.
LEMMA SpliceKeeps ==
  ASSUME NEW t \in Seq(Chars), NEW new \in Seq(Chars), NEW e \in 0..Len(t), NEW s \in 0..e,
         NEW u, u = Splice(t, s, e, new), NEW n, n = s + Len(new)
  PROVE  Before(t, s) = Before(u, s) /\ After(t, e) = After(u, n)
<1>1. Spliced(u, n, t, s, e, new)
  BY SpliceIs
<1>2. s \in 0..Len(t) /\ s \in 0..Len(u) /\ u \in Seq(Chars)
  BY <1>1 DEF Spliced
<1>3. Before(t, s) = Before(u, s)
  <2>1. /\ Before(t, s) \in Seq(Chars) /\ Len(Before(t, s)) = s
        /\ \A k \in 1..s : Before(t, s)[k] = t[k]
    BY <1>2, BeforeIs
  <2>2. /\ Before(u, s) \in Seq(Chars) /\ Len(Before(u, s)) = s
        /\ \A k \in 1..s : Before(u, s)[k] = u[k]
    BY <1>2, BeforeIs
  <2>3. \A k \in 1..s : Before(t, s)[k] = Before(u, s)[k]
    BY <1>1, <2>1, <2>2 DEF Spliced
  <2> QED BY <2>1, <2>2, <2>3, SameText
<1>4. After(t, e) = After(u, n)
  <2> PICK a, b : a = After(t, e) /\ b = After(u, n)
    OBVIOUS
  <2>1. a \in Seq(Chars) /\ Len(a) = Len(t) - e /\ \A k \in 1..(Len(t) - e) : a[k] = t[e + k]
    <3>1. Len(t) \in 0..Len(t) /\ e \in 0..Len(t)
      OBVIOUS
    <3> QED BY <3>1, PieceIs DEF After
  <2>2. b \in Seq(Chars) /\ Len(b) = Len(u) - n /\ \A k \in 1..(Len(u) - n) : b[k] = u[n + k]
    <3>1. Len(u) \in 0..Len(u) /\ n \in 0..Len(u)
      BY <1>1, <1>2 DEF Spliced
    <3> QED BY <1>2, <3>1, PieceIs DEF After
  <2>3. Len(u) - n = Len(t) - e /\ \A k \in 1..(Len(t) - e) : u[n + k] = t[e + k]
    BY <1>1 DEF Spliced
  <2>4. Len(a) = Len(b) /\ \A k \in 1..Len(a) : a[k] = b[k]
    BY <2>1, <2>2, <2>3
  <2>5. a = b
    BY ONLY <2>1, <2>2, <2>4, SameText
  <2> QED BY <2>5
<1> QED BY <1>3, <1>4

\* What input_edit says of a replacement, read in the old text and in the new.
LEMMA InputEditIs ==
  ASSUME NEW t \in Seq(Chars), NEW new \in Seq(Chars), NEW e \in 0..Len(t), NEW s \in 0..e,
         NEW u, u = Splice(t, s, e, new), NEW n, n = s + Len(new)
  PROVE  InputEdit(t, s, e, new) =
           [start_byte       |-> CharToByte(t, s),
            old_end_byte     |-> CharToByte(t, e),
            new_end_byte     |-> CharToByte(u, n),
            start_position   |-> Point(t, s),
            old_end_position |-> Point(t, e),
            new_end_position |-> Point(u, n)]
<1>1. NewEnd(Point(t, s), new) = Point(u, n)
  BY NewEndIsPoint
<1>2. CharToByte(t, s) + Total(new, Bytes) = CharToByte(u, n)
  <2>1. SplicedSums(u, t, s, new, Bytes)
    BY SpliceMeasures, Measures
  <2>2. u \in Seq(Chars) /\ n \in 0..Len(u) /\ s \in 0..Len(t) /\ Len(new) \in 0..Len(new)
    <3>1. Spliced(u, n, t, s, e, new)
      BY SpliceIs
    <3> QED BY <3>1 DEF Spliced
  <2>3. Sums(u, Bytes)[n] = Sums(t, Bytes)[s] + Sums(new, Bytes)[Len(new)]
    BY <2>1, <2>2 DEF SplicedSums
  <2>4. CharToByte(t, s) = Sums(t, Bytes)[s] /\ CharToByte(u, n) = Sums(u, Bytes)[n]
    BY <2>2, CharToByteIs
  <2> QED BY <2>3, <2>4 DEF Total
<1> QED BY <1>1, <1>2 DEF InputEdit

\* The texts t and u are the same around s..e of the one and s..n of the other,
\* and the edit delimits the two.
Delimits(told, t, u, s, e, n) ==
  /\ Before(t, s) = Before(u, s) /\ After(t, e) = After(u, n)
  /\ told = [start_byte       |-> CharToByte(t, s),
             old_end_byte     |-> CharToByte(t, e),
             new_end_byte     |-> CharToByte(u, n),
             start_position   |-> Point(t, s),
             old_end_position |-> Point(t, e),
             new_end_position |-> Point(u, n)]

LEMMA ReplaceTells ==
  ASSUME EditInv, NEW e \in 0..Len(buffer), NEW s \in 0..e, NEW new \in Insertions,
         Replace(s, e, new)
  PROVE  \E oe \in 0..Len(text), n \in 0..Len(text') : \E os \in 0..Min({oe, n}) :
           Delimits(edit', text, text', os, oe, n)
<1> PICK n : n = s + Len(new)
  OBVIOUS
<1>1. /\ text \in Seq(Chars) /\ new \in Seq(Chars) /\ e \in 0..Len(text)
      /\ text' = Splice(text, s, e, new) /\ edit' = InputEdit(text, s, e, new)
  BY ReplaceIs
<1>2. Delimits(edit', text, text', s, e, n)
  BY <1>1, SpliceKeeps, InputEditIs DEF Delimits
<1>3. n \in 0..Len(text') /\ s <= n /\ s <= e /\ s \in Nat
  <2>1. Spliced(text', n, text, s, e, new)
    BY <1>1, SpliceIs
  <2> QED BY <1>1, <2>1 DEF Spliced
<1>4. s \in 0..Min({e, n})
  <2>1. {e, n} \subseteq Nat /\ {e, n} # {}
    BY <1>1, <1>3
  <2>2. Min({e, n}) \in {e, n}
    BY <2>1, MinIs
  <2> QED BY <1>1, <1>3, <2>2
<1> QED BY <1>1, <1>2, <1>3, <1>4

\* Tree-sitter is told of every change exactly what it did: in bytes and in
\* points, in the old text and in the new one (input_edit in document.rs).
THEOREM TreeIsToldExactly == EditSpec => TreeEditIsExact
<1>1. EditInit => EditInv
  BY ManyAreSeqs DEF EditInit, EditInv, InStep
<1>2. EditInv /\ [EditNext]_textVars =>
        [edit' # NoEdit =>
           \E e \in 0..Len(text), n \in 0..Len(text') : \E s \in 0..Min({e, n}) :
             /\ Before(text, s) = Before(text', s) /\ After(text, e) = After(text', n)
             /\ edit' = [start_byte       |-> CharToByte(text, s),
                         old_end_byte     |-> CharToByte(text, e),
                         new_end_byte     |-> CharToByte(text', n),
                         start_position   |-> Point(text, s),
                         old_end_position |-> Point(text, e),
                         new_end_position |-> Point(text', n)]]_textVars
  <2> SUFFICES ASSUME EditInv, EditNext, edit' # NoEdit
               PROVE  \E e \in 0..Len(text), n \in 0..Len(text') : \E s \in 0..Min({e, n}) :
                        Delimits(edit', text, text', s, e, n)
    BY DEF Delimits
  <2>1. ASSUME NEW new \in Insertions, ReplaceText(new) PROVE FALSE
    BY <2>1 DEF ReplaceText
  <2>2. PICK e \in 0..Len(buffer) : \E s \in 0..e, new \in Insertions : Replace(s, e, new)
    BY <2>1 DEF EditNext
  <2> QED BY <2>2, ReplaceTells
<1> QED BY <1>1, <1>2, NextEditInv, PTL DEF EditSpec, TreeEditIsExact

-----------------------------------------------------------------------------
(* The range of a keyword. *)

LEMMA IdentStartIs ==
  ASSUME NEW L, NEW col \in Nat
  PROVE  /\ IdentStart(L, col) \in 0..col
         /\ \A k \in (IdentStart(L, col) + 1)..col : L[k] \in Ident
<1> DEFINE T == {i \in 0..col : \A k \in (i + 1)..col : L[k] \in Ident}
<1>1. T \subseteq Nat /\ col \in T
  OBVIOUS
<1>2. Min(T) \in T
  <2> HIDE DEF T
  <2> QED BY <1>1, MinIs
<1> QED BY <1>2 DEF IdentStart

LEMMA IdentEndIs ==
  ASSUME NEW L, NEW n \in Nat, Len(L) = n, NEW col \in 0..n
  PROVE  /\ IdentEnd(L, col) \in col..n
         /\ \A k \in (col + 1)..IdentEnd(L, col) : L[k] \in Ident
         /\ IdentEnd(L, col) < n => L[IdentEnd(L, col) + 1] \notin Ident
<1> DEFINE T == {i \in col..Len(L) : \A k \in (col + 1)..i : L[k] \in Ident}
<1>1. T \subseteq 0..n /\ col \in T
  OBVIOUS
<1> PICK z : z = IdentEnd(L, col)
  OBVIOUS
<1>2. z \in T /\ \A y \in T : y <= z
  <2> HIDE DEF T
  <2>1. Max(T) \in T /\ \A y \in T : y <= Max(T)
    BY <1>1, MaxIs
  <2> QED BY <2>1 DEF IdentEnd, T
<1>3. z \in col..n /\ \A k \in (col + 1)..z : L[k] \in Ident
  BY <1>2
<1>4. ASSUME z < n, L[z + 1] \in Ident PROVE FALSE
  <2>1. z + 1 \in col..n
    BY <1>3, <1>4
  <2>2. \A k \in (col + 1)..(z + 1) : L[k] \in Ident
    <3> TAKE k \in (col + 1)..(z + 1)
    <3>1. k = z + 1 \/ k \in (col + 1)..z
      BY <1>3
    <3> QED BY <1>3, <1>4, <3>1
  <2>3. z + 1 \in T
    BY <2>1, <2>2
  <2> HIDE DEF T
  <2> QED BY <1>2, <1>3, <2>3
<1> QED BY <1>3, <1>4

\* An offset of a line, up to the end of the name around the cursor, has for
\* the editor the position the server makes of its column.
LEMMA ColumnGoesOut ==
  ASSUME NEW t \in Seq(Chars), NEW i \in 0..Len(t), NEW L, L = Line(t, Sums(t, Breaks)[i]),
         NEW m, m = LineStart(t, i), NEW z \in (i - m)..Len(L),
         \A k \in (i - m + 1)..z : L[k] \in Ident, NEW c \in 0..z
  PROVE  /\ EditorPosition(t, m + c) = [line |-> Sums(t, Breaks)[i], character |-> CharColToUtf16(L, c)]
         /\ z > i - m => t[m + z] # Newline
<1>1. LineHolds(L, t, m, i)
  BY LineIs
<1>2. /\ L \in Seq(Chars) /\ Len(L) \in Nat /\ m \in 0..i /\ i - m \in 0..Len(L)
      /\ m + Len(L) \in i..Len(t)
      /\ \A k \in 1..Len(L) : L[k] = t[m + k]
      /\ \A k \in 0..Len(L) : Sums(L, Units)[k] = Sums(t, Units)[m + k] - Sums(t, Units)[m]
  BY <1>1 DEF LineHolds, PieceSums
<1>3. (m = 0 \/ t[m] = Newline) /\ (\A k \in (m + 1)..i : t[k] # Newline)
      /\ Sums(t, Breaks)[m] = Sums(t, Breaks)[i]
  BY LineStartIs
<1>4. c \in 0..Len(L) /\ m + c \in 0..Len(t) /\ m \in 0..(m + c)
  BY <1>2
<1>5. \A k \in (i + 1)..(m + z) : t[k] # Newline
  <2> TAKE k \in (i + 1)..(m + z)
  <2>1. k - m \in (i - m + 1)..z /\ k - m \in 1..Len(L) /\ m + (k - m) = k
    BY <1>2
  <2>2. L[k - m] = t[k] /\ L[k - m] \in Ident
    BY <1>2, <2>1
  <2> QED BY <2>2, Measures
<1>6. \A k \in (m + 1)..(m + c) : t[k] # Newline
  <2> TAKE k \in (m + 1)..(m + c)
  <2>1. k \in (m + 1)..i \/ k \in (i + 1)..(m + z)
    BY <1>2
  <2> QED BY <1>3, <1>5, <2>1
<1>7. LineStart(t, m + c) = m
  BY <1>3, <1>4, <1>6, LineStartOf
<1>8. Sums(t, Breaks)[m] = Sums(t, Breaks)[m + c]
  <2>1. Sums(t, Breaks)[LineStart(t, m + c)] = Sums(t, Breaks)[m + c]
    BY <1>4, LineStartIs
  <2> QED BY <1>7, <2>1
<1>9. EditorPosition(t, m + c) =
        [line |-> Sums(t, Breaks)[m + c], character |-> Sums(t, Units)[m + c] - Sums(t, Units)[m]]
  BY <1>4, <1>7, EditorPositionIs
<1>10. CharColToUtf16(L, c) = Sums(t, Units)[m + c] - Sums(t, Units)[m]
  <2>1. {c, Len(L)} \subseteq Nat /\ {c, Len(L)} # {}
    BY <1>2, <1>4
  <2>2. Min({c, Len(L)}) \in {c, Len(L)} /\ Min({c, Len(L)}) <= c /\ Min({c, Len(L)}) <= Len(L)
    BY <2>1, MinIs
  <2>3. Min({c, Len(L)}) = c
    BY <1>2, <1>4, <2>2
  <2>4. Total(Before(L, c), Units) = Sums(L, Units)[c]
    BY <1>2, <1>4, BeforeIs, Measures
  <2> QED BY <1>2, <1>4, <2>3, <2>4 DEF CharColToUtf16
<1>11. z > i - m => t[m + z] # Newline
  <2>1. z > i - m => m + z \in (i + 1)..(m + z)
    BY <1>2
  <2> QED BY <1>5, <2>1
<1> QED BY <1>3, <1>8, <1>9, <1>10, <1>11

\* s..e is the keyword around an offset, colons and name, and nothing else.
KeywordSpan(t, found, s, e) ==
  /\ EditorPosition(t, s) = found.start
  /\ EditorPosition(t, e) = found.end
  /\ t[s + 1] = Colon
  /\ \A k \in (s + 2)..e : t[k] \in Ident \/ (k = s + 2 /\ t[k] = Colon)
  /\ e < Len(t) => t[e + 1] \notin Ident

LEMMA KeywordIs ==
  ASSUME NEW t \in Seq(Chars), NEW i \in 0..Len(t),
         KeywordAt(t, EditorPosition(t, i)) # NoKeyword
  PROVE  \E s \in 0..i, e \in i..Len(t) : KeywordSpan(t, KeywordAt(t, EditorPosition(t, i)), s, e)
<1> PICK m, L : m = LineStart(t, i) /\ L = Line(t, Sums(t, Breaks)[i])
  OBVIOUS
<1> PICK col : col = i - m
  OBVIOUS
<1>1. LineHolds(L, t, m, i)
  BY LineIs
<1>2. /\ L \in Seq(Chars) /\ Len(L) \in Nat /\ m \in 0..i /\ col \in 0..Len(L)
      /\ m + Len(L) \in i..Len(t)
      /\ (m + Len(L) < Len(t) => i < m + Len(L) /\ t[m + Len(L)] = Newline)
      /\ \A k \in 1..Len(L) : L[k] = t[m + k]
  BY <1>1 DEF LineHolds
<1> PICK pos : pos = EditorPosition(t, i)
  OBVIOUS
<1>3. pos.line = Sums(t, Breaks)[i] /\ Utf16ColToChar(L, pos.character) = col
  BY EditorPositionIs, ColumnComesBack
<1> PICK a, z : a = IdentStart(L, col) /\ z = IdentEnd(L, col)
  OBVIOUS
<1>4. a \in 0..col /\ \A k \in (a + 1)..col : L[k] \in Ident
  BY <1>2, IdentStartIs
<1>5. z \in col..Len(L) /\ (\A k \in (col + 1)..z : L[k] \in Ident)
      /\ (z < Len(L) => L[z + 1] \notin Ident)
  BY <1>2, IdentEndIs
<1> PICK b : b = IF a > 1 /\ L[a - 1] = Colon THEN a - 2 ELSE a - 1
  OBVIOUS
<1>6. /\ a # 0 /\ L[a] = Colon
      /\ KeywordAt(t, pos) =
           [start |-> [line |-> pos.line, character |-> CharColToUtf16(L, b)],
            end   |-> [line |-> pos.line, character |-> CharColToUtf16(L, z)]]
  BY <1>3 DEF KeywordAt
<1>7. b \in 0..z /\ b < a /\ L[b + 1] = Colon /\ (b + 1 = a \/ b + 2 = a) /\ z \in 0..z
  BY <1>4, <1>5, <1>6
<1>8. /\ EditorPosition(t, m + b) = [line |-> pos.line, character |-> CharColToUtf16(L, b)]
      /\ EditorPosition(t, m + z) = [line |-> pos.line, character |-> CharColToUtf16(L, z)]
      /\ z > col => t[m + z] # Newline
  BY <1>3, <1>5, <1>7, ColumnGoesOut
<1> PICK w, n : w = Len(L) /\ n = Len(t)
  OBVIOUS
<1>0. /\ i \in Nat /\ m \in Nat /\ col \in Nat /\ a \in Nat /\ b \in Nat /\ z \in Nat /\ w \in Nat
      /\ n \in Nat /\ i = m + col /\ 1 <= a /\ a <= col /\ b < a /\ b + 2 >= a /\ col <= z /\ z <= w
      /\ m + w <= n /\ i <= n
  BY <1>2, <1>4, <1>5, <1>6, <1>7
<1>9. m + b \in 0..i /\ m + z \in i..Len(t)
  BY ONLY <1>0, n = Len(t)
<1>10. t[(m + b) + 1] = Colon
  <2>1. b + 1 \in 1..Len(L) /\ m + (b + 1) = (m + b) + 1
    BY ONLY <1>0, w = Len(L)
  <2> QED BY <1>2, <1>7, <2>1
<1>11. \A k \in ((m + b) + 2)..(m + z) : t[k] \in Ident \/ (k = (m + b) + 2 /\ t[k] = Colon)
  <2> TAKE k \in ((m + b) + 2)..(m + z)
  <2>1. k - m \in (b + 2)..z /\ k - m \in 1..Len(L) /\ m + (k - m) = k
    BY ONLY <1>0, w = Len(L), k \in ((m + b) + 2)..(m + z)
  <2>2. L[k - m] = t[k]
    BY <1>2, <2>1
  <2>3. (k - m = a /\ k = (m + b) + 2) \/ k - m \in (a + 1)..col \/ k - m \in (col + 1)..z
    BY ONLY <1>0, <2>1, k \in ((m + b) + 2)..(m + z)
  <2> QED BY <1>4, <1>5, <1>6, <2>2, <2>3
<1>12. m + z < Len(t) => t[(m + z) + 1] \notin Ident
  <2>1. CASE z < Len(L)
    <3>1. z + 1 \in 1..Len(L) /\ m + (z + 1) = (m + z) + 1
      BY <1>2, <1>5, <2>1
    <3> QED BY <1>2, <1>5, <2>1, <3>1
  <2>2. CASE z = Len(L)
    BY <1>2, <1>5, <1>8, <2>2
  <2> QED BY <1>2, <1>5, <2>1, <2>2
<1>13. KeywordSpan(t, KeywordAt(t, pos), m + b, m + z)
  BY <1>6, <1>8, <1>10, <1>11, <1>12 DEF KeywordSpan
<1> QED BY <1>9, <1>13

\* The rope is the editor's copy after every change, and the range handed back
\* for a keyword is the keyword in the editor's copy, whatever the characters
\* measure (position_to_char, utf16_col_to_char, char_col_to_utf16, keyword_at).
THEOREM PositionsAlwaysAgree == EditSpec => []PositionsAgree
<1>1. EditInit => EditInv
  BY ManyAreSeqs DEF EditInit, EditInv, InStep
<1>2. EditInv => PositionsAgree
  <2> SUFFICES ASSUME EditInv PROVE KeywordRangeComesBack
    BY DEF EditInv, PositionsAgree
  <2>1. text = buffer /\ buffer \in Seq(Chars)
    BY DEF EditInv, InStep
  <2>2. ASSUME NEW i \in 0..Len(buffer), KeywordAt(buffer, EditorPosition(buffer, i)) # NoKeyword
        PROVE  \E s \in 0..i, e \in i..Len(buffer) :
                 KeywordSpan(buffer, KeywordAt(buffer, EditorPosition(buffer, i)), s, e)
    BY <2>1, <2>2, KeywordIs
  <2> QED BY <2>1, <2>2 DEF KeywordRangeComesBack, KeywordSpan
<1> QED BY <1>1, <1>2, NextEditInv, PTL DEF EditSpec
=============================================================================
