--------------------------- MODULE DocumentStore ---------------------------
(***************************************************************************)
(* The open buffers of clj-pulse and the one-slot analysis cache of each.  *)
(*                                                                         *)
(* The handler task opens, edits and closes documents. Workers (request    *)
(* handlers, lint passes on blocking threads, the config reload) take a    *)
(* snapshot of a document under its map lock, release the lock, and ask    *)
(* for the analysis of exactly that snapshot while the document and the    *)
(* extraction config move on. A config is an Arc: its identity is its      *)
(* address, and an address nobody holds can be handed out again.           *)
(***************************************************************************)
EXTENDS Integers

CONSTANTS
  Docs,      \* the documents
  Texts,     \* what a buffer can hold
  Configs,   \* what an extraction config can say
  Addrs,     \* where the allocator can put a config
  Workers,   \* the concurrent callers of DocumentStore::analysis
  MaxRev,    \* bound: revisions drawn from NEXT_REV
  None       \* no text, no tree, no cached analysis

ASSUME StoreAssumption ==
  /\ MaxRev \in Nat
  /\ None \notin Docs \cup Texts \cup Addrs \cup Configs

VARIABLES
  rope,      \* the text of each document, None when closed
  tree,      \* the text its tree was parsed from; None: parse refused, or not done
  rev,       \* its revision, 0 when closed
  slot,      \* its CachedAnalysis, or Empty
  nextRev,   \* NEXT_REV
  current,   \* the address of the config the index holds
  content,   \* what each address holds
  wpc,       \* where each worker is
  wdoc,      \* the document it asks about
  snap,      \* its Snapshot
  wcfg,      \* the config it holds, by address
  result     \* the analysis it got

docVars    == <<rope, tree, rev, slot, nextRev>>
configVars == <<current, content>>
workerVars == <<wpc, wdoc, snap, wcfg, result>>
vars == <<docVars, configVars, workerVars>>

\* extract_analysis_tree is a pure function of the tree, the text and the
\* config; all that is used of it is what it was computed from.
Analyze(t, text, cfg) == [tree |-> t, text |-> text, config |-> cfg]

NoAnalysis == Analyze(None, None, None)
NoSnapshot == [text |-> None, tree |-> None, rev |-> 0]
Empty      == [rev |-> 0, cfg |-> None, analysis |-> NoAnalysis]

IsOpen(d) == rev[d] # 0

\* Variant: a cached entry keeps the address of its config, not the Arc.
HeldNotByCache == {current} \cup {wcfg[w] : w \in Workers}

\* The addresses somebody holds an Arc of: the index, a worker, a cached entry.
Held == {current} \cup {wcfg[w] : w \in Workers} \cup {slot[d].cfg : d \in Docs}

-----------------------------------------------------------------------------
(* The handler task. *)

\* Variant: NEXT_REV is read and not advanced.
OpenSameRev(d, text) ==
  /\ nextRev <= MaxRev
  /\ rope' = [rope EXCEPT ![d] = text]
  /\ tree' = [tree EXCEPT ![d] = text]
  /\ rev' = [rev EXCEPT ![d] = nextRev]
  /\ slot' = [slot EXCEPT ![d] = Empty]
  /\ UNCHANGED <<nextRev, configVars, workerVars>>

\* DocumentStore::open: a fresh Doc, whatever was there.
Open(d, text) ==
  /\ nextRev <= MaxRev
  /\ rope' = [rope EXCEPT ![d] = text]
  /\ tree' = [tree EXCEPT ![d] = text]
  /\ rev' = [rev EXCEPT ![d] = nextRev]
  /\ slot' = [slot EXCEPT ![d] = Empty]
  /\ nextRev' = nextRev + 1
  /\ UNCHANGED <<configVars, workerVars>>

\* Variant: the tree is taken only by the reparse of a batch that succeeds.
ApplyChangesKeepTree(d, text, ok) ==
  /\ IsOpen(d) /\ nextRev <= MaxRev
  /\ rope' = [rope EXCEPT ![d] = text]
  /\ tree' = [tree EXCEPT ![d] = IF ok THEN text ELSE @]
  /\ rev' = [rev EXCEPT ![d] = nextRev]
  /\ slot' = [slot EXCEPT ![d] = Empty]
  /\ nextRev' = nextRev + 1
  /\ UNCHANGED <<configVars, workerVars>>

\* DocumentStore::apply_changes: the revision and its analysis go first. A batch
\* that fails part-way leaves the text its good changes made and no tree.
ApplyChanges(d, text, ok) ==
  /\ IsOpen(d) /\ nextRev <= MaxRev
  /\ rope' = [rope EXCEPT ![d] = text]
  /\ tree' = [tree EXCEPT ![d] = IF ok THEN text ELSE None]
  /\ rev' = [rev EXCEPT ![d] = nextRev]
  /\ slot' = [slot EXCEPT ![d] = Empty]
  /\ nextRev' = nextRev + 1
  /\ UNCHANGED <<configVars, workerVars>>

\* DocumentStore::close
Close(d) ==
  /\ IsOpen(d)
  /\ rope' = [rope EXCEPT ![d] = None]
  /\ tree' = [tree EXCEPT ![d] = None]
  /\ rev' = [rev EXCEPT ![d] = 0]
  /\ slot' = [slot EXCEPT ![d] = Empty]
  /\ UNCHANGED <<nextRev, configVars, workerVars>>

(* Index::set_extract_config: a fresh Arc, at an address nobody holds. *)
SetExtractConfig(a, cfg) ==
  /\ a \notin Held
  /\ content' = [content EXCEPT ![a] = cfg]
  /\ current' = a
  /\ UNCHANGED <<docVars, workerVars>>

-----------------------------------------------------------------------------
(* A worker. *)

\* DocumentStore::snapshot, under the document's lock; repairs a missing tree.
TakeSnapshot(w, d) ==
  LET t == IF tree[d] = None THEN rope[d] ELSE tree[d] IN
  /\ wpc[w] = "idle" /\ IsOpen(d)
  /\ tree' = [tree EXCEPT ![d] = t]
  /\ snap' = [snap EXCEPT ![w] = [text |-> rope[d], tree |-> t, rev |-> rev[d]]]
  /\ wdoc' = [wdoc EXCEPT ![w] = d]
  /\ wpc' = [wpc EXCEPT ![w] = "config"]
  /\ UNCHANGED <<rope, rev, slot, nextRev, configVars, wcfg, result>>

\* Index::extract_config clones the Arc.
ReadConfig(w) ==
  /\ wpc[w] = "config"
  /\ wcfg' = [wcfg EXCEPT ![w] = current]
  /\ wpc' = [wpc EXCEPT ![w] = "lookup"]
  /\ UNCHANGED <<docVars, configVars, wdoc, snap, result>>

\* The slot answers if it is of the snapshot's revision and of this very Arc.
SlotAnswers(w) ==
  LET s == slot[wdoc[w]] IN
  /\ s # Empty
  /\ s.rev = snap[w].rev /\ s.cfg = wcfg[w]

Lookup(w) ==
  /\ wpc[w] = "lookup"
  /\ IF SlotAnswers(w)
     THEN /\ result' = [result EXCEPT ![w] = slot[wdoc[w]].analysis]
          /\ wpc' = [wpc EXCEPT ![w] = "answered"]
     ELSE /\ wpc' = [wpc EXCEPT ![w] = "compute"]
          /\ UNCHANGED result
  /\ UNCHANGED <<docVars, configVars, wdoc, snap, wcfg>>

\* The walk, with no lock held; it can fail, and then nothing is stored.
Compute(w) ==
  /\ wpc[w] = "compute"
  /\ \/ /\ result' = [result EXCEPT ![w] =
                        Analyze(snap[w].tree, snap[w].text, content[wcfg[w]])]
        /\ wpc' = [wpc EXCEPT ![w] = "store"]
     \/ /\ wpc' = [wpc EXCEPT ![w] = "end"]
        /\ UNCHANGED result
  /\ UNCHANGED <<docVars, configVars, wdoc, snap, wcfg>>

\* Stored only if the document has not moved on since the snapshot.
Store(w) ==
  LET d == wdoc[w] IN
  /\ wpc[w] = "store"
  /\ slot' = IF snap[w].rev # 0 /\ rev[d] = snap[w].rev
             THEN [slot EXCEPT ![d] = [rev |-> snap[w].rev, cfg |-> wcfg[w],
                                       analysis |-> result[w]]]
             ELSE slot
  /\ wpc' = [wpc EXCEPT ![w] = "answered"]
  /\ UNCHANGED <<rope, tree, rev, nextRev, configVars, wdoc, snap, wcfg, result>>

\* The caller is done with the answer and drops what it holds.
Finish(w) ==
  /\ wpc[w] \in {"answered", "end"}
  /\ wpc' = [wpc EXCEPT ![w] = "idle"]
  /\ wdoc' = [wdoc EXCEPT ![w] = None]
  /\ snap' = [snap EXCEPT ![w] = NoSnapshot]
  /\ wcfg' = [wcfg EXCEPT ![w] = None]
  /\ result' = [result EXCEPT ![w] = NoAnalysis]
  /\ UNCHANGED <<docVars, configVars>>

-----------------------------------------------------------------------------
Init ==
  /\ rope = [d \in Docs |-> None] /\ tree = [d \in Docs |-> None]
  /\ rev = [d \in Docs |-> 0] /\ slot = [d \in Docs |-> Empty]
  /\ nextRev = 1
  /\ current \in Addrs /\ content \in [Addrs -> Configs]
  /\ wpc = [w \in Workers |-> "idle"] /\ wdoc = [w \in Workers |-> None]
  /\ snap = [w \in Workers |-> NoSnapshot] /\ wcfg = [w \in Workers |-> None]
  /\ result = [w \in Workers |-> NoAnalysis]

HandlerStep(d) ==
  \/ \E text \in Texts : Open(d, text)
  \/ \E text \in Texts, ok \in BOOLEAN : ApplyChanges(d, text, ok)
  \/ Close(d)

WorkerStep(w) ==
  \/ \E d \in Docs : TakeSnapshot(w, d)
  \/ ReadConfig(w) \/ Lookup(w) \/ Compute(w) \/ Store(w) \/ Finish(w)

Next ==
  \/ \E d \in Docs : HandlerStep(d)
  \/ \E a \in Addrs, cfg \in Configs : SetExtractConfig(a, cfg)
  \/ \E w \in Workers : WorkerStep(w)

Spec == Init /\ [][Next]_vars

-----------------------------------------------------------------------------
TextOrNone == Texts \cup {None}
Analyses   == [tree : TextOrNone, text : TextOrNone, config : Configs \cup {None}]

\* The type of every variable; a revision is drawn once and never again.
TypeOK ==
  /\ rope \in [Docs -> TextOrNone] /\ tree \in [Docs -> TextOrNone]
  /\ rev \in [Docs -> Nat] /\ nextRev \in Nat \ {0}
  /\ \A d \in Docs : rev[d] < nextRev
  /\ slot \in [Docs -> [rev : Nat, cfg : Addrs \cup {None}, analysis : Analyses]]
  /\ current \in Addrs /\ content \in [Addrs -> Configs]
  /\ wpc \in [Workers -> {"idle", "config", "lookup", "compute", "store", "answered", "end"}]
  /\ wdoc \in [Workers -> Docs \cup {None}]
  /\ snap \in [Workers -> [text : TextOrNone, tree : TextOrNone, rev : Nat]]
  /\ wcfg \in [Workers -> Addrs \cup {None}]
  /\ result \in [Workers -> Analyses]

\* Text and tree of a document, and of every snapshot, are of one version: no
\* handler ever pairs a tree with a text it was not parsed from, whichever
\* batch failed part-way before.
TreeMatchesText ==
  /\ \A d \in Docs : tree[d] \in {None, rope[d]}
  /\ \A w \in Workers : snap[w].tree = snap[w].text

\* "The slot never holds anything but its own revision": what is cached for a
\* document is the analysis of the text it has now under the config it names,
\* whatever was stored late, reopened or reloaded meanwhile.
SlotIsOfThisRevision ==
  \A d \in Docs : slot[d] # Empty =>
    /\ IsOpen(d) /\ slot[d].rev = rev[d]
    /\ slot[d].cfg \in Addrs
    /\ slot[d].analysis = Analyze(rope[d], rope[d], content[slot[d].cfg])

\* An answer, cached or computed, is the analysis of exactly the caller's
\* snapshot under the config the caller holds: the cache is transparent.
AnswerIsOfThisSnapshot ==
  \A w \in Workers : wpc[w] = "answered" =>
    result[w] = Analyze(snap[w].tree, snap[w].text, content[wcfg[w]])

=============================================================================
