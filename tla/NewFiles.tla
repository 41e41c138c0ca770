------------------------------ MODULE NewFiles ------------------------------
(***************************************************************************)
(* The ns form that an empty file created in the editor gets               *)
(* (workspace/didCreateFiles: server.rs did_create_files, and              *)
(* src/handlers/new_file.rs).                                              *)
(*                                                                         *)
(* A handler waits for the project list that startup detects, for a time,  *)
(* takes it, and then asks the client for one edit after another, each     *)
(* answered before the next file is looked at.  Meanwhile the user opens,  *)
(* types, saves and closes, other batches are handled, and the list may    *)
(* change.                                                                 *)
(*                                                                         *)
(* A path is the sequence of its components, the last without extension.   *)
(***************************************************************************)
EXTENDS Integers, SequencesExt, FiniteSetsExt

CONSTANTS
  Batches,      \* [handler -> the files it is told of, in order]
  Path,         \* [file -> its path]
  Clojure,      \* the files that is_clojure_source takes
  NsSegment,    \* [component -> the namespace segment it spells, or NoSegment]
  Literals,     \* namespaces that the reader takes for nil, true or false
  ProjectLists, \* project lists: sequences of [dir, declared]
  NoSegment     \* a component that is none: `my file`

\* The client reports a file it creates once. A list holds the root and maybe
\* more, and what a project declares is read from its directory.
Components == DOMAIN NsSegment
Project    == [dir : Seq(Components), declared : SUBSET Seq(Components)]
ASSUME NewFilesAssumption ==
  /\ {"src", "test"} \subseteq Components
  /\ Batches \in [DOMAIN Batches -> Seq(DOMAIN Path)]
  /\ \A h \in DOMAIN Batches :
       /\ IsInjective(Batches[h])
       /\ \A g \in DOMAIN Batches \ {h} : ToSet(Batches[h]) \cap ToSet(Batches[g]) = {}
  /\ \A f \in DOMAIN Path : Path[f] \in Seq(Components)
  /\ \A ps \in ProjectLists :
       /\ ps \in Seq(Project) /\ ps # <<>>
       /\ \A p, q \in ToSet(ps) : p.dir = q.dir => p = q

NewFileNames == UNION {ToSet(Batches[h]) : h \in DOMAIN Batches}

VARIABLES
  rooted,    \* the editor opened a workspace
  projects,  \* the project list
  ready,     \* projects_ready
  disk,      \* "empty" or "text", of each file
  buffer,    \* the open text of each file, or "closed"
  phase,     \* where each handler is
  remaining,      \* the files it has still to look at
  list,      \* the project list it took
  sent,      \* history: the edits it asked for, [file, ns, onto]
  early,     \* history: handlers whose wait timed out
  typed      \* history: files that had a text other than the ns form

newFileVars == <<rooted, projects, ready, disk, buffer, phase, remaining, list, sent, early, typed>>

-----------------------------------------------------------------------------
(* Which namespace *)

\* owning_project, and config::source_paths of a project.
Holds(dir, path) == IsPrefix(dir, path)
Longest(dirs)    == CHOOSE d \in dirs : \A e \in dirs : Len(e) <= Len(d)
Owner(ps, path)  ==
  LET owners == {p \in ToSet(ps) : Holds(p.dir, path)}
  IN  CHOOSE p \in owners : \A q \in owners : Len(q.dir) <= Len(p.dir)
Owned(ps, path)  == \E p \in ToSet(ps) : Holds(p.dir, path)
SourcePaths(p)   == {p.dir \o root : root \in p.declared \cup {<<"src">>, <<"test">>}}

\* ns_for_path: the components below the longest root, each of which must be a
\* segment; <<>> for None.
NsForPath(path, roots) ==
  LET holding  == {r \in roots : Holds(r, path)}
      below    == SubSeq(path, Len(Longest(holding)) + 1, Len(path))
      segments == [i \in DOMAIN below |-> NsSegment[below[i]]]
  IN  IF holding = {} \/ below = <<>> \/ NoSegment \in ToSet(segments) \/ segments \in Literals
      THEN <<>> ELSE segments

\* ns_for_new_file: an open buffer outranks the disk.
TextOf(f) == IF buffer[f] = "closed" THEN disk[f] ELSE buffer[f]
NsForNewFile(ps, f) ==
  IF f \in Clojure /\ TextOf(f) = "empty" /\ Owned(ps, Path[f])
  THEN NsForPath(Path[f], SourcePaths(Owner(ps, Path[f]))) ELSE <<>>

-----------------------------------------------------------------------------
(* did_create_files *)

Step(h, to) == phase' = [phase EXCEPT ![h] = to]

DidCreateFiles(h) ==
  /\ phase[h] = "told"
  /\ Step(h, IF rooted THEN "wait" ELSE "done")
  /\ UNCHANGED <<rooted, projects, ready, disk, buffer, remaining, list, sent, early, typed>>

\* Mutant: the list is taken as it is.
WaitOverAtOnce == TRUE
WaitOver == ready

TakeList(h) ==
  /\ phase[h] = "wait" /\ WaitOver
  /\ Step(h, "next") /\ list' = [list EXCEPT ![h] = projects]
  /\ UNCHANGED <<rooted, projects, ready, disk, buffer, remaining, sent, early, typed>>

\* PROJECTS_READY_TIMEOUT
TimeOut(h) ==
  /\ phase[h] = "wait" /\ ~ready
  /\ Step(h, "next") /\ list' = [list EXCEPT ![h] = projects]
  /\ early' = early \cup {h}
  /\ UNCHANGED <<rooted, projects, ready, disk, buffer, remaining, sent, typed>>

NextFile(h) ==
  LET f == Head(remaining[h])
      ns == NsForNewFile(list[h], f)
  IN  /\ phase[h] = "next" /\ remaining[h] # <<>>
      /\ IF ns = <<>>
         THEN remaining' = [remaining EXCEPT ![h] = Tail(@)] /\ UNCHANGED <<phase, sent>>
         ELSE /\ sent' = [sent EXCEPT ![h] = Append(@, [file |-> f, ns |-> ns, onto |-> TextOf(f)])]
              /\ Step(h, "asked") /\ UNCHANGED remaining
      /\ UNCHANGED <<rooted, projects, ready, disk, buffer, list, early, typed>>

\* The client made the edit, in the open buffer or by opening one, or did not;
\* either way the handler goes on.
EditAnswered(h) ==
  LET f == Head(remaining[h]) IN
  /\ phase[h] = "asked"
  /\ Step(h, "next") /\ remaining' = [remaining EXCEPT ![h] = Tail(@)]
  /\ buffer' \in {buffer, [buffer EXCEPT ![f] = "text"]}
  /\ UNCHANGED <<rooted, projects, ready, disk, list, sent, early, typed>>

Done(h) ==
  /\ phase[h] = "next" /\ remaining[h] = <<>>
  /\ Step(h, "done")
  /\ UNCHANGED <<rooted, projects, ready, disk, buffer, remaining, list, sent, early, typed>>

-----------------------------------------------------------------------------
(* Startup's detection, later applications of the settings, and the user.    *)

Detect ==
  /\ rooted /\ projects = <<>>
  /\ projects' \in ProjectLists
  /\ UNCHANGED <<rooted, ready, disk, buffer, phase, remaining, list, sent, early, typed>>

SendReady ==
  /\ projects # <<>> /\ ~ready /\ ready' = TRUE
  /\ UNCHANGED <<rooted, projects, disk, buffer, phase, remaining, list, sent, early, typed>>

Reconfigure ==
  /\ ready /\ projects' \in ProjectLists \ {projects}
  /\ UNCHANGED <<rooted, ready, disk, buffer, phase, remaining, list, sent, early, typed>>

UserStep == UNCHANGED <<rooted, projects, ready, phase, remaining, list, sent, early>>
OpenNew(f)  == buffer[f] = "closed" /\ buffer' = [buffer EXCEPT ![f] = disk[f]] /\ UNCHANGED <<disk, typed>> /\ UserStep
TypeInto(f) == /\ buffer[f] = "empty" /\ buffer' = [buffer EXCEPT ![f] = "text"]
               /\ typed' = typed \cup {f} /\ UNCHANGED disk /\ UserStep
SaveNew(f)  == /\ buffer[f] # "closed" /\ disk[f] # buffer[f] /\ disk' = [disk EXCEPT ![f] = buffer[f]]
               /\ UNCHANGED <<buffer, typed>> /\ UserStep
CloseNew(f) == buffer[f] # "closed" /\ buffer' = [buffer EXCEPT ![f] = "closed"] /\ UNCHANGED <<disk, typed>> /\ UserStep

\* A copy in the explorer is a new file with a text.
NewFilesInit ==
  /\ rooted \in BOOLEAN /\ projects = <<>> /\ ready = FALSE
  /\ disk \in [NewFileNames -> {"empty", "text"}]
  /\ buffer = [f \in NewFileNames |-> "closed"]
  /\ phase = [h \in DOMAIN Batches |-> "told"] /\ remaining = Batches
  /\ list = [h \in DOMAIN Batches |-> <<>>] /\ sent = [h \in DOMAIN Batches |-> <<>>]
  /\ early = {} /\ typed = {f \in NewFileNames : disk[f] = "text"}

NewFilesNext ==
  \/ \E h \in DOMAIN Batches :
       \/ DidCreateFiles(h) \/ TakeList(h) \/ TimeOut(h)
       \/ NextFile(h) \/ EditAnswered(h) \/ Done(h)
  \/ Detect \/ SendReady \/ Reconfigure
  \/ \E f \in NewFileNames : OpenNew(f) \/ TypeInto(f) \/ SaveNew(f) \/ CloseNew(f)

NewFilesSpec == NewFilesInit /\ [][NewFilesNext]_newFileVars

-----------------------------------------------------------------------------
(* Properties. *)

\* The convention, from the other side: a namespace is in the file that its
\* segments name below a source root, and no deeper root of the innermost
\* project would give the file a shorter one.
NamesBelow(ns, path, ps, p, root) ==
  /\ Len(path) = Len(root) + Len(ns) /\ Holds(root, path)
  /\ \A i \in DOMAIN ns : ns[i] # NoSegment /\ ns[i] = NsSegment[path[Len(root) + i]]
  /\ ns \notin Literals
  /\ \A q \in ToSet(ps) : Holds(q.dir, path) => Len(q.dir) <= Len(p.dir)
  /\ \A other \in SourcePaths(p) : Holds(other, path) => Len(other) <= Len(root)
Names(ns, path, ps) ==
  \E p \in ToSet(ps) : \E root \in SourcePaths(p) : NamesBelow(ns, path, ps, p, root)

FilesOf(h) == {e.file : e \in ToSet(sent[h])}

\* The edits are of the client's files, in the client's order, and each of a
\* file of its own.
InOrder(h) ==
  /\ FilesOf(h) \subseteq ToSet(Batches[h])
  /\ \A i, j \in DOMAIN sent[h] : i < j =>
       \E a, b \in DOMAIN Batches[h] :
         a < b /\ Batches[h][a] = sent[h][i].file /\ Batches[h][b] = sent[h][j].file

\* A file that stays empty, and whose path asks for a namespace.
Wants(h, f) ==
  /\ f \in Clojure \ typed
  /\ \E p \in ToSet(list[h]) : \E root \in SourcePaths(p) : \E n \in 1..Len(Path[f]) :
       /\ Len(root) + n = Len(Path[f])
       /\ Names([i \in 1..n |-> NsSegment[Path[f][Len(root) + i]]], Path[f], list[h])

\* Every new file that stays empty gets the ns form that its path asks for and
\* gets it once, in the client's order, even when it was reported before the
\* projects were known, unless the wait timed out; a file that the server knows
\* to have a text, typed while earlier edits were under way or copied, gets
\* none. (The answer of an edit is not in order with what the user types: what
\* arrives while it is under way is between the user and the editor.)
NewFilesGetTheirNs ==
  \A h \in DOMAIN Batches :
    /\ InOrder(h)
    /\ \A e \in ToSet(sent[h]) : e.onto = "empty" /\ Names(e.ns, Path[e.file], list[h])
    /\ phase[h] = "done" /\ rooted /\ h \notin early =>
         /\ list[h] # <<>>
         /\ \A f \in ToSet(Batches[h]) : Wants(h, f) => f \in FilesOf(h)
=============================================================================
