---------------------------- MODULE SymbolIndex ----------------------------
(***************************************************************************)
(* The symbol index of clj-pulse: which file's definition answers for a    *)
(* fully qualified name, and which file's metadata for a namespace.        *)
(*                                                                         *)
(* Each name and each namespace has a primary slot and a shadow slot; the  *)
(* shadow keeps the ClojureScript copy a Clojure one displaced. Project    *)
(* files are indexed and removed one at a time (open, save, watcher, and   *)
(* merge_project_from, which is a sequence of the two); library files are  *)
(* added one at a time and leave all at once.                              *)
(*                                                                         *)
(* The index is one record, and each operation of the code a function from *)
(* index to index, so that an operation that calls another is written so.  *)
(***************************************************************************)
EXTENDS Integers, Sequences, FiniteSets, FiniteSetsExt, SequencesExt

CONSTANTS
  Files,       \* source files that can be indexed as project files
  LibFiles,    \* files the classpath can contribute
  EdnFiles,    \* Integrant config files
  Dialect,     \* [Files \cup LibFiles -> 0..2]: .clj 0, .cljs 2, others 1
  Nss,         \* namespaces
  Names,       \* what a file can define
  Contents,    \* what each file can say: its namespace, by ns or in-ns form,
               \* its names, and its uses of the one keyword that is counted
  MaxUses,     \* bound: keyword uses in a file
  None,        \* nothing there
  EdnNs        \* EDN_NS_SENTINEL

Sources == Files \cup LibFiles
Paths   == Sources \cup EdnFiles
Fqns    == Nss \X Names

\* A file's definition of a name; its metadata of its namespace; FileRecord.
Symbols == [file : Sources, project : BOOLEAN]
Metas   == [file : Sources, inNs : BOOLEAN]
Records == [ns : Nss, inNs : BOOLEAN, fqns : SUBSET Fqns]

ASSUME IndexAssumption ==
  /\ Dialect \in [Sources -> 0..2]
  /\ MaxUses \in Nat
  /\ Contents \in [Sources ->
        SUBSET [ns : Nss, inNs : BOOLEAN, names : SUBSET Names, uses : 0..MaxUses]]
  /\ IsFiniteSet(Paths) /\ EdnFiles \cap Sources = {}
  /\ None \notin Paths /\ None \notin Nss \cup {EdnNs}
  /\ None \notin Nat /\ \A list \in SUBSET Fqns : list # None
  /\ None \notin Symbols /\ None \notin Metas /\ None \notin Records
  /\ EdnNs \notin Nss /\ Nss \cap Fqns = {}

VARIABLES
  index,     \* the Index
  collided,  \* history: the names (and namespaces) two project files of one
             \* dialect have both defined at some moment since the last time
             \* none did
  forgotten, \* history: the namespaces one of whose indexed files has lost its
             \* entry of file_to_ns
  strayed    \* history: the namespaces one of whose files the library has had
             \* under another namespace, or with the other form

vars == <<index, collided, forgotten, strayed>>

\* What a file of content c defines.
FqnsOf(c) == {c.ns} \X c.names

\* A slot pair: a map's entry and the shadow map's for the same key.
EmptySlot == [primary |-> None, shadow |-> None]

-----------------------------------------------------------------------------
(* Ranks: lower wins. *)

SlotRank(project, f) == IF project THEN Dialect[f] ELSE 3 + Dialect[f]
InNsRank             == 6
IsCljsRank(r)        == r % 3 = 2

\* Project files are those with an occurrences entry.
IsProjectPath(ix, f) == ix.occurrences[f] # None

SymbolRank(s) == SlotRank(s.project, s.file)
\* Variant: an in-ns file ranks like any other.
MetaRankInNsAsNs(ix, m) == SlotRank(IsProjectPath(ix, m.file), m.file)
MetaRank(ix, m) == IF m.inNs THEN InNsRank ELSE SlotRank(IsProjectPath(ix, m.file), m.file)

\* rank, below, is how the values of a map rank: of symbols, or of metadata.
SymbolRanks   == [s \in Symbols |-> SymbolRank(s)]
MetaRanks(ix) == [m \in Metas |-> MetaRank(ix, m)]

\* Variant: whatever comes last is kept aside.
ShadowInsertAlways(shadow, v, rank) == v

\* shadow_insert
ShadowInsert(shadow, v, rank) ==
  IF shadow # None /\ rank[shadow] < rank[v] THEN shadow ELSE v

\* Variant: the displaced ClojureScript copy is dropped.
RankInsertNoShadow(slot, v, rank) ==
  IF slot.primary = None \/ rank[v] <= rank[slot.primary] THEN [slot EXCEPT !.primary = v]
  ELSE IF IsCljsRank(rank[v])
       THEN [slot EXCEPT !.shadow = ShadowInsert(@, v, rank)] ELSE slot

\* rank_insert
RankInsert(slot, v, rank) ==
  LET old == slot.primary IN
  IF old = None THEN [slot EXCEPT !.primary = v]
  ELSE IF rank[v] <= rank[old]
  THEN [primary |-> v,
        shadow  |-> IF IsCljsRank(rank[old]) /\ ~IsCljsRank(rank[v])
                    THEN ShadowInsert(slot.shadow, old, rank) ELSE slot.shadow]
  ELSE IF IsCljsRank(rank[v])
       THEN [slot EXCEPT !.shadow = ShadowInsert(@, v, rank)] ELSE slot

\* Variant: a file's entry in the shadow is forgotten.
RemoveSlotPrimaryOnly(slot, f) ==
  IF slot.primary # None /\ slot.primary.file = f
  THEN [primary |-> slot.shadow, shadow |-> None] ELSE slot

\* remove_slot: the shadow moves up when the primary was the file's.
RemoveSlot(slot, f) ==
  IF slot.primary # None /\ slot.primary.file = f
  THEN [primary |-> slot.shadow, shadow |-> None]
  ELSE IF slot.shadow # None /\ slot.shadow.file = f
       THEN [slot EXCEPT !.shadow = None] ELSE slot

InsertSymbols(ix, fqns, s) ==
  [q \in Fqns |-> IF q \in fqns THEN RankInsert(ix.symbols[q], s, SymbolRanks)
                  ELSE ix.symbols[q]]

InsertMeta(ix, n, m) == [ix EXCEPT !.namespaces[n] = RankInsert(@, m, MetaRanks(ix))]

\* Variant: the last file's names replace the others'.
ExtendNsSymbolsReplace(ix, n, fqns) == [ix EXCEPT !.ns_symbols[n] = fqns]

\* extend_ns_symbols; the list's order is not modelled.
ExtendNsSymbols(ix, n, fqns) ==
  [ix EXCEPT !.ns_symbols[n] = IF @ = None THEN fqns ELSE @ \cup fqns]

\* refill_namespace: the metadata of the namespace's remaining files, in the
\* order they were indexed.
RefillWith(ix, slot, f) ==
  IF ix.files[f] = None THEN slot
  ELSE RankInsert(slot, [file |-> f, inNs |-> ix.files[f].inNs], MetaRanks(ix))

RefilledSlot(ix, n) ==
  LET paths == ix.ns_files[n]
      refill[i \in 0..Len(paths)] == IF i = 0 THEN ix.namespaces[n]
                                     ELSE RefillWith(ix, refill[i - 1], paths[i])
  IN  refill[Len(paths)]

RefillNamespace(ix, n) == [ix EXCEPT !.namespaces[n] = RefilledSlot(ix, n)]

Uses(ix, f) == IF ix.occurrences[f] = None THEN 0 ELSE ix.occurrences[f]

\* sub_keyword_counts saturates.
SubCount(count, uses) == IF uses > count THEN 0 ELSE count - uses

\* replace_occurrences, and the counts in step with it.
ReplaceOccurrences(ix, f, uses) ==
  [ix EXCEPT !.occurrences[f] = uses,
             !.keyword_count = SubCount(@ + uses, Uses(ix, f))]

-----------------------------------------------------------------------------
(* remove_file *)

\* The part that depends on the namespace the file was registered under.
RemoveFromNs(ix, f, n, fqns) ==
  LET slots   == [ix EXCEPT
                    !.symbols = [q \in Fqns |-> IF q \in fqns THEN RemoveSlot(@[q], f) ELSE @[q]],
                    !.namespaces[n] = RemoveSlot(@, f)]
      filled  == IF slots.namespaces[n].primary = None THEN RefillNamespace(slots, n) ELSE slots
      list    == ix.ns_symbols[n]
      defined == {q \in list : filled.symbols[q].primary # None}
  IN  IF list = None THEN filled
      ELSE [filled EXCEPT !.ns_symbols[n] =
              IF defined = {} /\ filled.namespaces[n].primary = None THEN None ELSE defined]

RemoveFile(ix, f) ==
  LET record == ix.files[f]
      n      == ix.file_to_ns[f]
      others == IF record = None THEN ix.ns_files
                ELSE [ix.ns_files EXCEPT ![record.ns] = RemoveFirst(@, f)]
      gone   == [ix EXCEPT !.occurrences[f] = None,
                           !.keyword_count = SubCount(@, Uses(ix, f)),
                           !.files[f] = None,
                           !.ns_files = others,
                           !.file_to_ns[f] = None]
      fqns   == IF record # None THEN record.fqns
                ELSE IF ix.ns_symbols[n] # None THEN ix.ns_symbols[n] ELSE {}
  IN  IF n \in {None, EdnNs} THEN gone ELSE RemoveFromNs(gone, f, n, fqns)

-----------------------------------------------------------------------------
(* insert_file, insert_edn_file, insert_lib_file, clear_libs *)

InsertFile(ix, f, c) ==
  LET clean == IF ix.files[f] # None THEN RemoveFile(ix, f) ELSE ix
      occ   == ReplaceOccurrences(clean, f, c.uses)
      syms  == [occ EXCEPT !.symbols =
                  InsertSymbols(occ, FqnsOf(c), [file |-> f, project |-> TRUE])]
      rec   == [ExtendNsSymbols(syms, c.ns, FqnsOf(c)) EXCEPT
                  !.file_to_ns[f] = c.ns,
                  !.files[f] = [ns |-> c.ns, inNs |-> c.inNs, fqns |-> FqnsOf(c)],
                  !.ns_files[c.ns] = Append(@, f)]
  IN  InsertMeta(rec, c.ns, [file |-> f, inNs |-> c.inNs])

InsertEdnFile(ix, f, uses) ==
  [ReplaceOccurrences(ix, f, uses) EXCEPT !.file_to_ns[f] = EdnNs]

\* A namespace a project `ns` form owns takes nothing from a library.
OwnedByProject(ix, n) ==
  LET m == ix.namespaces[n].primary
  IN  m # None /\ ~m.inNs /\ IsProjectPath(ix, m.file)

\* Variant: a library file is recorded as a file of its namespace too.
InsertLibFileRecorded(ix, f, c) ==
  LET syms == [ix EXCEPT !.symbols =
                 InsertSymbols(ix, FqnsOf(c), [file |-> f, project |-> FALSE])]
  IN  InsertMeta([ExtendNsSymbols(syms, c.ns, FqnsOf(c)) EXCEPT
                    !.file_to_ns[f] = c.ns, !.ns_files[c.ns] = Append(@, f)],
                 c.ns, [file |-> f, inNs |-> c.inNs])

InsertLibFile(ix, f, c) ==
  LET syms == [ix EXCEPT !.symbols =
                 InsertSymbols(ix, FqnsOf(c), [file |-> f, project |-> FALSE])]
      rec  == [ExtendNsSymbols(syms, c.ns, FqnsOf(c)) EXCEPT !.file_to_ns[f] = c.ns]
  IN  IF OwnedByProject(ix, c.ns) THEN ix
      ELSE InsertMeta(rec, c.ns, [file |-> f, inNs |-> c.inNs])

KeepIf(own, v) == IF own THEN v ELSE None

OwnSymbol(s)   == s # None /\ s.project
OwnMeta(ix, m) == m # None /\ IsProjectPath(ix, m.file)

\* Variant: the slot a library's metadata leaves stays empty.
DropForeignNoRefill(ix) ==
  [ix EXCEPT !.namespaces =
     [n \in Nss |-> IF @[n].primary # None /\ ~OwnMeta(ix, @[n].primary)
                    THEN [@[n] EXCEPT !.primary = None] ELSE @[n]]]

\* A namespace kept for its project symbols can hold a library's metadata:
\* that is dropped and the project files refill the slot.
DropForeign(ix) ==
  LET Foreign(n) == ix.namespaces[n].primary # None /\ ~OwnMeta(ix, ix.namespaces[n].primary)
      emptied    == [ix EXCEPT !.namespaces =
                       [n \in Nss |-> IF Foreign(n) THEN [@[n] EXCEPT !.primary = None]
                                      ELSE @[n]]]
  IN  [ix EXCEPT !.namespaces =
         [n \in Nss |-> IF Foreign(n) THEN RefillNamespace(emptied, n).namespaces[n] ELSE @[n]]]

\* clear_libs, in the code's order: the symbols, the shadow metadata, the lists
\* that decide which namespaces stay, their metadata, and the paths.
ClearLibs(ix) ==
  LET Keep(s)  == KeepIf(OwnSymbol(s), s)
      syms     == [q \in Fqns |-> [primary |-> Keep(ix.symbols[q].primary),
                                   shadow  |-> Keep(ix.symbols[q].shadow)]]
      Stays(n) == LET list == ix.ns_symbols[n] IN
                  /\ list # None
                  /\ \/ \E q \in list : syms[q].primary # None
                     \/ list = {} /\ OwnMeta(ix, ix.namespaces[n].primary)
      kept     == DropForeign([ix EXCEPT
                    !.symbols    = syms,
                    !.ns_symbols = [n \in Nss |-> KeepIf(Stays(n), @[n])],
                    !.namespaces = [n \in Nss |->
                       [primary |-> KeepIf(Stays(n), @[n].primary),
                        shadow  |-> KeepIf(OwnMeta(ix, @[n].shadow), @[n].shadow)]]])
  IN  [kept EXCEPT !.file_to_ns = [f \in Paths |->
         IF @[f] \in Nss /\ kept.namespaces[@[f]].primary # None THEN @[f] ELSE None]]

-----------------------------------------------------------------------------
(* What the rest of the server asks. *)

\* lookup_for: a .cljs asker gets the shadow, unless that is a library's and
\* the primary is the project's.
LookupFor(ix, q, cljs) ==
  LET slot == ix.symbols[q]
  IN  IF ~cljs \/ slot.shadow = None THEN slot.primary
      ELSE IF slot.primary # None /\ slot.primary.project /\ ~slot.shadow.project
           THEN slot.primary ELSE slot.shadow

\* lookup_all
LookupAll(ix, q) == {ix.symbols[q].primary, ix.symbols[q].shadow} \ {None}

\* The project files that define q, and whether they are at most one file of
\* each dialect.
Definers(ix, q) == {f \in Files : ix.files[f] # None /\ q \in ix.files[f].fqns}
NsFiles(ix, n)  == {f \in Files : /\ ix.files[f] # None /\ ix.files[f].ns = n
                                  /\ ~ix.files[f].inNs}
Claimants(ix, k) == IF k \in Nss THEN NsFiles(ix, k) ELSE Definers(ix, k)
Cljs(f)         == IsCljsRank(Dialect[f])
Twins(S)        == \A f, g \in S : f # g => Cljs(f) # Cljs(g)

\* A file can be open and come from a library's directory as well, with another
\* content: then n has it both ways, in the records of indexed files, in
\* file_to_ns and in the metadata, or shares it with another namespace.
MetasOf(ix, f, n) ==
  {m \in {ix.namespaces[n].primary, ix.namespaces[n].shadow} : m # None /\ m.file = f}

Homes(ix, f) ==
  {n \in Nss : \/ ix.file_to_ns[f] = n
               \/ ix.files[f] # None /\ ix.files[f].ns = n
               \/ MetasOf(ix, f, n) # {}}

HasStray(ix, n) ==
  \E f \in Files : /\ n \in Homes(ix, f)
                   /\ \/ Homes(ix, f) # {n}
                      \/ /\ ix.files[f] # None
                         /\ \E m \in MetasOf(ix, f, n) : m.inNs # ix.files[f].inNs

-----------------------------------------------------------------------------
Init ==
  /\ index = [symbols       |-> [q \in Fqns |-> EmptySlot],
              namespaces    |-> [n \in Nss |-> EmptySlot],
              ns_symbols    |-> [n \in Nss |-> None],
              files         |-> [f \in Paths |-> None],
              ns_files      |-> [n \in Nss |-> <<>>],
              file_to_ns    |-> [f \in Paths |-> None],
              occurrences   |-> [f \in Paths |-> None],
              keyword_count |-> 0]
  /\ collided = {}
  /\ forgotten = {} /\ strayed = {}

Becomes(ix) ==
  /\ index' = ix
  /\ collided' = {k \in Fqns \cup Nss : /\ Claimants(ix, k) # {}
                                      /\ (k \in collided \/ ~Twins(Claimants(ix, k)))}
  /\ forgotten' = forgotten \cup {n \in Nss : \E f \in Files :
                       /\ ix.files[f] # None /\ ix.files[f].ns = n
                       /\ ix.file_to_ns[f] # n}
  /\ strayed' = strayed \cup {n \in Nss : HasStray(ix, n)}

\* did_open indexes a file that is not registered yet, without removing it.
OpenFile(f, c) == index.file_to_ns[f] = None /\ Becomes(InsertFile(index, f, c))

\* did_save, the file watcher and each file of merge_project_from.
ReindexFile(f, c) == Becomes(InsertFile(RemoveFile(index, f), f, c))

\* A deleted file, one that no longer parses or is no longer an Integrant
\* config, and the files a merge finds stale.
ForgetFile(f) == Becomes(RemoveFile(index, f))

OpenEdn(f, uses)    == index.file_to_ns[f] = None /\ Becomes(InsertEdnFile(index, f, uses))
ReindexEdn(f, uses) == Becomes(InsertEdnFile(RemoveFile(index, f), f, uses))

IndexLib(f, c) == Becomes(InsertLibFile(index, f, c))
RebuildLibs    == Becomes(ClearLibs(index))

Next ==
  \/ \E f \in Files : \E c \in Contents[f] : OpenFile(f, c) \/ ReindexFile(f, c)
  \/ \E f \in Files \cup EdnFiles : ForgetFile(f)
  \/ \E f \in EdnFiles : \E uses \in 0..MaxUses : OpenEdn(f, uses) \/ ReindexEdn(f, uses)
  \/ \E f \in LibFiles : \E c \in Contents[f] : IndexLib(f, c)
  \/ RebuildLibs

Spec == Init /\ [][Next]_vars

-----------------------------------------------------------------------------
Slots(Vals) == [primary : Vals \cup {None}, shadow : Vals \cup {None}]

Indexes ==
  [symbols       : [Fqns -> Slots(Symbols)],
   namespaces    : [Nss -> Slots(Metas)],
   ns_symbols    : [Nss -> (SUBSET Fqns) \cup {None}],
   files         : [Paths -> Records \cup {None}],
   ns_files      : [Nss -> Seq(Files)],
   file_to_ns    : [Paths -> Nss \cup {None, EdnNs}],
   occurrences   : [Paths -> (0..MaxUses) \cup {None}],
   keyword_count : Nat]

\* Every map holds what it is meant to; the counter never goes below zero.
TypeOK ==
  /\ index \in Indexes
  /\ collided \subseteq Fqns \cup Nss
  /\ forgotten \subseteq Nss /\ strayed \subseteq Nss

\* Every key of the shadow map is a key of the primary map: a plain lookup never
\* finds nothing where the slots still hold something.
ShadowHasPrimary ==
  \A q \in Fqns : index.symbols[q].shadow # None => index.symbols[q].primary # None

\* A project definition is in a slot only while its file is indexed and
\* defines it: nothing of a removed or rewritten file is left behind. Not so
\* when a library's copy of the file has named another namespace meanwhile:
\* clear_libs then forgets the file, and remove_file what it defines.
NoGhosts ==
  \A q \in Fqns : q[1] \notin strayed =>
    \A s \in LookupAll(index, q) : s.project => s.file \in Definers(index, q)

\* What the slots hold of a name is true of the indexed files, and what is left
\* is in the slot that a lookup asks first. That every definition is in a slot is
\* EveryDefinitionFound, and true of undisputed names only.
SlotsAreTrue == ShadowHasPrimary /\ NoGhosts

\* The names that no two files of one dialect have fought over, of namespaces
\* no file has strayed from.
Undisputed == {q \in Fqns \ collided : q[1] \notin strayed}

\* References and rename see every definition of an undisputed name.
EveryDefinitionFound ==
  \A q \in Undisputed :
    Definers(index, q) \subseteq {s.file : s \in LookupAll(index, q)}

\* An asker of either dialect gets a project definition when there is one, and
\* the one of its own dialect when there is that, whatever the order in which
\* the files and the libraries came and went.
EachAskerGetsItsOwn ==
  \A q \in Undisputed : \A cljs \in BOOLEAN :
    Definers(index, q) # {} =>
      LET s == LookupFor(index, q, cljs)
      IN  /\ s.project
          /\ \A f \in Definers(index, q) : Cljs(f) = cljs => s.file = f

\* Completion's list of a namespace has every name of it that is defined.
EverySymbolListed ==
  \A q \in Fqns : index.symbols[q].primary # None =>
    index.ns_symbols[q[1]] # None /\ q \in index.ns_symbols[q[1]]

\* ns_files is the inverse of files, each file once: what refills a metadata
\* slot is every remaining file and no removed one.
FilesGrouped ==
  \A n \in Nss :
    LET paths == index.ns_files[n]
    IN  /\ {paths[i] : i \in DOMAIN paths}
             = {f \in Files : index.files[f] # None /\ index.files[f].ns = n}
        /\ \A i, j \in DOMAIN paths : paths[i] = paths[j] => i = j

\* The count completion ranks by is the number of uses in the indexed files.
CountsAgree ==
  index.keyword_count = MapThenSumSet(LAMBDA f : Uses(index, f), Paths)

\* The tables that say the same thing twice agree, after every order of inserts,
\* rewrites and removals: names and their lists, files and their groups, uses
\* and their counts.
TablesAgree == EverySymbolListed /\ FilesGrouped /\ CountsAgree

\* The metadata of a namespace comes from a project file with an ns form when
\* there is one, unless two such files of one dialect fought over it,
\* clear_libs forgot a file of it, or a library had another copy of one.
NsFormHoldsTheSlot ==
  \A n \in Nss \ (collided \cup forgotten \cup strayed) :
    NsFiles(index, n) # {} => OwnedByProject(index, n)

\* The same without the exceptions: every project file outranks every library
\* file, and clear_libs keeps what the project has.
ProjectOutranksLibraries ==
  \A n \in Nss : NsFiles(index, n) # {} => OwnedByProject(index, n)

\* Whether the project defines a name of n.
HasProjectName(ix, n) == \E q \in Fqns : q[1] = n /\ \E s \in LookupAll(ix, q) : s.project

\* The metadata that answers for n is the project's after clear_libs, and what it
\* was if it was the project's before; not so where a file has strayed.
NsSurvives(n) ==
  LET before == index.namespaces[n].primary
      after  == index'.namespaces[n].primary
  IN  /\ OwnMeta(index, before) => after = before
      /\ n \notin strayed => OwnMeta(index', after)

\* clear_libs takes the libraries and only them: every library definition and no
\* project one, and all metadata of files the project does not have; a namespace
\* in which the project defines a name goes on with the project's metadata. (One
\* without project names may not: ProjectOutranksLibraries.)
LibsLeave ==
  [][RebuildLibs =>
       /\ \A q \in Fqns : LookupAll(index', q) = {s \in LookupAll(index, q) : s.project}
       /\ \A n \in Nss : \A m \in {index'.namespaces[n].primary, index'.namespaces[n].shadow} :
            m # None => IsProjectPath(index', m.file)
       /\ \A n \in Nss : HasProjectName(index, n) => NsSurvives(n)]_vars
=============================================================================
