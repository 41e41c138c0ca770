------------------------------ MODULE Renames ------------------------------
(***************************************************************************)
(* References and rename (src/handlers/references.rs) over the files of a  *)
(* workspace: locals, require aliases, keywords and vars.                  *)
(*                                                                         *)
(* A file is open in the editor or as it is on disk; the index holds what  *)
(* it last read of each (SymbolIndex), the document store answers with the *)
(* analysis of the live text (DocumentStore).  The user renames from any   *)
(* token of a project file, the editor applies the edits, which leaves the *)
(* files it touched open and unsaved, and the user saves them.  A var is   *)
(* <<ns, name>>, a keyword <<":", ns, name>>.                              *)
(***************************************************************************)
EXTENDS LocalScopes, NsForms

CONSTANTS
  Files, LibFiles, EdnFiles,  \* every file, those of libraries, those of EDN data
  Dialect,                    \* "clj" or "cljs" of a file
  Workspaces,                 \* the contents to begin with: [Files -> placed form]
  NewNames,                   \* names asked for
  MaxRenames,                 \* bound: renames in a behaviour
  Core, LintAs, LintForms,    \* what extraction is configured with
  Extract(_, _),              \* the extractor's entry points, which the handlers
  NsMetaAt(_, _),             \* call: Analysis, NsMetaOfTree, AliasAt, AliasSites of
  AliasNamedAt(_, _),         \* NsForms, LocalReferences, Captured, Agree of LocalScopes
  AliasSitesAt(_, _, _),
  LocalReferencesAt(_, _, _, _),
  CapturedAt(_, _, _, _),
  AgreeAt(_, _, _, _, _)

ASSUME WorkspaceAssumption == LibFiles \subseteq Files /\ EdnFiles \subseteq Files /\ MaxRenames \in Nat

VARIABLES
  live,    \* the text of each file, as a tree
  open,    \* files with a buffer
  cached,  \* the analysis of each live text
  index,   \* the analysis the index last read of each file
  last,    \* the last rename: what it was asked for and to which name
  renames  \* how many there were

renameVars == <<live, open, cached, index, last, renames>>

\* One file read: an EDN configuration has its keywords alone.
Read(f, tree) ==
  IF f \in EdnFiles
  THEN [meta |-> NoMeta, symbols |-> {}, cx |-> ScratchCx,
        events |-> IF IsIntegrantEdn(tree) THEN EdnKeywords(tree) ELSE <<>>]
  ELSE Extract(tree, [dialect |-> Dialect[f], lintAs |-> LintAs, lintForms |-> LintForms, core |-> Core])

\* What a question about f is answered from.
Known(f) == IF f \in open THEN cached[f] ELSE index[f]
IsProject(f) == f \notin LibFiles

-----------------------------------------------------------------------------
(* The index's answers; table is the analyses it holds. *)

\* A file keeps one slot per name, the last it defines; a defmethod has none.
SymbolsOf(table, f, fqn) == {s \in table[f].symbols : s.fqn = fqn /\ s.kind # "defmethod"}
Holders(table, fqn) == {f \in Files : SymbolsOf(table, f, fqn) # {}}

\* lookup_for: a project's definition before a library's, then the asker's dialect.
LookupFor(table, fqn, dialect) ==
  LET here    == Holders(table, fqn)
      project == {f \in here : IsProject(f)}
      best    == IF project = {} THEN here ELSE project
      own     == {f \in best : Dialect[f] = dialect}
  IN  IF own = {} THEN best ELSE own
LookupAll(table, fqn) == LookupFor(table, fqn, "clj") \cup LookupFor(table, fqn, "cljs")

IsLibraryNamespace(table, ns) ==
  LET owners == {f \in Files : table[f].meta.name = ns} IN owners # {} /\ owners \subseteq LibFiles

\* refer_all_target: the first namespace that has a public var of the name.
ReferAllTarget(table, ns, referAll, name, dialect) ==
  LET Public(n) == \E f \in LookupFor(table, <<n, name>>, dialect) :
                     \E s \in SymbolsOf(table, f, <<n, name>>) : s.kind # "defn-"
      hits == SelectSeq(referAll, Public)
  IN  IF LookupFor(table, <<ns, name>>, dialect) # {} \/ hits = <<>> THEN "" ELSE hits[1]

\* with_referred_fqns: a bare call that the walk filed under the file's own
\* namespace is of the var its :refer :all reaches, unless the live file
\* defines the name.
IsBare(tree, at) == ~\E n \in EveryForm(tree) : NameRange(n) = at /\ n.ns # ""
WithReferredFqn(table, f, tree, analysis, occ) ==
  LET meta    == analysis.meta
      target  == ReferAllTarget(table, meta.name, meta.refer_all, occ.fqn[2], Dialect[f])
      defines == \E s \in analysis.symbols : s.kind # "defmethod" /\ s.fqn = occ.fqn
  IN  IF \/ meta.refer_all = <<>> \/ occ.fqn[1] # meta.name \/ meta.name = ""
         \/ defines \/ target = "" \/ ~IsBare(tree, occ.at)
      THEN occ.fqn ELSE <<target, occ.fqn[2]>>

Fqn(f, occ) == WithReferredFqn(index, f, live[f], Known(f), occ)

\* occurrences_for: a buffer's own, the index's of the project files not open.
SitesAsFiled(f, fqn) ==
  IF f \notin open /\ f \in LibFiles THEN {} ELSE {o.at : o \in {p \in Occs(Known(f)) : p.fqn = fqn}}
Sites(f, fqn) ==
  IF f \notin open /\ f \in LibFiles THEN {}
  ELSE {o.at : o \in {p \in Occs(Known(f)) : Fqn(f, p) = fqn}}

-----------------------------------------------------------------------------
(* What the cursor is on. A cursor is a position on a token of an open file. *)

Within(r, pos) == r[1] <= pos /\ pos <= r[2]

\* resolve_fqn_at
ResolveFqnAt(f, n, pos) ==
  LET defs == {s \in cached[f].symbols : s.kind # "defmethod" /\ Within(s.at, pos)}
      occs == {o \in Occs(cached[f]) : Within(o.at, pos)}
  IN  CASE defs # {} -> (CHOOSE s \in defs : TRUE).fqn
        [] defs = {} /\ occs # {} -> Fqn(f, CHOOSE o \in occs : TRUE)
        [] OTHER -> IF n.k # "sym" \/ n.ns = "" \/ f \in EdnFiles THEN <<>>
                    ELSE <<Aliased(index[f].meta, n.ns), n.t>>

\* occurrence_range_at: the token of fqn the cursor is on, or is the qualifier of.
OccurrenceRangeAt(f, pos, fqn) ==
  LET sites     == {s.at : s \in {d \in cached[f].symbols : d.fqn = fqn}} \cup Sites(f, fqn)
      Qualified(r) == \E n \in EveryForm(live[f]) : NameRange(n) = r /\ n.ns # "" /\ Within(NsRange(n), pos)
      on        == {r \in sites : Within(r, pos) \/ Qualified(r)}
  IN  IF on = {} THEN <<>> ELSE CHOOSE r \in on : TRUE

\* The name the token at a range spells, "" when there is none there.
TokenAt(f, at) ==
  LET there == {n.t : n \in {m \in EveryForm(live[f]) : Leaf(m) /\ NameRange(m) = at}}
  IN  IF there = {} THEN "" ELSE CHOOSE t \in there : TRUE

-----------------------------------------------------------------------------
(* rename_target: everything that is decided before the new name is known. A *)
(* target is its kind, the old name, and the ranges the edits replace.       *)

NoTarget == [kind |-> "none", from |-> <<>>, sites |-> {}, tokens |-> {}]
Target(kind, from, sites) == [kind |-> kind, from |-> from, sites |-> sites, tokens |-> sites]
InFile(f, ranges) == {<<f, r>> : r \in ranges}

ScopeCx(f) == [cached[f].cx EXCEPT !.meta = NsMetaAt(live[f], "clj")]
LocalAt(f, n, pos) == LocalReferencesAt(live[f], ScopeCx(f), pos, n)

LocalTarget(f, refs) ==
  IF IsDestructuredKey(live[f], refs.slot) THEN NoTarget
  ELSE Target("local", refs.slot, InFile(f, refs.usages \cup {refs.slot}))

\* alias_target: the cursor is on a token that spells an alias of the ns form.
AliasTarget(f, pos) ==
  LET alias == AliasNamedAt(live[f], pos)
      sites == AliasSitesAt(live[f], alias, Occs(cached[f]))
      all   == sites.declarations \cup sites.usages
  IN  IF /\ alias \in DOMAIN cached[f].meta.aliases /\ sites.declarations # {}
         /\ \E r \in all : Within(r, pos)
      THEN Target("alias", <<alias>>, InFile(f, all)) ELSE NoTarget

\* keyword_target: all sites or none. A site is a keyword token that ends in
\* the name and binds no local; its whole token is where the cursor may be.
IsKeywordKeyEntry(tree, n) ==
  \E v \in UNION {KeyVectors(m) : m \in Evaluated(tree)} : Contains(SplitKeyEntries(v).bound, n)
KeywordTarget(fqn) ==
  LET DefsIn(f) == IF f \in open THEN {s.at : s \in {d \in cached[f].symbols : d.fqn = fqn}}
                   ELSE IF f \in LookupFor(index, fqn, "clj")
                        THEN {s.at : s \in SymbolsOf(index, f, fqn)} ELSE {}
      candidates == UNION {InFile(f, DefsIn(f) \cup Sites(f, fqn)) : f \in Files \ LibFiles}
      Named(c)   == {n \in EveryForm(live[c[1]]) : n.k = "kwd" /\ WholeRange(n) = c[2] /\ n.t = fqn[3]}
      Conforms(c) == \E n \in Named(c) : ~IsKeywordKeyEntry(live[c[1]], n)
  IN  IF \/ fqn[2] = "" \/ IsLibraryNamespace(index, fqn[2])
         \/ candidates = {} \/ \E c \in candidates : ~Conforms(c)
      THEN NoTarget
      ELSE [kind |-> "keyword", from |-> fqn, tokens |-> candidates,
            sites |-> {<<c[1], NameRange(CHOOSE n \in Named(c) : TRUE)>> : c \in candidates}]

\* live_definition_range: the first the buffer has, else where the index has it.
LiveDefinitionRange(f, fqn) ==
  LET here == {s.at : s \in {d \in cached[f].symbols : d.fqn = fqn}}
      kept == {s.at : s \in SymbolsOf(index, f, fqn)}
  IN  IF f \in open /\ here # {} THEN CHOOSE r \in here : \A q \in here : r[1] <= q[1]
      ELSE CHOOSE r \in kept : \A q \in kept : q[1] <= r[1]

\* The edits of a var: one definition in each file that is asked for one, and
\* the usages that spell its name.
VarTargetAnyToken(f, pos, fqn) ==
  LET mine == LookupFor(index, fqn, Dialect[f])
      defs == {<<d, LiveDefinitionRange(d, fqn)>> :
                 d \in {e \in LookupAll(index, fqn) \cup mine : IsProject(e)}}
      uses == UNION {InFile(g, {r \in Sites(g, fqn) : TokenAt(g, r) = fqn[2]}) : g \in Files}
  IN  IF mine = {} \/ mine \subseteq LibFiles THEN NoTarget ELSE Target("var", fqn, defs \cup uses)
VarTarget(f, pos, fqn) ==
  LET mine  == LookupFor(index, fqn, Dialect[f])
      under == OccurrenceRangeAt(f, pos, fqn)
      defs  == {<<d, LiveDefinitionRange(d, fqn)>> :
                  d \in {e \in LookupAll(index, fqn) \cup mine : IsProject(e)}}
      uses  == UNION {InFile(g, {r \in Sites(g, fqn) : TokenAt(g, r) = fqn[2]}) : g \in Files}
  IN  IF \/ mine = {} \/ mine \subseteq LibFiles
         \/ under # <<>> /\ TokenAt(f, under) # fqn[2]
      THEN NoTarget ELSE Target("var", fqn, defs \cup uses)

RenameTarget(f, n, pos) ==
  LET local == LocalAt(f, n, pos)
      alias == AliasTarget(f, pos)
      fqn   == ResolveFqnAt(f, n, pos)
  IN  CASE f \in LibFiles       -> NoTarget
        [] f \notin LibFiles /\ local # NoRefs -> LocalTarget(f, local)
        [] f \notin LibFiles /\ local = NoRefs /\ alias # NoTarget -> alias
        [] OTHER -> CASE fqn = <<>>     -> NoTarget
                      [] fqn # <<>> /\ fqn[1] = ":" -> KeywordTarget(fqn)
                      [] OTHER          -> VarTarget(f, pos, fqn)

\* prepare_rename: the range the editor offers, << >> for a refusal.
OneOf(ranges) == IF ranges = {} THEN <<>> ELSE CHOOSE r \in ranges : TRUE
Offered(f, pos, target, under) ==
  CASE target.kind = "none"  -> <<>>
    [] target.kind = "local" -> IF under = <<>> THEN target.from ELSE under
    [] target.kind = "alias" -> under
    [] target.kind = "keyword" ->
         OneOf({s[2] : s \in {t \in target.sites : t[1] = f /\ under # <<>> /\ t[2][2] = under[2]}})
    [] target.kind = "var"   -> OccurrenceRangeAt(f, pos, target.from)
PrepareRename(f, pos, target) ==
  Offered(f, pos, target, OneOf({t[2] : t \in {c \in target.tokens : c[1] = f /\ Within(c[2], pos)}}))

-----------------------------------------------------------------------------
(* rename, and the editor that applies it. *)

\* alias_capture: the new alias is one already, or would catch a name that is
\* qualified with it.
AliasCapture(f, new) ==
  \/ new \in DOMAIN cached[f].meta.aliases
  \/ AliasSitesAt(live[f], new, Occs(cached[f])).usages # {}

Allowed(f, n, pos, target, new) ==
  CASE target.kind = "none"  -> FALSE
    [] target.kind = "local" -> ~CapturedAt(live[f], ScopeCx(f), LocalAt(f, n, pos), new)
    [] target.kind = "alias" -> ~AliasCapture(f, new)
    [] OTHER                 -> TRUE

\* The file with the ranges replaced; a name is one character, so no other moves.
RECURSIVE Edited(_, _, _)
Edited(n, ranges, new) ==
  [n EXCEPT !.t  = IF (Leaf(n) \/ n.k = "nsmap") /\ NameRange(n) \in ranges THEN new ELSE @,
            !.ns = IF @ # "" /\ NsRange(n) \in ranges THEN new ELSE @,
            !.kids = [i \in DOMAIN @ |-> Edited(@[i], ranges, new)]]

RangesIn(f, sites) == {s[2] : s \in {t \in sites : t[1] = f}}
Renamed(fqn, new)  == IF fqn = <<>> THEN <<>> ELSE [fqn EXCEPT ![Len(fqn)] = new]

Apply(target, touched, new) ==
  /\ live' = [g \in Files |-> IF g \in touched THEN Edited(live[g], RangesIn(g, target.sites), new)
                              ELSE live[g]]
  /\ cached' = [g \in Files |-> IF g \in touched THEN Read(g, live'[g]) ELSE cached[g]]
  /\ open' = open \cup touched
  /\ last' = [kind |-> target.kind, from |-> target.from,
              to |-> IF target.kind = "local" THEN <<new>> ELSE Renamed(target.from, new)]

\* rename, once the editor has asked prepareRename at the same place.
Rename(f, n, pos, new) ==
  LET target == RenameTarget(f, n, pos)
  IN  /\ renames < MaxRenames /\ renames' = renames + 1
      /\ PrepareRename(f, pos, target) # <<>>
      /\ Allowed(f, n, pos, target, new)
      /\ Apply(target, {s[1] : s \in target.sites}, new)
      /\ UNCHANGED index

\* did_save indexes the buffer.
Save(f) ==
  /\ f \in open /\ index[f] # cached[f]
  /\ index' = [index EXCEPT ![f] = cached[f]]
  /\ UNCHANGED <<live, open, cached, last, renames>>

\* The cursor is at the start of one of a token's parts.
Spots(n) == {n.from, n.name} \cup IF n.ns # "" THEN {n.name - 2} ELSE {}
CursorsIn(f) == UNION {{<<n, pos>> : pos \in Spots(n)} :
                        n \in {m \in EveryForm(live[f]) : m.k \in {"sym", "kwd", "nsmap"}}}

\* One file is open: as it was saved, or with its last form typed since.
OnDisk(f) == [live[f] EXCEPT !.kids = SubSeq(@, 1, Len(@) - 1)]
NoRename == [kind |-> "none", from |-> <<>>, to |-> <<>>]
RenameInit ==
  /\ live \in Workspaces
  /\ cached = [f \in Files |-> Read(f, live[f])]
  /\ \E f \in Files : live[f].kids # <<>> /\ open = {f} /\
       index \in {cached, [cached EXCEPT ![f] = Read(f, OnDisk(f))]}
  /\ last = NoRename
  /\ renames = 0

RenameNext ==
  \/ \E f \in open, new \in NewNames : \E c \in CursorsIn(f) : Rename(f, c[1], c[2], new)
  \/ \E f \in Files : Save(f)

RenameSpec == RenameInit /\ [][RenameNext]_renameVars

-----------------------------------------------------------------------------
(* Properties. *)

\* What every name of the workspace means: a usage its var or keyword, a
\* definition the one it makes, a local's use its binding.
Denotes  == UNION {{<<f, o.at, WithReferredFqn(cached, f, live[f], cached[f], o)>> : o \in Occs(cached[f])} :
                     f \in Files}
Defined  == UNION {{<<f, s.at, s.fqn>> : s \in {d \in cached[f].symbols : d.kind # "defmethod"}} : f \in Files}
Bound    == UNION {{<<f, u.at, u.slot>> : u \in Of(cached[f].events, "use")} : f \in Files}
ChangedIn(f) == {NameRange(n) : n \in EveryForm(live[f]) \ EveryForm(live'[f])}

\* A rename keeps what every name means, and gives the renamed thing its new
\* name wherever it is written: no site is missed and no other is touched. A
\* local may come to shadow a var ("a new name that merely shadows a *var* is
\* allowed"); a var or keyword is given a name the workspace does not have yet.
KeepsMeaning ==
  LET To(q)     == IF last'.kind \in {"var", "keyword"} /\ q = last'.from THEN last'.to ELSE q
      shadowed  == Bound' \ Bound
      Kept(d)   == ~\E u \in shadowed : u[1] = d[1] /\ u[2] = d[2]
      isNew     == \A f \in Files : \A n \in EveryForm(live[f]) : n.t # Last(last'.to)
  IN  last'.kind = "alias" \/ last'.kind = "local" \/ isNew =>
        /\ Bound \subseteq Bound'
        /\ \A u \in shadowed : last'.kind = "local" /\ u[3] = last'.from /\ u[2] \notin ChangedIn(u[1])
        /\ Denotes' = {<<d[1], d[2], To(d[3])>> : d \in {e \in Denotes : Kept(e)}}
        /\ Defined' = {<<d[1], d[2], To(d[3])>> : d \in Defined}

\* What references.rs says of the declaration edits, "one per project definition,
\* both halves of a namespace split across .clj and .cljs included": no
\* definition keeps the old name while the uses take the new one.
RenamesAreWhole == [][live' # live => KeepsMeaning]_renameVars

\* The same where the two walks read the file alike, a var has one definition
\* in a file, before any defmethod head of the same name, and the index knows
\* the definitions, if not the usages, of unsaved buffers.
Alike    == \A f \in Files : ChangedIn(f) \cap Doubtful(live[f]) = {}
OnlyDefinition(f, target) ==
  LET fqn     == IF target.kind = "var" THEN target.from ELSE <<>>
      symbols == {s \in cached[f].symbols : s.fqn = fqn}
      mine    == {s \in symbols : s.kind # "defmethod"}
  IN  \A s \in mine, t \in symbols : s.at[1] <= t.at[1]
DefinitionsIndexed == \A f \in Files : index[f].symbols = cached[f].symbols
RenameKeepsMeaning ==
  [][live' # live /\ Alike /\ DefinitionsIndexed /\ (\A f \in Files : OnlyDefinition(f, last'))
       => KeepsMeaning]_renameVars

\* Find-references of a local, from any of its names, lists exactly the uses
\* the unused-binding lint counts for it, and a name the lint takes for a var
\* is no local: the two walks read every binding form alike.
ReferencesAreUses ==
  \A f \in Files \ EdnFiles :
    AgreeAt(live[f], ScopeCx(f), cached[f].events, Cursors(live[f]), Doubtful(live[f]))

\* Where the editor is offered a rename it succeeds, and the range it is
\* offered is one of the edits: "prepareRename runs exactly this, so the
\* editor's rename box appears only where a rename would actually succeed".
PrepareIsRename ==
  \A f \in open : \A c \in CursorsIn(f) :
    LET target == RenameTarget(f, c[1], c[2])
        range  == PrepareRename(f, c[2], target)
    IN  range # <<>> /\ DefinitionsIndexed /\ OnlyDefinition(f, target) => <<f, range>> \in target.sites
=============================================================================
