------------------------------ MODULE NsForms ------------------------------
(***************************************************************************)
(* What one file says of itself (src/index/extractor.rs): the metadata of  *)
(* its ns form, the definitions it makes, the usages the occurrence walk   *)
(* finds under that metadata, and the tokens that spell a require alias.   *)
(*                                                                         *)
(* Analysis(tree, cfg) is extract_analysis_tree.  cfg holds what the file  *)
(* name and the configuration give: dialect, lintAs, lintForms, core.      *)
(***************************************************************************)
EXTENDS Occurrences

With(f, k, v)  == [x \in DOMAIN f \cup {k} |-> IF x = k THEN v ELSE f[x]]
Without(f, k)  == [x \in DOMAIN f \ {k} |-> f[x]]
Added(s, x)    == IF Contains(s, x) THEN s ELSE Append(s, x)
Dotted(p, n)   == p \o "." \o n

RecordRequire(meta, ns)  == [meta EXCEPT !.requires = Added(@, ns)]
RecordReferAll(meta, ns) == [meta EXCEPT !.refer_all = Added(@, ns)]

\* The branches of a reader conditional, the one the Clojure reader takes both
\* first and last.
BranchesClojureWins(n) ==
  LET pairs == Pairs(Kids(n))
      mine  == {i \in DOMAIN pairs : pairs[i][1].k = "kwd" /\ pairs[i][1].t \in {"clj", "default"}}
      clj   == CHOOSE i \in mine : \A j \in mine : i <= j
      Form2(i) == pairs[i][2]
      order == IF mine = {} THEN [i \in DOMAIN pairs |-> i]
               ELSE <<clj>> \o SelectSeq([i \in DOMAIN pairs |-> i], LAMBDA i : i # clj) \o <<clj>>
  IN  [i \in DOMAIN order |-> Form2(order[i])]

-----------------------------------------------------------------------------
(* The clauses of an ns form. *)

SymPairs(m) == SelectSeq(Pairs(Kids(m)), LAMBDA p : p[1].k = "sym" /\ p[2].k = "sym")
Symbols(n)  == SelectSeq(Kids(n), LAMBDA c : c.k = "sym")

\* parse_libspec_items. A :rename is applied once the whole spec is read, and an
\* :as-alias keeps the namespace from being required.
ReferOf(meta, ns, name)  == [meta EXCEPT !.refers = With(@, name, <<ns, name>>)]
RenamedRefer(meta, p)    ==
  IF p[1].t \notin DOMAIN meta.refers THEN meta
  ELSE [meta EXCEPT !.refers = With(Without(@, p[1].t), p[2].t, @[p[1].t])]
LibspecItems(items, ns, before) ==
  LET Value(i, kw, k) == items[i].k = "kwd" /\ items[i].t \in kw /\ IsAt(items, i + 1, k)
      Option(acc, i) ==
        CASE acc.skip -> [acc EXCEPT !.skip = FALSE]
          [] ~acc.skip /\ Value(i, {"as"}, "sym") ->
               [acc EXCEPT !.meta.aliases = With(@, items[i + 1].t, ns), !.skip = TRUE]
          [] ~acc.skip /\ Value(i, {"as-alias"}, "sym") ->
               [acc EXCEPT !.meta.aliases = With(@, items[i + 1].t, ns), !.skip = TRUE,
                           !.meta.as_aliases = @ \cup {ns}, !.load = FALSE]
          [] ~acc.skip /\ Value(i, {"refer"}, "kwd") /\ items[i + 1].t = "all" ->
               [acc EXCEPT !.meta = RecordReferAll(@, ns), !.skip = TRUE]
          [] ~acc.skip /\ Value(i, {"rename"}, "map") ->
               [acc EXCEPT !.renames = @ \o SymPairs(items[i + 1]), !.skip = TRUE]
          [] ~acc.skip /\ Value(i, {"refer", "refer-macros"}, "vec") ->
               [acc EXCEPT !.meta = FoldLeft(LAMBDA m, r : ReferOf(m, ns, r.t), @, Symbols(items[i + 1])),
                           !.skip = TRUE]
          [] OTHER -> acc
      read == FoldLeft(Option, [meta |-> before, renames |-> <<>>, load |-> TRUE, skip |-> FALSE],
                       [i \in 1..(Len(items) - 1) |-> i + 1])
      renamed == FoldLeft(RenamedRefer, read.meta, read.renames)
  IN  IF read.load THEN RecordRequire(renamed, ns) ELSE renamed

\* process_prefix_list: the prefix itself binds nothing.
IsPrefixVector(items) == IsAt(items, 1, "sym") /\ (IsAt(items, 2, "sym") \/ IsAt(items, 2, "vec"))
PrefixList(items, before) ==
  LET Entry(meta, n) ==
        CASE n.k = "sym" -> RecordRequire(meta, Dotted(items[1].t, n.t))
          [] n.k = "vec" /\ IsAt(Kids(n), 1, "sym") ->
               LibspecItems(Kids(n), Dotted(items[1].t, Kids(n)[1].t), meta)
          [] OTHER -> meta
  IN  IF /\ IsAt(items, 1, "sym") /\ Len(items) > 1
         /\ \A i \in 2..Len(items) : items[i].k \in {"sym", "vec"}
      THEN FoldLeft(Entry, before, Tail(items)) ELSE before

\* process_require_spec
RECURSIVE RequireSpec(_, _)
RequireSpec(meta, spec) ==
  LET items == Kids(spec)
  IN  CASE spec.k = "vec" /\ IsPrefixVector(items) -> PrefixList(items, meta)
        [] spec.k = "vec" /\ IsAt(items, 1, "sym") /\ ~IsPrefixVector(items) ->
             LibspecItems(items, items[1].t, meta)
        [] spec.k = "vec" /\ IsAt(items, 1, "vec") -> FoldLeft(RequireSpec, meta, items)
        [] spec.k = "sym"  -> RecordRequire(meta, spec.t)
        [] spec.k = "list" -> PrefixList(items, meta)
        [] spec.k = "cond" -> FoldLeft(RequireSpec, meta, BranchesClojureWins(spec))
        [] OTHER -> meta

\* collect_use_namespaces, collect_use_prefix_list: what a (:use …) spec refers in full.
UsePrefixList(items) ==
  LET Name(n) == CASE n.k = "sym" -> <<Dotted(items[1].t, n.t)>>
                   [] n.k = "vec" /\ IsAt(Kids(n), 1, "sym") -> <<Dotted(items[1].t, Kids(n)[1].t)>>
                   [] OTHER -> <<>>
  IN  IF IsAt(items, 1, "sym") /\ Len(items) >= 2 THEN Concat(Name, Tail(items)) ELSE <<>>
RECURSIVE UseNamespaces(_)
UseNamespaces(spec) ==
  LET items == Kids(spec)
  IN  CASE spec.k = "sym" -> <<spec.t>>
        [] spec.k = "vec" /\ IsPrefixVector(items) -> UsePrefixList(items)
        [] spec.k = "vec" /\ IsAt(items, 1, "sym") /\ ~IsPrefixVector(items) -> <<items[1].t>>
        [] spec.k = "vec" /\ IsAt(items, 1, "vec") -> Concat(UseNamespaces, items)
        [] spec.k = "list" -> UsePrefixList(items)
        [] spec.k = "cond" -> Concat(UseNamespaces, SelectSeq(items, LAMBDA c : c.k # "kwd"))
        [] OTHER -> <<>>
UseSpec(meta, spec) == FoldLeft(RecordReferAll, RequireSpec(meta, spec), UseNamespaces(spec))

\* parse_refer_clojure: renaming a core name also excludes the name it had.
ReferClojure(items, dialect, before) ==
  LET Exclude(meta, name) == [meta EXCEPT !.core_excludes = @ \cup {name}]
      Rename(meta, p) == Exclude([meta EXCEPT !.refers = With(@, p[2].t, <<CoreOf(dialect), p[1].t>>)], p[1].t)
      Item(meta, i) ==
        CASE ~(items[i].k = "kwd") -> meta
          [] items[i].k = "kwd" /\ items[i].t = "exclude" /\ IsAt(items, i + 1, "vec") ->
               FoldLeft(LAMBDA m, s : Exclude(m, s.t), meta, Symbols(items[i + 1]))
          [] items[i].k = "kwd" /\ items[i].t = "rename" /\ IsAt(items, i + 1, "map") ->
               FoldLeft(Rename, meta, SymPairs(items[i + 1]))
          [] OTHER -> meta
  IN  FoldLeft(Item, before, [i \in DOMAIN items |-> i])

\* process_import_spec, of a package and its classes.
ImportSpec(meta, spec) ==
  LET items == Kids(spec)
      Class(m, c) == [m EXCEPT !.imports = With(@, c.t, Dotted(items[1].t, c.t))]
  IN  IF spec.k \in {"vec", "list"} /\ IsAt(items, 1, "sym")
      THEN FoldLeft(Class, meta, SelectSeq(Tail(items), LAMBDA c : c.k = "sym")) ELSE meta

\* extract_ns
Clause(meta, n, dialect) ==
  LET inner == Kids(n)
      kw    == IF n.k = "list" /\ IsAt(inner, 1, "kwd") THEN inner[1].t ELSE ""
  IN  CASE kw \in {"require", "require-macros"} -> FoldLeft(RequireSpec, meta, Tail(inner))
        [] kw = "use"           -> FoldLeft(UseSpec, meta, Tail(inner))
        [] kw = "import"        -> FoldLeft(ImportSpec, meta, Tail(inner))
        [] kw = "refer-clojure" -> ReferClojure(Tail(inner), dialect, meta)
        [] OTHER                -> meta
ExtractNs(c, dialect, before) ==
  LET named == IF IsAt(c, 2, "sym") THEN [before EXCEPT !.name = c[2].t, !.in_ns = FALSE] ELSE before
  IN  IF Len(c) < 2 THEN before
      ELSE FoldLeft(LAMBDA m, n : Clause(m, n, dialect), named, Rest(c, 3))

\* in_ns_target: (in-ns 'x) and (in-ns (quote x)); "" otherwise.
IsHead(n, t) == n.k = "list" /\ IsAt(Kids(n), 1, "sym") /\ Kids(n)[1].ns = "" /\ Kids(n)[1].t = t
InNsTarget(n) ==
  LET arg    == Kids(n)[2]
      quoted == CASE arg.k = "quote" -> Kids(arg)
                  [] IsHead(arg, "quote") -> Rest(Kids(arg), 2)
                  [] OTHER -> <<>>
  IN  IF IsHead(n, "in-ns") /\ Len(Kids(n)) = 2 /\ Len(quoted) = 1 /\ quoted[1].k = "sym" /\ quoted[1].ns = ""
      THEN quoted[1].t ELSE ""
NamesNamespace(n) == IsHead(n, "ns") \/ InNsTarget(n) # ""

\* The ns half of process_top_level_list and of ns_meta_of_tree's read_ns.
ReadNs(meta, n, dialect) ==
  CASE IsHead(n, "ns") -> ExtractNs(Kids(n), dialect, meta)
    [] ~IsHead(n, "ns") /\ meta.name = "" /\ InNsTarget(n) # "" ->
         [meta EXCEPT !.name = InNsTarget(n), !.in_ns = TRUE]
    [] OTHER -> meta
NsMetaOfTree(root, dialect) ==
  LET Top(meta, n) ==
        CASE n.k = "list" -> ReadNs(meta, n, dialect)
          [] n.k = "cond" -> FoldLeft(LAMBDA m, b : ReadNs(m, b, dialect), meta, BranchesClojureWins(n))
          [] OTHER -> meta
  IN  FoldLeft(Top, NoMeta, Kids(root))

-----------------------------------------------------------------------------
(* Definitions. *)

Def(name, ns, kind, at, private) ==
  [name |-> name, fqn |-> <<ns, name>>, kind |-> kind, at |-> at, private |-> private]

\* has_private_meta is the marker of a symbol; map_declares_private, and the two
\* places the reader takes for an attribute map (has_private_attr_map).
DeclaresPrivate(m) == \E p \in Range(Pairs(Kids(m))) :
                         p[1].k = "kwd" /\ p[1].t = "private" /\ p[2].k = "sym" /\ p[2].t = "true"
PrivateMapAt(s, i) == IsAt(s, i, "map") /\ DeclaresPrivate(s[i])
HasPrivateAttrMap(kind, rest) ==
  LET leading  == PrivateMapAt(rest, 1) /\ (IsAt(rest, 2, "vec") \/ (Len(rest) >= 2 /\ ArityBody(rest[2])))
      trailing == Len(rest) > 1 /\ PrivateMapAt(rest, Len(rest))
                  /\ \E i \in 1..(Len(rest) - 1) : ArityBody(rest[i])
  IN  CASE kind = "defmulti" -> Len(rest) > 1 /\ PrivateMapAt(rest, 1)
        [] kind \in {"defn", "defn-", "defmacro"} -> leading \/ trailing
        [] OTHER -> FALSE

\* extract_protocol_methods
ProtocolMethods(rest, ns) ==
  LET Method(n) == IF n.k = "list" /\ IsAt(Kids(n), 1, "sym")
                   THEN <<Def(Kids(n)[1].t, ns, "defn", NameRange(Kids(n)[1]), FALSE)>> ELSE <<>>
  IN  Concat(Method, rest)

\* extract_def: the name and, for a protocol, its methods.
ExtractDef(kind, c, ns) ==
  LET i == SkipReturnSchema(c, 3)
      j == SkipReturnSchema(c, IF IsAt(c, i, "str") THEN i + 1 ELSE i)
      private == kind = "defn-" \/ c[2].mark \/ HasPrivateAttrMap(kind, Rest(c, j))
  IN  IF ~IsAt(c, 2, "sym") THEN <<>>
      ELSE <<Def(c[2].t, ns, kind, NameRange(c[2]), private)>>
           \o (IF kind = "defprotocol" THEN ProtocolMethods(Rest(c, 3), ns) ELSE <<>>)

\* extract_declare: one for each name.
ExtractDeclare(c, ns) ==
  LET names == SelectSeq(Tail(c), LAMBDA n : n.k = "sym")
  IN  [i \in DOMAIN names |-> Def(names[i].t, ns, "declare", NameRange(names[i]), names[i].mark)]

\* extract_integrant_key: (defmethod ig/init-key ::k …) defines the keyword.
IntegrantKey(c, meta) ==
  IF IsInitKeyDef(c, meta)
  THEN LET fqn == KeywordFqn(c[3], meta)
       IN  <<[name |-> fqn[3], fqn |-> fqn, kind |-> "integrant", at |-> WholeRange(c[3]), private |-> FALSE]>>
  ELSE <<>>

\* process_top_level_list, of a form that does not name the namespace.
Definitions(n, meta, lintAs) ==
  LET c    == Kids(n)
      head == IF IsAt(c, 1, "sym") THEN HeadDefKind(c, meta, lintAs) ELSE <<>>
      kind == CASE ~IsAt(c, 1, "sym") -> ""
                [] IsAt(c, 1, "sym") /\ c[1].ns = "" /\ c[1].t \in DefSymbols -> c[1].t
                [] OTHER -> IF head = <<>> THEN "" ELSE head[2]
  IN  CASE n.k # "list" \/ kind = "" -> <<>>
        [] n.k = "list" /\ kind = "declare"   -> ExtractDeclare(c, meta.name)
        [] n.k = "list" /\ kind = "defmethod" -> ExtractDef(kind, c, meta.name) \o IntegrantKey(c, meta)
        [] OTHER -> ExtractDef(kind, c, meta.name)

\* One top-level form, under the metadata read so far; a conditional names its
\* namespace before it defines anything.
TopLevel(acc, n, cfg) ==
  LET One(a, f) == IF NamesNamespace(f) THEN [a EXCEPT !.meta = ReadNs(@, f, cfg.dialect)]
                   ELSE [a EXCEPT !.symbols = @ \o Definitions(f, a.meta, cfg.lintAs)]
      forms(p)  == SelectSeq([i \in DOMAIN p |-> p[i][2]], LAMBDA f : f.k = "list" /\ ~NamesNamespace(f))
      naming    == SelectSeq(BranchesClojureWins(n), LAMBDA f : f.k = "list" /\ NamesNamespace(f))
  IN  CASE n.k = "list" -> One(acc, n)
        [] n.k = "cond" -> FoldLeft(One, acc, naming \o forms(Pairs(Kids(n))))
        [] OTHER -> acc

\* extract_analysis_tree: a declare yields to a definition, and to an earlier
\* declare; the usages are walked under the completed metadata.
Analysis(root, cfg) ==
  LET Top(acc, n) == TopLevel(acc, n, cfg)
      read    == FoldLeft(Top, [meta |-> NoMeta, symbols |-> <<>>], Kids(root))
      all     == read.symbols
      Keeps(i) == all[i].kind # "declare"
                  \/ /\ \A j \in DOMAIN all : all[j].fqn = all[i].fqn => all[j].kind = "declare"
                     /\ \A j \in 1..(i - 1) : all[j].fqn # all[i].fqn
      symbols == {all[i] : i \in {j \in DOMAIN all : Keeps(j)}}
      cx == [meta |-> read.meta, dialect |-> cfg.dialect, lintAs |-> cfg.lintAs,
             lintForms |-> cfg.lintForms, core |-> cfg.core,
             defs |-> {s.name : s \in symbols},
             declared |-> {s.at[1] : s \in {d \in symbols : d.kind = "declare"}}]
  IN  [meta |-> read.meta, symbols |-> symbols, cx |-> cx, events |-> Events(root, cx)]

Occs(analysis) == Of(analysis.events, "occ")

-----------------------------------------------------------------------------
(* EDN configurations. *)

\* collect_edn_keywords, collect_edn_ns_map: what a literal notation spells.
EdnCx == [meta |-> NoMeta]
RECURSIVE EdnKeywords(_)
EdnKeywords(n) ==
  LET entries == Kids(n)
      Entry(i) == IF i % 2 = 1 /\ entries[i].k = "kwd"
                  THEN RecordNsMapKey(entries[i], NsMapPrefix(n, NoMeta), EdnCx) ELSE EdnKeywords(entries[i])
  IN  CASE n.k = "kwd"   -> OccIf(KeywordFqn(n, NoMeta), WholeRange(n))
        [] n.k = "nsmap" -> FlattenSeq([i \in DOMAIN entries |-> Entry(i)])
        [] OTHER         -> Concat(EdnKeywords, entries)

\* has_namespaced_top_level_key: what makes an EDN file a system, without a tag.
IsIntegrantEdn(root) ==
  LET maps == SelectSeq(Kids(root), LAMBDA n : n.k \in {"map", "nsmap"})
      Key(m, i) == Kids(m)[i].k = "kwd" /\ Kids(m)[i].ns # ""
  IN  /\ maps # <<>>
      /\ IF maps[1].k = "nsmap" THEN ~(maps[1].mark /\ maps[1].t = "")
         ELSE \E i \in DOMAIN Kids(maps[1]) : i % 2 = 1 /\ Key(maps[1], i)

-----------------------------------------------------------------------------
(* Require aliases. *)

\* collect_alias_declarations: the symbols after :as and :as-alias, in every
\* shape of a spec.
LibspecAliases(items) ==
  {items[i + 1] : i \in {j \in 1..(Len(items) - 1) :
                           /\ items[j].k = "kwd" /\ items[j].t \in {"as", "as-alias"}
                           /\ items[j + 1].k = "sym"}}
PrefixListAliases(items) ==
  IF ~IsAt(items, 1, "sym") THEN {}
  ELSE UNION {LibspecAliases(Kids(n)) : n \in {e \in Range(Tail(items)) : e.k = "vec" /\ IsAt(Kids(e), 1, "sym")}}
RECURSIVE SpecAliases(_)
SpecAliases(spec) ==
  LET items == Kids(spec)
  IN  CASE spec.k = "vec" /\ IsPrefixVector(items) -> PrefixListAliases(items)
        [] spec.k = "vec" /\ IsAt(items, 1, "sym") /\ ~IsPrefixVector(items) -> LibspecAliases(items)
        [] spec.k = "vec" /\ IsAt(items, 1, "vec") -> UNION {SpecAliases(n) : n \in Range(items)}
        [] spec.k = "list" -> PrefixListAliases(items)
        [] spec.k = "cond" -> UNION {SpecAliases(n) : n \in {c \in Range(items) : c.k # "kwd"}}
        [] OTHER -> {}
NsFormsOf(root) ==
  {n \in Range(Kids(root)) : IsHead(n, "ns")}
  \cup UNION {{f \in Range(Kids(n)) : IsHead(f, "ns")} : n \in {c \in Range(Kids(root)) : c.k = "cond"}}
AliasDeclarations(root) ==
  UNION {UNION {UNION {SpecAliases(s) : s \in Range(Tail(Kids(n)))} :
           n \in {c \in Range(Rest(Kids(f), 3)) :
                    /\ c.k = "list" /\ IsAt(Kids(c), 1, "kwd")
                    /\ Kids(c)[1].t \in {"require", "require-macros", "use"}}} : f \in NsFormsOf(root)}

\* discarded_keyword_starts: the walk never enters a discard, so the entries of
\* a discarded {:keys [h/x]} are found by a walk of their own.
KeywordStarts(occs) == {o.at[1] : o \in {p \in occs : p.fqn[1] = ":"}}
ScratchCx == [meta |-> NoMeta, dialect |-> "clj", defs |-> {}, declared |-> {},
              lintAs |-> NoMap, lintForms |-> NoMap, core |-> {}]
RECURSIVE DiscardedStarts(_)
DiscardedStarts(n) ==
  UNION {DiscardedStarts(c) : c \in Range(n.kids)}
  \cup IF n.k = "dis" THEN KeywordStarts(Of(WalkAll(Kids(n), ScratchCx, <<>>), "occ")) ELSE {}

\* collect_alias_usages: the namespace parts that spell the alias, discards
\* included; a :keys entry reads its namespace literally and is none.
RECURSIVE AliasUsages(_, _, _)
AliasUsages(n, alias, starts) ==
  CASE n.k = "sym" -> IF n.ns = alias /\ n.from \notin starts THEN {NsRange(n)} ELSE {}
    [] n.k = "kwd" -> IF n.mark /\ n.ns = alias THEN {NsRange(n)} ELSE {}
    [] OTHER -> (IF n.k = "nsmap" /\ n.mark /\ n.t = alias THEN {NameRange(n)} ELSE {})
                \cup UNION {AliasUsages(c, alias, starts) : c \in Range(n.kids)}

\* alias_sites_tree
AliasSites(root, alias, occs) ==
  LET starts == KeywordStarts(occs) \cup DiscardedStarts(root)
  IN  [declarations |-> {NameRange(n) : n \in {d \in AliasDeclarations(root) : d.t = alias}},
       usages       |-> AliasUsages(root, alias, starts)]

\* alias_at_tree: the alias the cursor is on, "" when on none.
RECURSIVE EveryForm(_)
EveryForm(n) == {n} \cup UNION {EveryForm(c) : c \in Range(n.kids)}
AliasAt(root, pos) ==
  LET On(r)    == r[1] <= pos /\ pos <= r[2]
      declared == {n.t : n \in {d \in AliasDeclarations(root) : On(NameRange(d))}}
      spelled  == {n.ns : n \in {f \in EveryForm(root) : /\ f.ns # "" /\ (f.k = "sym" \/ (f.k = "kwd" /\ f.mark))
                                                        /\ On(NsRange(f))}}
                  \cup {n.t : n \in {f \in EveryForm(root) : f.k = "nsmap" /\ f.mark /\ f.t # "" /\ On(NameRange(f))}}
      names    == IF declared # {} THEN declared ELSE spelled
  IN  IF names = {} THEN "" ELSE CHOOSE a \in names : TRUE
=============================================================================
