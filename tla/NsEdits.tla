------------------------------ MODULE NsEdits ------------------------------
(***************************************************************************)
(* The native diagnostics of a file (src/diagnostics.rs) and the code      *)
(* actions that answer them (src/handlers/code_action.rs): "Add require"   *)
(* for a qualified name whose namespace is not known, and "Clean           *)
(* namespace" for the requires that nothing uses.                          *)
(*                                                                         *)
(* The diagnostics and the actions read the tree in walks of their own,    *)
(* next to the occurrence walk that says what every name means: the state  *)
(* is one open file, its analysis, and the edits the user takes.  The      *)
(* walks of code_action.rs see the discards among a form's children, those *)
(* of the extractor do not.                                                *)
(***************************************************************************)
EXTENDS NsForms

CONSTANTS
  Sources,         \* the texts a file can begin with, as placed trees
  SourceDialect,   \* "clj" or "cljs"
  Namespaces,      \* the index: [namespace -> the names it defines]
  LastSegment,     \* [namespace -> the last segment of its name]
  ProjectNss,      \* the namespaces a file of the project has
  PrivateVars,     \* the <<namespace, name>> that are private
  KeywordCounts,   \* the <<namespace, name>> of the keywords the project uses
  Curated,         \* CURATED_ALIASES: [alias -> namespace]
  Interop,         \* prefixes that spell a Java class, or js
  EditCore,        \* core's names
  MaxAccepts,      \* bound: completion items the user accepts
  ReadFile(_, _)   \* the extractor's entry point: Analysis of NsForms

ASSUME NsEditsAssumption == DOMAIN LastSegment = DOMAIN Namespaces /\ ProjectNss \subseteq DOMAIN Namespaces

VARIABLES
  source,   \* the text, as a tree
  read,     \* its analysis
  indexed,  \* what the ns form said when the file was last indexed
  took,     \* the action the user took last
  accepts   \* the completion items accepted so far

editVars == <<source, read, indexed, took, accepts>>

AnalysisOf(tree) ==
  ReadFile(tree, [dialect |-> SourceDialect, lintAs |-> NoMap, lintForms |-> NoMap, core |-> EditCore])

-----------------------------------------------------------------------------
(* The ns form. *)

FirstTokenIs(n, k, t) ==
  n.kids # <<>> /\ n.kids[1].k = k /\ n.kids[1].ns = "" /\ n.kids[1].t = t /\ ~n.kids[1].mark
IsClause(n) == n.k = "list" /\ FirstTokenIs(n, "kwd", "require")

\* ns_form: where the first (ns …) of the top level is, 0 for none.
FirstOf(s, P(_)) == IF \E i \in DOMAIN s : P(s[i]) THEN CHOOSE i \in DOMAIN s : P(s[i]) /\ \A j \in 1..(i - 1) : ~P(s[j])
                    ELSE 0
NsFormAt(root) == FirstOf(root.kids, LAMBDA n : n.k = "list" /\ FirstTokenIs(n, "sym", "ns"))
NsFormOf(root) == root.kids[NsFormAt(root)]
NsNameOf(form) ==
  LET names == SelectSeq(Tail(form.kids), LAMBDA n : n.k = "sym") IN IF names = <<>> THEN "" ELSE names[1].t
\* The specs of every (:require …) clause.
Clauses(root) == IF NsFormAt(root) = 0 THEN <<>> ELSE SelectSeq(NsFormOf(root).kids, IsClause)
Specs(root)   == FlattenSeq([i \in DOMAIN Clauses(root) |-> Tail(Clauses(root)[i].kids)])

-----------------------------------------------------------------------------
(* What the file uses. *)

\* collect_qualified: the qualified symbols that are evaluated. The symbols of
\* a :keys vector read keywords, whatever map they stand in.
KeysVectors(n) ==
  {Kids(n)[i] : i \in {j \in 2..Len(Kids(n)) : /\ n.k = "map" /\ j % 2 = 0
                                              /\ Kids(n)[j].k = "vec" /\ IsKeyDirective(Kids(n)[j - 1])}}
RECURSIVE QualifiedUsages(_)
QualifiedUsages(n) ==
  CASE n.k = "quote" \/ IsHead(n, "quote") -> {}
    [] n.k = "sym" -> IF n.ns = "" THEN {} ELSE {[prefix |-> n.ns, name |-> n.t, at |-> <<n.from, n.to>>]}
    [] OTHER       -> UNION {QualifiedUsages(c) : c \in Range(Kids(n)) \ KeysVectors(n)}

\* collect_keyword_prefixes: those of keywords and of #:ns{…} maps.
RECURSIVE KeywordPrefixes(_)
KeywordPrefixes(n) ==
  (CASE n.k = "kwd"   -> {n.ns} \ {""}
     [] n.k = "nsmap" -> {n.t} \ {""}
     [] OTHER         -> {})
  \cup UNION {KeywordPrefixes(c) : c \in Range(n.kids)}
UsedPrefixesOfSymbols(root) == {u.prefix : u \in QualifiedUsages(root)}
UsedPrefixes(root) == {u.prefix : u \in QualifiedUsages(root)} \cup KeywordPrefixes(root)

\* used_bare_symbols: every unqualified symbol outside the ns form.
RECURSIVE Bare(_)
Bare(n) == (IF n.k = "sym" /\ n.ns = "" THEN {n.t} ELSE {}) \cup UNION {Bare(c) : c \in Range(n.kids)}
UsedBare(root) == UNION {Bare(root.kids[i]) : i \in DOMAIN root.kids \ {NsFormAt(root)}}

Usage(root) == [prefixes |-> UsedPrefixes(root), bare |-> UsedBare(root),
                self |-> IF NsFormAt(root) = 0 THEN "" ELSE NsNameOf(NsFormOf(root))]

-----------------------------------------------------------------------------
(* Libspecs. *)

\* parse_libspec, of a vector that starts with a symbol. The last :as and the
\* last :refer vector count; refer is the index of that vector, 0 for none.
IsLibspec(spec) == spec.k = "vec" /\ IsAt(spec.kids, 1, "sym")
Libspec(spec) ==
  LET items == spec.kids
      Option(acc, i) ==
        CASE acc.skip -> [acc EXCEPT !.skip = FALSE]
          [] ~acc.skip /\ PlainKwd(items[i], "as") /\ IsAt(items, i + 1, "sym") ->
               [acc EXCEPT !.alias = items[i + 1].t, !.skip = TRUE]
          [] ~acc.skip /\ PlainKwd(items[i], "refer") /\ i < Len(items) ->
               [acc EXCEPT !.refer = IF items[i + 1].k = "vec" THEN i + 1 ELSE @,
                           !.all = @ \/ PlainKwd(items[i + 1], "all"), !.skip = TRUE]
          [] OTHER -> acc
  IN  FoldLeft(Option, [alias |-> "", refer |-> 0, all |-> FALSE, skip |-> FALSE],
               [i \in 1..(Len(items) - 1) |-> i + 1])
HasUnknownOpt(spec) ==
  \E n \in Range(spec.kids) : n.k = "kwd" /\ \A t \in {"as", "refer", "all"} : ~PlainKwd(n, t)
Refers(spec, ls) ==
  IF ls.refer = 0 THEN <<>> ELSE SelectSeq(spec.kids[ls.refer].kids, LAMBDA r : r.k = "sym")

\* What is kept as it is: options that are not modelled, requires that may be
\* there for their side effects, and the file's own namespace.
Exempt(spec, ls, usage) ==
  \/ HasUnknownOpt(spec)
  \/ ls.alias = "" /\ ls.refer = 0 /\ ~ls.all
  \/ spec.kids[1].t = usage.self

\* libspec_unused
LibspecUnused(spec, ls, usage) ==
  /\ {spec.kids[1].t, ls.alias} \cap usage.prefixes = {}
  /\ ~ls.all
  /\ {r.t : r \in Range(Refers(spec, ls))} \cap usage.bare = {}
IsUnused(spec, ls, usage) == ~Exempt(spec, ls, usage) /\ LibspecUnused(spec, ls, usage)

-----------------------------------------------------------------------------
(* Clean namespace. *)

\* The text of a form, up to the spaces in it.
RECURSIVE Text(_)
Text(n) == Form(n.k, n.ns, n.t, n.mark, [i \in DOMAIN n.kids |-> Text(n.kids[i])])

\* plan_libspec, of one that survives: the :refer names that are not used go,
\* and an empty :refer goes altogether.
Pruned(spec, ls, usage) ==
  LET left   == SelectSeq(Refers(spec, ls), LAMBDA r : r.t \in usage.bare)
      others == SubSeq(spec.kids, 1, ls.refer - 2) \o Rest(spec.kids, ls.refer + 1)
  IN  CASE ls.refer = 0 \/ Len(left) = Len(Refers(spec, ls)) -> spec
        [] ls.refer # 0 /\ left = <<>> -> [spec EXCEPT !.kids = others]
        [] OTHER -> [spec EXCEPT !.kids[ls.refer].kids = left]

\* plan_spec: << >> to remove the spec. A duplicate is one whose final text was
\* emitted before, in this clause or an earlier one.
PlanSpecBySource(spec, usage, seen) ==
  LET ls   == Libspec(spec)
      kept == IF ~IsLibspec(spec) \/ Exempt(spec, ls, usage) THEN spec ELSE Pruned(spec, ls, usage)
  IN  IF \/ IsLibspec(spec) /\ IsUnused(spec, ls, usage)
         \/ spec.k \in {"vec", "sym"} /\ Text(spec) \in seen
      THEN <<>> ELSE <<kept>>
PlanSpec(spec, usage, seen) ==
  LET ls   == Libspec(spec)
      kept == IF ~IsLibspec(spec) \/ Exempt(spec, ls, usage) THEN spec ELSE Pruned(spec, ls, usage)
  IN  IF \/ IsLibspec(spec) /\ IsUnused(spec, ls, usage)
         \/ spec.k \in {"vec", "sym"} /\ Text(kept) \in seen
      THEN <<>> ELSE <<kept>>

\* clean_one_clause: a clause that would be left empty goes too.
CleanClause(acc, n, usage) ==
  LET Step(a, spec) ==
        LET plan == PlanSpec(spec, usage, a.seen)
        IN  [kept |-> a.kept \o plan,
             seen |-> a.seen \cup {Text(p) : p \in {q \in Range(plan) : q.k \in {"vec", "sym"}}}]
      done == FoldLeft(Step, [kept |-> <<>>, seen |-> acc.seen], Tail(n.kids))
  IN  IF ~IsClause(n) THEN [acc EXCEPT !.kids = Append(@, n)]
      ELSE [seen |-> done.seen,
            kids |-> IF done.kept = <<>> /\ Len(n.kids) > 1 THEN acc.kids
                     ELSE Append(acc.kids, [n EXCEPT !.kids = <<n.kids[1]>> \o done.kept])]

\* clean_ns_edits_tree, applied: the same tree when there is nothing to do.
CleanNs(root) ==
  LET usage == Usage(root)
      Clause2(acc, n) == CleanClause(acc, n, usage)
  IN  IF NsFormAt(root) = 0 THEN root
      ELSE [root EXCEPT !.kids[NsFormAt(root)].kids = FoldLeft(Clause2, [kids |-> <<>>, seen |-> {}], @).kids]

-----------------------------------------------------------------------------
(* Add require. *)

Resolves(meta, prefix) == prefix = meta.name \/ prefix \in DOMAIN meta.aliases \/ Contains(meta.requires, prefix)

\* namespaces_for_alias: the namespaces a prefix could mean, with the alias they
\* are required under, "" for one spelled in full. One that is curated or
\* spelled in full is that first.
NamespacesForAlias(meta, prefix) ==
  LET spelled == {n \in DOMAIN Namespaces : n = prefix /\ Get(Curated, prefix, "") # n}
      aliased == {n \in DOMAIN Namespaces \ {prefix} : LastSegment[n] = prefix}
                 \cup (IF prefix \in DOMAIN Curated THEN {Curated[prefix]} ELSE {})
  IN  IF prefix \in {"", "clojure.core"} \/ Resolves(meta, prefix) THEN {}
      ELSE {c \in {[ns |-> n, alias |-> ""] : n \in spelled} \cup {[ns |-> n, alias |-> prefix] : n \in aliased} :
              c.ns # meta.name}
Candidates(meta, prefix, name) ==
  {c \in NamespacesForAlias(meta, prefix) : name \in Get(Namespaces, c.ns, {})}
SpecOf(c) == Vec(<<Sym(c.ns)>> \o IF c.alias = "" THEN <<>> ELSE <<Kwd("as"), Sym(c.alias)>>)

\* require_anchor_tree: after the last spec of the first clause, else in a
\* clause of its own at the end of the ns form.
InsertSpec(clause, spec) ==
  LET lasts == {i \in DOMAIN clause.kids : clause.kids[i].k # "kwd"}
      after == IF lasts = {} THEN 1 ELSE Max(lasts)
  IN  [clause EXCEPT !.kids = SubSeq(@, 1, after) \o <<spec>> \o Rest(@, after + 1)]
InsertRequire(form, spec) ==
  LET at == FirstOf(form.kids, IsClause)
  IN  IF at = 0 THEN [form EXCEPT !.kids = Append(@, Lst(<<Kwd("require"), spec>>))]
      ELSE [form EXCEPT !.kids[at] = InsertSpec(@, spec)]

-----------------------------------------------------------------------------
(* Completion, of keywords and of vars that are qualified once accepted: what
   takes the token's place, what it is to mean, and the spec that goes into the
   ns form. What the user typed of the name is left out: with some text before
   the cursor, every name is offered. *)

\* auto_require_pool: the namespaces offered to a name without a prefix.
AutoRequirePool(meta) ==
  {c \in {[ns |-> n, alias |-> LastSegment[n]] : n \in ProjectNss}
         \cup {[ns |-> Curated[p], alias |-> p] : p \in DOMAIN Curated} :
     ~Resolves(meta, c.ns) /\ c.alias \notin DOMAIN meta.aliases}

Item(form, means, ns, specs) == [form |-> form, means |-> means, ns |-> ns, specs |-> specs]
VarItem(alias, ns, name, specs) == Item(QSym(alias, name), <<ns, name>>, ns, specs)

\* auto_require_items
AutoRequireItems(pool) ==
  UNION {{VarItem(c.alias, c.ns, name, <<SpecOf(c)>>) :
            name \in {n \in Get(Namespaces, c.ns, {}) : <<c.ns, n>> \notin PrivateVars}} : c \in pool}

\* complete_symbols
CompleteSymbols(meta, prefix) ==
  CASE prefix = "" -> AutoRequireItems(AutoRequirePool(meta))
    [] prefix \in DOMAIN meta.aliases ->
         LET ns == meta.aliases[prefix] IN {VarItem(prefix, ns, name, <<>>) : name \in Get(Namespaces, ns, {})}
    [] prefix \in Interop \ DOMAIN meta.aliases -> {}
    [] OTHER -> AutoRequireItems({[c EXCEPT !.alias = prefix] : c \in NamespacesForAlias(meta, prefix)})

\* complete_keywords, in the notation that is being typed: ::alias/name, ::name,
\* or the keyword as it is indexed.
KeywordItem(form, kw) == Item(form, <<":", kw[1], kw[2]>>, "", <<>>)
CompleteKeywords(meta, typed) ==
  LET KeywordsOf(ns) == {kw \in KeywordCounts : kw[1] = ns}
  IN  CASE ~typed.mark -> {KeywordItem(QKwd(kw[1], kw[2]), kw) : kw \in KeywordCounts}
        [] typed.mark /\ typed.ns = "" -> {KeywordItem(AutoKwd("", kw[2]), kw) : kw \in KeywordsOf(meta.name)}
        [] OTHER -> {KeywordItem(AutoKwd(typed.ns, kw[2]), kw) :
                       kw \in UNION {KeywordsOf(ns) : ns \in {meta.aliases[a] : a \in DOMAIN meta.aliases \cap {typed.ns}}}}

\* handle
Completions(meta, n) == IF n.k = "kwd" THEN CompleteKeywords(meta, n) ELSE CompleteSymbols(meta, n.ns)

-----------------------------------------------------------------------------
(* Native diagnostics. *)

Diag(code, at, of) == [code |-> code, at |-> at, of |-> of]

Unresolved(root, meta) ==
  {Diag("unresolved-namespace", u.at, u.prefix) :
     u \in {q \in QualifiedUsages(root) :
              ~Resolves(meta, q.prefix) /\ q.prefix # "clojure.core" /\ q.prefix \notin Interop}}

UnusedRequires(root) ==
  {Diag("unused-namespace", NameRange(s.kids[1]), s.kids[1].t) :
     s \in {q \in Range(Specs(root)) : IsLibspec(q) /\ IsUnused(q, Libspec(q), Usage(root))}}

DuplicateRequires(root) ==
  LET named == SelectSeq(Specs(root), LAMBDA s : s.k = "sym" \/ IsLibspec(s))
      Name(s) == IF s.k = "sym" THEN s ELSE s.kids[1]
  IN  {Diag("duplicate-require", NameRange(Name(named[i])), Name(named[i]).t) :
         i \in {j \in DOMAIN named : \E h \in 1..(j - 1) : Name(named[h]).t = Name(named[j]).t}}

\* Scope::pop: what a frame leaves unused; a leading _ opts out.
UnusedBindings(events) ==
  {Diag("unused-binding", b.at, b.name) :
     b \in {e \in Of(events, "bind") : e.lint /\ e.name # "_" /\ ~\E u \in Of(events, "use") : u.slot = e.at}}

\* Private vars without a use outside of the form that defines them.
LintablePrivate == {"def", "defonce", "defn", "defn-", "defmacro", "defmulti"}
FormAround(root, at) ==
  CHOOSE n \in EveryForm(root) : /\ n.k = "list" /\ n.from <= at[1] /\ at[2] <= n.to
                                 /\ \A m \in EveryForm(root) : m.k = "list" /\ m.from <= at[1] /\ at[2] <= m.to => m.from <= n.from
UnusedPrivate(root, analysis) ==
  LET Inside(at, n) == n.from <= at[1] /\ at[2] <= n.to
      Used(s) == \E o \in Occs(analysis) : o.fqn = s.fqn /\ ~Inside(o.at, FormAround(root, s.at))
  IN  {Diag("unused-private-var", s.at, s.name) :
         s \in {d \in analysis.symbols : d.private /\ d.kind \in LintablePrivate /\ ~Used(d)}}

\* compute_from, of a pass that is not overtaken.
ComputeFrom(root, analysis) ==
  Unresolved(root, analysis.meta) \cup UnusedRequires(root) \cup DuplicateRequires(root)
  \cup UnusedBindings(analysis.events) \cup UnusedPrivate(root, analysis)

-----------------------------------------------------------------------------
(* The user, at an open file. *)

NoAction == [kind |-> "none", prefix |-> "", ns |-> "", means |-> <<>>, at |-> 0]

\* The editor applies the edit, and the text is read again; the index is as it
\* was until the file is saved.
Edit(tree, action) ==
  /\ source' = Place(Text(tree), 0, 1)
  /\ read' = AnalysisOf(source')
  /\ took' = action
  /\ UNCHANGED indexed

Clean ==
  /\ CleanNs(source) # source
  /\ Edit(CleanNs(source), [NoAction EXCEPT !.kind = "clean"])
  /\ UNCHANGED accepts

\* add_require_actions, of the token under the cursor.
AddRequire(n) ==
  /\ n.k = "sym" /\ NsFormAt(source) # 0
  /\ \E c \in Candidates(read.meta, n.ns, n.t) :
       Edit([source EXCEPT !.kids[NsFormAt(source)] = InsertRequire(@, SpecOf(c))],
            [NoAction EXCEPT !.kind = "add", !.prefix = n.ns, !.ns = c.ns])
  /\ UNCHANGED accepts

\* The names outside of the ns form, and how many there are up to a place.
InBody(root, at) == NsFormAt(root) = 0 \/ at[2] < NsFormOf(root).from \/ NsFormOf(root).to < at[1]
NamesOfBody(root, analysis) == {e \in Occs(analysis) : InBody(root, e.at)}
CountTo(root, analysis, at) == Cardinality({e \in NamesOfBody(root, analysis) : e.at[1] <= at[1]})

TokenRange(n) == IF n.k = "kwd" THEN WholeRange(n) ELSE NameRange(n)

\* Another token in a token's place.
RECURSIVE Replaced(_, _, _)
Replaced(n, at, with) ==
  IF n.k \in {"sym", "kwd"} /\ TokenRange(n) = at THEN with
  ELSE [n EXCEPT !.kids = [i \in DOMAIN @ |-> Replaced(@[i], at, with)]]

\* The user accepts an item where a name is used, not one that decides how the
\* forms around it are read. The items come from what the
\* index knows of the file, the place of the new spec from the text.
AcceptCompletion(n) ==
  /\ accepts < MaxAccepts
  /\ n.k \in {"sym", "kwd"} /\ n.t \notin EditCore /\ ~IsKeyDirective(n)
  /\ \E o \in NamesOfBody(source, read) :
       o.at = TokenRange(n) /\ (o.fqn[1] = ":" <=> n.k = "kwd") /\ ~\E s \in read.symbols : s.at = o.at
  /\ \E item \in Completions(indexed, n) :
       LET named == Replaced(source, TokenRange(n), item.form)
       IN  Edit(IF item.specs = <<>> \/ NsFormAt(source) = 0 THEN named
                ELSE [named EXCEPT !.kids[NsFormAt(source)] = InsertRequire(@, item.specs[1])],
                [kind |-> "complete", prefix |-> item.form.ns, ns |-> item.ns, means |-> item.means,
                 at |-> CountTo(source, read, TokenRange(n))])
  /\ accepts' = accepts + 1

\* did_save
SaveEdits ==
  /\ indexed # read.meta
  /\ indexed' = read.meta /\ took' = NoAction
  /\ UNCHANGED <<source, read, accepts>>

EditsInit ==
  /\ source \in Sources /\ read = AnalysisOf(source) /\ indexed = read.meta
  /\ took = NoAction /\ accepts = 0
EditsNext == Clean \/ SaveEdits \/ \E n \in EveryForm(source) : AddRequire(n) \/ AcceptCompletion(n)

-----------------------------------------------------------------------------
(* Properties. *)

\* What the names outside of the ns form mean, in their order.
Meaning(root, analysis) ==
  LET body == NamesOfBody(root, analysis)
  IN  [i \in 1..Cardinality(body) |->
         (CHOOSE e \in body : Cardinality({d \in body : d.at[1] < e.at[1]}) < i
                              /\ i <= Cardinality({d \in body : d.at[1] <= e.at[1]})).fqn]
Squiggles(root, analysis, codes) ==
  {<<d.code, d.of>> : d \in {e \in ComputeFrom(root, analysis) : e.code \in codes}}
OwnCodes == {"unresolved-namespace", "unused-binding", "unused-private-var"}

\* collect_qualified takes every {:keys [h/f]} for a destructuring, which one
\* that is evaluated is not: there h/f is a usage the clean-up does not see.
KeysEvaluated ==
  \E n \in EveryForm(source) : \E v \in KeysVectors(n) : \E s \in EveryForm(v) :
    \E o \in Occs(read) : s.k = "sym" /\ s.ns # "" /\ o.at = NameRange(s) /\ o.fqn[1] # ":"

\* Clojure refuses a file that gives two namespaces one alias.
AliasesAgree ==
  \A i, j \in DOMAIN Specs(source) :
    LET s == Specs(source)[i]  t == Specs(source)[j]
    IN  IsLibspec(s) /\ IsLibspec(t) /\ Libspec(s).alias = Libspec(t).alias /\ Libspec(s).alias # ""
          => s.kids[1].t = t.kids[1].t

\* Clean namespace never removes what the file uses: every name outside of the
\* ns form means what it did, and no name becomes unresolved ("keeping a
\* still-referenced require is always safe, removing a used one is not").
CleanKeepsMeaning ==
  [][took'.kind = "clean" /\ AliasesAgree /\ ~KeysEvaluated =>
       /\ Meaning(source', read') = Meaning(source, read)
       /\ Squiggles(source', read', OwnCodes) = Squiggles(source, read, OwnCodes)]_editVars

\* What a name may mean once prefix is an alias of ns: what it did, or, if it was
\* written with a prefix that meant nothing, the same name of ns.
MayMean(q, prefix, ns) ==
  {q} \cup IF q[Len(q) - 1] = prefix /\ ~Resolves(read.meta, prefix) THEN {[q EXCEPT ![Len(q) - 1] = ns]} ELSE {}

\* The completions FixesClear speaks of: the file has an ns form, the index
\* knows it as it is, the alias is not the name of the file or of a namespace
\* the file requires (auto_require_pool looks for other aliases only), and a
\* keyword without a namespace does not become a key of #:ns{...}.
InTime == NsFormAt(source) # 0 /\ indexed = read.meta
Shadows(prefix) == prefix \in (Range(read.meta.requires) \cup {read.meta.name}) \ DOMAIN read.meta.aliases
ReadInNsMap(means) == means[2] = "" /\ \E m \in EveryForm(source) : m.k = "nsmap"
Completed(action) ==
  action.kind = "complete" /\ InTime /\ ~Shadows(action.prefix) /\ ~ReadInNsMap(action.means)

\* The squiggle and the fix never disagree: one Clean leaves nothing that is
\* reported unused and nothing for a second Clean to do; an added require
\* resolves its prefix and no other, moves only what was written with it, and
\* if it was added for a usage it is not itself unused; an accepted completion
\* item means what the list said, moves nothing else and squiggles nothing.
FixesClear ==
  [][LET before == Meaning(source, read)
         after  == Meaning(source', read')
         Moves(i) == after[i] \notin MayMean(before[i], took'.prefix, took'.ns)
         New(codes) == Squiggles(source', read', codes) \ Squiggles(source, read, codes)
     IN  /\ took'.kind = "clean" => UnusedRequires(source') = {} /\ CleanNs(source') = source'
         /\ took'.kind = "add" =>
              /\ Squiggles(source', read', {"unresolved-namespace"})
                   = Squiggles(source, read, {"unresolved-namespace"}) \ {<<"unresolved-namespace", took'.prefix>>}
              /\ DOMAIN after = DOMAIN before /\ ~\E i \in DOMAIN after : Moves(i)
              /\ took'.prefix \in UsedPrefixes(source) => \A d \in UnusedRequires(source') : d.of # took'.ns
         /\ Completed(took') =>
              /\ DOMAIN after = DOMAIN before /\ ~\E i \in DOMAIN after \ {took'.at} : Moves(i)
              /\ after[took'.at] = took'.means
              /\ New({"unresolved-namespace", "duplicate-require"}) = {}]_editVars

=============================================================================
