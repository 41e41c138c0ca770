---------------------------- MODULE SyntaxTrees ----------------------------
(***************************************************************************)
(* The parse tree as the extractor reads it: forms with their source       *)
(* ranges, the metadata of the file's ns form, and how the head of a list  *)
(* is classified.  Every walk of src/index/extractor.rs (Occurrences,      *)
(* LocalScopes, NsForms) is written over these.                            *)
(*                                                                         *)
(* A form is a record: its kind, the namespace part and the text of a      *)
(* symbol or keyword, whether it has the marker (`::` of a keyword, the    *)
(* `^:private` of a symbol), and its children.  Texts are names, never     *)
(* characters.  A source is one line, so a position is an offset; every    *)
(* name part and every bracket is one character wide.                      *)
(***************************************************************************)
EXTENDS Integers, SequencesExt

Form(k, ns, t, mark, kids) == [k |-> k, ns |-> ns, t |-> t, mark |-> mark, kids |-> kids]

Sym(t)        == Form("sym", "", t, FALSE, <<>>)
QSym(ns, t)   == Form("sym", ns, t, FALSE, <<>>)
Kwd(t)        == Form("kwd", "", t, FALSE, <<>>)
QKwd(ns, t)   == Form("kwd", ns, t, FALSE, <<>>)
AutoKwd(ns, t) == Form("kwd", ns, t, TRUE, <<>>)      \* ::t, or ::ns/t
Str           == Form("str", "", "doc", FALSE, <<>>)
Lst(kids)     == Form("list", "", "", FALSE, kids)
Vec(kids)     == Form("vec", "", "", FALSE, kids)
MapLit(kids)  == Form("map", "", "", FALSE, kids)
Quoted(n)     == Form("quote", "", "", FALSE, <<n>>)
Discard(n)    == Form("dis", "", "", FALSE, <<n>>)
ReadCond(kids) == Form("cond", "", "", FALSE, kids)
NsMapLit(t, mark, kids) == Form("nsmap", "", t, mark, kids) \* #:t{…} #::t{…} #::{…}
File(kids)    == Form("source", "", "", FALSE, kids)

-----------------------------------------------------------------------------
(* Ranges: from, to, and where the name part starts. *)

Leaf(n)  == n.k \in {"sym", "kwd", "str"}
Opens(n) == CASE n.k = "source" -> 0 [] n.k \in {"cond", "dis"} -> 2
              [] n.k = "nsmap" -> IF n.mark /\ n.t # "" THEN 5 ELSE 4 [] OTHER -> 1
Closes(n) == IF n.k \in {"quote", "dis", "source"} THEN 0 ELSE 1

Prefix(n) == (IF n.k = "kwd" THEN IF n.mark THEN 2 ELSE 1 ELSE 0)
             + (IF n.ns = "" THEN 0 ELSE 2)

\* The form with every range filled in, from offset at. gap is the space
\* written next to a bracket: none, or one; two names are always apart.
RECURSIVE Place(_, _, _)
Place(n, at, gap) ==
  LET Between(a, b) == IF Leaf(a) /\ Leaf(b) THEN 1 ELSE gap
      Put(acc, c)   == LET p == Place(c, acc.at + (IF acc.kids = <<>> THEN 0
                                                   ELSE Between(Last(acc.kids), c)), gap)
                       IN [kids |-> Append(acc.kids, p), at |-> p.to]
      inner == FoldLeft(Put, [kids |-> <<>>, at |-> at + Opens(n)], n.kids)
      name  == IF n.k = "nsmap" THEN at + Opens(n) - 2 ELSE at + Prefix(n)
  IN  [k |-> n.k, ns |-> n.ns, t |-> n.t, mark |-> n.mark, kids |-> inner.kids,
       from |-> at, name |-> name,
       to |-> IF Leaf(n) THEN name + 1 ELSE inner.at + Closes(n)]

\* lsp_range_contains: inclusive at both ends.
Holds(n, pos) == n.from <= pos /\ pos <= n.to
NameRange(n)  == <<n.name, n.name + 1>>
NsRange(n)    == <<n.name - 2, n.name - 1>>
WholeRange(n) == <<n.from, n.to>>

\* named_children: the forms, without discards.
Kids(n)       == SelectSeq(n.kids, LAMBDA c : c.k # "dis")
Rest(s, i)    == SubSeq(s, i, Len(s))
IsAt(s, i, k) == i <= Len(s) /\ s[i].k = k
PlainKwd(n, t) == n.k = "kwd" /\ n.ns = "" /\ ~n.mark /\ n.t = t \* :t, as it is written
Concat(S(_), s) == FlattenSeq([i \in DOMAIN s |-> S(s[i])])

\* chunks(2): the pairs of a map or binding vector, a half-typed last one left out.
Pairs(s) == [i \in 1..(Len(s) \div 2) |-> <<s[2*i - 1], s[2*i]>>]

-----------------------------------------------------------------------------
(* Names. A var is <<ns, name>>, a keyword <<":", ns, name>>. *)

Get(f, x, otherwise) == IF x \in DOMAIN f THEN f[x] ELSE otherwise
Aliased(meta, ns)    == Get(meta.aliases, ns, ns)
NoMap   == [x \in {} |-> ""]
NoMeta  == [name |-> "", aliases |-> NoMap, refers |-> NoMap, refer_all |-> <<>>,
            requires |-> <<>>, as_aliases |-> {}, imports |-> NoMap,
            core_excludes |-> {}, in_ns |-> FALSE]

CoreNs == {"clojure.core", "cljs.core"}
CoreOf(dialect) == IF dialect = "cljs" THEN "cljs.core" ELSE "clojure.core"

\* keyword_fqn: none for an unqualified keyword, nor for ::k without an ns form.
KeywordFqn(kw, meta) ==
  CASE kw.ns # ""                     -> <<":", IF kw.mark THEN Aliased(meta, kw.ns) ELSE kw.ns, kw.t>>
    [] kw.ns = "" /\ kw.mark /\ meta.name # "" -> <<":", meta.name, kw.t>>
    [] OTHER                          -> <<>>

\* keyword_occurrence_fqn: a usage :k counts as :k.
KeywordOccurrenceFqn(kw, meta) ==
  IF KeywordFqn(kw, meta) # <<>> THEN KeywordFqn(kw, meta)
  ELSE IF kw.ns # "" \/ kw.mark THEN <<>> ELSE <<":", "", kw.t>>

\* resolve_head_fqn; << >> when a bare name has no namespace to be in.
ResolveHeadFqn(head, meta) ==
  CASE head.ns # ""                 -> <<Aliased(meta, head.ns), head.t>>
    [] head.ns = "" /\ head.t \in DOMAIN meta.refers -> meta.refers[head.t]
    [] OTHER                        -> IF meta.name = "" THEN <<>> ELSE <<meta.name, head.t>>

\* head_fqn_candidates: what the head may name, the most specific first.
HeadFqnCandidates(head, meta) ==
  LET own == ResolveHeadFqn(head, meta)
  IN  (IF own = <<>> THEN <<>> ELSE <<own>>)
      \o (IF head.ns = "" /\ head.t \notin DOMAIN meta.refers
          THEN [i \in DOMAIN meta.refer_all |-> <<meta.refer_all[i], head.t>>] ELSE <<>>)

\* The first candidate a table has an entry for, with the entry; << >> if none.
FirstIn(table, candidates) ==
  LET hits == SelectSeq(candidates, LAMBDA q : q \in DOMAIN table)
  IN  IF hits = <<>> THEN <<>> ELSE <<hits[1], table[hits[1]]>>

DefSymbols == {"def", "defonce", "defn", "defn-", "defmacro", "defmulti", "defmethod",
               "defprotocol", "defrecord", "deftype", "declare"}
FromMacroFqn == [q \in {<<"clojure.test", "deftest">>, <<"clojure.test", "deftest-">>, <<"cljs.test", "deftest">>,
                        <<"clojure.test.check.clojure-test", "defspec">>} |->
                   IF q[2] = "defspec" THEN "def" ELSE "deftest"]
Are          == [q \in {<<"clojure.test", "are">>, <<"cljs.test", "are">>} |-> "are"]
SelectorFqns == {<<"clojure.core", "selector">>, <<"cljs.core", "selector">>}
LetLike      == {"let", "loop", "for", "doseq", "when-let", "if-let", "when-some",
                 "if-some", "with-open", "dotimes"}

\* qualified_head_def_kind: mu/defn defines what defn does, if a symbol follows.
QualifiedHeadDefKind(c) ==
  IF c[1].ns # "" /\ IsAt(c, 2, "sym") /\ c[1].t \in DefSymbols THEN c[1].t ELSE ""

\* head_def_kind: <<fqn, kind>> of a defining macro, or << >>. The :lint-as
\* configuration comes before the built-in table, candidate by candidate, and
\* both before the name part of a qualified head.
HeadDefKind(c, meta, lintAs) ==
  LET macro == FirstIn(lintAs @@ FromMacroFqn, HeadFqnCandidates(c[1], meta))
      byName == QualifiedHeadDefKind(c)
  IN  IF macro # <<>> THEN macro
      ELSE IF byName = "" THEN <<>> ELSE <<ResolveHeadFqn(c[1], meta), byName>>

\* are_head_fqn and lint_as_form: by fqn, like every macro table.
AreHeadFqn(head, meta) == FirstIn(Are, HeadFqnCandidates(head, meta))
LintAsForm(head, meta, forms) == FirstIn(forms, HeadFqnCandidates(head, meta))

\* head_resolves_to_core, and the core form a head then names, the :lint-as'd
\* target of a binding macro first; "" when it is an ordinary call.
ResolvesToCore(head, meta) == head.ns = "" \/ Aliased(meta, head.ns) \in CoreNs
HeadForm(head, meta, forms) ==
  LET mapped == LintAsForm(head, meta, forms)
  IN  CASE head.k # "sym"                -> ""
        [] head.k = "sym" /\ mapped # <<>> -> mapped[2]
        [] OTHER -> IF ResolvesToCore(head, meta) THEN head.t ELSE ""

\* is_core_selector: (selector {…}), unless the bare name is a local, referred
\* from elsewhere or excluded.
IsCoreSelector(c, meta, locals) ==
  /\ c[1].k = "sym" /\ IsAt(c, 2, "map")
  /\ IF c[1].ns # "" THEN c[1].t = "selector" /\ ResolvesToCore(c[1], meta)
     ELSE /\ c[1].t \notin locals
          /\ IF c[1].t \in DOMAIN meta.refers THEN meta.refers[c[1].t] \in SelectorFqns
             ELSE c[1].t = "selector" /\ "selector" \notin meta.core_excludes

-----------------------------------------------------------------------------
(* What the walks share about definitions and patterns. *)

IsSchemaMarker(n) == n.k = "kwd" /\ ~n.mark /\ n.ns = "" /\ n.t = "-"
ArityBody(n)      == n.k = "list" /\ IsAt(Kids(n), 1, "vec")

\* skip_return_schema, skip_def_preamble: where the parameters can start.
SkipReturnSchema(c, i) ==
  IF i <= Len(c) /\ IsSchemaMarker(c[i]) THEN IF i + 2 <= Len(c) + 1 THEN i + 2 ELSE Len(c) + 1 ELSE i
SkipDefPreamble(c, start) ==
  LET i == SkipReturnSchema(c, start)
      j == IF IsAt(c, i, "str") THEN i + 1 ELSE i
      k == IF IsAt(c, j, "map") THEN j + 1 ELSE j
  IN  SkipReturnSchema(c, k)

\* key_directive: decided by the name part, so ::keys and :my.ns/syms! count.
KeyRead == [t \in {"keys", "keys!", "syms", "syms!", "strs", "strs!"} |->
              IF t \in {"keys", "keys!"} THEN "keywords"
              ELSE IF t \in {"syms", "syms!"} THEN "symbols" ELSE "strings"]
IsKeyDirective(n) == n.k = "kwd" /\ n.t \in DOMAIN KeyRead
IsOr(n)           == n.k = "kwd" /\ n.t = "or" /\ n.ns = "" /\ ~n.mark

\* split_key_entries: what binds, before &, and the literal keys after it.
IsAmp(n) == n.k = "sym" /\ n.ns = "" /\ n.t = "&"
SplitKeyEntries(vec) ==
  LET entries == Kids(vec)
      amps    == {i \in DOMAIN entries : IsAmp(entries[i])}
      amp     == IF amps = {} THEN Len(entries) + 1 ELSE CHOOSE i \in amps : \A j \in amps : i <= j
  IN  [bound |-> SubSeq(entries, 1, amp - 1), literal |-> Rest(entries, amp + 1)]
=============================================================================
