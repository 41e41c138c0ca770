---------------------------- MODULE Occurrences ----------------------------
(***************************************************************************)
(* The occurrence walk of src/index/extractor.rs: one pass over a file     *)
(* that records every usage, binds the locals a usage may mean instead,    *)
(* and finds the bindings nothing uses.                                    *)
(*                                                                         *)
(* The code mutates a stack of frames; here a walk is given the bindings   *)
(* in scope, innermost last, and returns what it did, in order:            *)
(*   occ    a usage of fqn, reported at a range                            *)
(*   use    the token at `at` resolved to the local bound at `slot`        *)
(*   bind   a local was bound; lint says whether an unused one is reported *)
(*   panic  an index past the end of a slice                               *)
(***************************************************************************)
EXTENDS SyntaxTrees

\* cx: what OccurrenceCtx holds.
\*   meta, dialect, defs (names defined in the file), declared (where a
\*   surviving declare names its var), lintAs, lintForms, core (core's names)

Occ(fqn, range)     == <<[e |-> "occ", fqn |-> fqn, at |-> range]>>
OccIf(fqn, range)   == IF fqn = <<>> THEN <<>> ELSE Occ(fqn, range)
Local(n)            == [name |-> n.t, at |-> NameRange(n)]
Binds(locals, lint) == [i \in DOMAIN locals |-> [e |-> "bind", name |-> locals[i].name,
                                                 at |-> locals[i].at, lint |-> lint]]
Panic == <<[e |-> "panic"]>>

RecordKeyword(kw, cx) == OccIf(KeywordOccurrenceFqn(kw, cx.meta), WholeRange(kw))

Names(env) == {env[i].name : i \in DOMAIN env}

\* mark_used: the innermost binding of the name.
Innermost(env, name) ==
  env[CHOOSE i \in DOMAIN env : /\ env[i].name = name
                                /\ \A j \in DOMAIN env : j > i => env[j].name # name]
UseOf(n, env) == <<[e |-> "use", slot |-> Innermost(env, n.t).at, at |-> NameRange(n)]>>

\* record_occurrence: a qualified usage through its alias, a local, a refer, a
\* name of the file, a name of core, and otherwise one of this namespace.
BareFqn(name, cx) ==
  LET own == <<cx.meta.name, name>>
  IN  CASE name \in DOMAIN cx.meta.refers -> cx.meta.refers[name]
        [] name \notin DOMAIN cx.meta.refers /\ name \in cx.defs -> own
        [] OTHER -> IF name \in cx.core \ cx.meta.core_excludes
                    THEN <<CoreOf(cx.dialect), name>> ELSE own
RecordOccurrence(n, cx, env) ==
  LET ns == Aliased(cx.meta, n.ns)
  IN  CASE n.t \in {"&", "_", "%"} -> <<>>
        [] n.t \notin {"&", "_", "%"} /\ n.ns # "" ->
             Occ(<<IF ns = "clojure.core" THEN CoreOf(cx.dialect) ELSE ns, n.t>>, NameRange(n))
        [] OTHER -> IF n.t \in Names(env) THEN UseOf(n, env)
                    ELSE Occ(BareFqn(n.t, cx), NameRange(n))

-----------------------------------------------------------------------------
(* Namespaced maps and quoted data. *)

NsMapPrefix(n, meta) ==
  CASE n.mark /\ n.t = "" -> meta.name
    [] n.mark /\ n.t # "" -> Aliased(meta, n.t)
    [] OTHER              -> n.t

\* record_ns_map_key: an unqualified key takes the map's namespace, :_/k takes
\* none, any other keeps its own.
RecordNsMapKey(key, mapNs, cx) ==
  CASE key.ns = "_" /\ ~key.mark -> Occ(<<":", "", key.t>>, WholeRange(key))
    [] key.ns = "" /\ ~key.mark /\ mapNs # "" -> Occ(<<":", mapNs, key.t>>, WholeRange(key))
    [] OTHER -> RecordKeyword(key, cx)

\* walk_ns_map_entries: keyword keys qualified, every other entry walked as
\* the caller walks it. A trailing key has no value.
RECURSIVE Walk(_, _, _), WalkQuotedData(_, _)
WalkNsMapEntries(n, cx, env, quoted) ==
  LET entries == Kids(n)
      Entry(i) == CASE i % 2 = 1 /\ entries[i].k = "kwd" ->
                         RecordNsMapKey(entries[i], NsMapPrefix(n, cx.meta), cx)
                    [] ~(i % 2 = 1 /\ entries[i].k = "kwd") /\ quoted -> WalkQuotedData(entries[i], cx)
                    [] OTHER -> Walk(entries[i], cx, env)
  IN  FlattenSeq([i \in DOMAIN entries |-> Entry(i)])

\* walk_quoted_data: keywords count, symbols are data.
WalkQuotedData(n, cx) ==
  CASE n.k = "kwd"   -> RecordKeyword(n, cx)
    [] n.k = "nsmap" -> WalkNsMapEntries(n, cx, <<>>, TRUE)
    [] n.k = "dis"   -> <<>>
    [] OTHER         -> Concat(LAMBDA c : WalkQuotedData(c, cx), Kids(n))

-----------------------------------------------------------------------------
(* Binding patterns. *)

\* destructuring_key_ns: the namespace a directive gives its entries, or "".
DirectiveNs(kw, meta) ==
  CASE kw.ns # "" -> IF kw.mark THEN Aliased(meta, kw.ns) ELSE kw.ns
    [] kw.ns = "" -> IF kw.mark THEN meta.name ELSE ""

\* record_destructuring_keys: the keyword each entry of a :keys vector reads.
RecordDestructuringKeys(directive, vec, cx) ==
  LET ns == DirectiveNs(directive, cx.meta)
      Entry(n) ==
        CASE n.k = "kwd" -> IF ns # "" THEN Occ(<<":", ns, n.t>>, WholeRange(n))
                            ELSE RecordKeyword(n, cx)
          [] n.k = "sym" -> IF ns # "" \/ n.ns # ""
                            THEN Occ(<<":", IF ns # "" THEN ns ELSE n.ns, n.t>>, WholeRange(n))
                            ELSE <<>>
          [] OTHER -> <<>>
  IN  IF KeyRead[directive.t] = "keywords" THEN Concat(Entry, SplitKeyEntries(vec).bound) ELSE <<>>

RECURSIVE CollectNames(_, _, _)
WalkAll(s, cx, env) == Concat(LAMBDA n : Walk(n, cx, env), s)

\* collect_binding_names(_seq): the names a pattern binds, and the usages in
\* it, which are evaluated outside it: :or defaults and schema annotations.
Nothing        == [names |-> <<>>, out |-> <<>>]
Join(a, b)     == [names |-> a.names \o b.names, out |-> a.out \o b.out]
JoinAll(S(_), s) == FoldLeft(LAMBDA acc, n : Join(acc, S(n)), Nothing, s)
Expr(out)      == [names |-> <<>>, out |-> out]

CollectSeq(items, cx, env) ==
  LET Marked(i) == IsSchemaMarker(items[i])
      Item(i) == CASE Marked(i) -> Nothing
                   [] ~Marked(i) /\ i > 1 /\ Marked(i - 1) -> Expr(Walk(items[i], cx, env))
                   [] OTHER -> CollectNames(items[i], cx, env)
  IN  JoinAll(Item, [i \in DOMAIN items |-> i])

CollectKeys(k, v, cx, env) ==
  LET split == SplitKeyEntries(v)
      kws   == SelectSeq(split.bound, LAMBDA n : n.k = "kwd")
      syms  == SelectSeq(split.bound, LAMBDA n : n.k # "kwd")
      Key(n) == IF n.k = "kwd" THEN RecordKeyword(n, cx) ELSE <<>>
  IN  JoinAll(LAMBDA x : x,
        <<Expr(RecordDestructuringKeys(k, v, cx)),
          [names |-> [i \in DOMAIN kws |-> Local(kws[i])], out |-> <<>>],
          CollectSeq(syms, cx, env),
          Expr(Concat(Key, split.literal))>>)

CollectPair(k, v, cx, env) ==
  LET Default(p) == (IF p[1].k = "kwd" THEN RecordKeyword(p[1], cx) ELSE <<>>)
                    \o Walk(p[2], cx, env)
  IN  CASE IsOr(k) /\ v.k = "map" -> Expr(Concat(Default, Pairs(Kids(v))))
        [] IsKeyDirective(k) /\ v.k = "vec" -> CollectKeys(k, v, cx, env)
        [] k.k # "kwd" -> Join(CollectNames(k, cx, env),
                               Expr(IF v.k = "kwd" THEN RecordKeyword(v, cx) ELSE <<>>))
        [] OTHER -> CollectNames(v, cx, env)

CollectNames(p, cx, env) ==
  CASE p.k = "sym" -> IF p.t \in {"&", "_"} THEN Nothing ELSE [names |-> <<Local(p)>>, out |-> <<>>]
    [] p.k = "map" -> JoinAll(LAMBDA q : CollectPair(q[1], q[2], cx, env), Pairs(Kids(p)))
    [] p.k = "vec" -> CollectSeq(Kids(p), cx, env)
    [] OTHER       -> JoinAll(LAMBDA c : CollectNames(c, cx, env), Kids(p))

\* The usages of a pattern, its bindings, and a body in their scope.
Scoped(pattern, body, lint, cx, env) ==
  pattern.out \o Binds(pattern.names, lint) \o WalkAll(body, cx, env \o pattern.names)

-----------------------------------------------------------------------------
(* Binding forms. c is the list's forms, the head first. *)

\* ([params] body…), for its own arity.
WalkArity(n, lint, cx, env) ==
  LET inner == Kids(n) IN Scoped(CollectNames(inner[1], cx, env), Rest(inner, 2), lint, cx, env)

\* walk_fn_tail, and the loop of walk_def_form: the first vector binds for
\* what follows, a list that starts with one is an arity.
WalkFnTail(parts, cx, env) ==
  LET Part(acc, n) ==
        LET p == CollectNames(n, cx, acc.env)
        IN  CASE n.k = "vec" /\ ~acc.bound ->
                   [out |-> acc.out \o p.out \o Binds(p.names, TRUE),
                    env |-> acc.env \o p.names, bound |-> TRUE]
              [] ArityBody(n) -> [acc EXCEPT !.out = @ \o WalkArity(n, TRUE, cx, acc.env)]
              [] OTHER        -> [acc EXCEPT !.out = @ \o Walk(n, cx, acc.env)]
  IN  FoldLeft(Part, [out |-> <<>>, env |-> env, bound |-> FALSE], parts).out

\* walk_fn_form: an unused self-name is idiomatic, so it is never reported.
WalkFnForm(c, cx, env) ==
  IF IsAt(c, 2, "sym")
  THEN LET self == CollectNames(c[2], cx, env).names
       IN  Binds(self, FALSE) \o WalkFnTail(Rest(c, 3), cx, env \o self)
  ELSE WalkFnTail(Rest(c, 2), cx, env)

\* process_binding_pairs: each pattern binds for the pairs after it.
IsLetModifier(p) == PlainKwd(p[1], "let") /\ p[2].k = "vec"
RECURSIVE BindingPairs(_, _, _)
BindingPairs(vec, cx, env) ==
  LET Pair(acc, p) ==
        LET right == Walk(p[2], cx, acc.env)
            left  == CollectNames(p[1], cx, acc.env)
            inner == BindingPairs(p[2], cx, acc.env)
        IN  CASE IsLetModifier(p) -> [out |-> acc.out \o inner.out, env |-> inner.env]
              [] p[1].k = "kwd" /\ ~IsLetModifier(p) -> [acc EXCEPT !.out = @ \o right]
              [] OTHER -> [out |-> acc.out \o right \o left.out \o Binds(left.names, TRUE),
                           env |-> acc.env \o left.names]
  IN  FoldLeft(Pair, [out |-> <<>>, env |-> env], Pairs(Kids(vec)))

WalkLetForm(c, cx, env) ==
  LET bound == IF IsAt(c, 2, "vec") THEN BindingPairs(c[2], cx, env)
               ELSE [out |-> <<>>, env |-> env]
  IN  bound.out \o WalkAll(Rest(c, 3), cx, bound.env)

\* walk_binding_tail: (catch Class name body…), (as-> expr name body…).
WalkBindingTail(c, cx, env) ==
  LET name == IF IsAt(c, 3, "sym") THEN CollectNames(c[3], cx, env) ELSE Nothing
  IN  WalkAll(SubSeq(c, 2, IF Len(c) < 2 THEN 1 ELSE 2), cx, env)
      \o Scoped(name, Rest(c, 4), TRUE, cx, env)

\* mark_quoted_symbols_used: are substitutes into quoted data too.
RECURSIVE QuotedUses(_, _, _)
QuotedUses(n, quoted, env) ==
  LET q == quoted \/ n.k = "quote"
  IN  IF n.k = "sym" /\ q
      THEN IF n.ns = "" /\ n.t \in Names(env) THEN UseOf(n, env) ELSE <<>>
      ELSE Concat(LAMBDA c : QuotedUses(c, q, env), Kids(n))

\* walk_are_form: the argv binds in the template alone.
WalkAreForm(c, cx, env) ==
  LET argv     == CollectNames(c[2], cx, env)
      template == SubSeq(c, 3, IF Len(c) < 3 THEN 2 ELSE 3)
  IN  Scoped(argv, template, TRUE, cx, env)
      \o Concat(LAMBDA t : QuotedUses(t, FALSE, env \o argv.names), template)
      \o WalkAll(Rest(c, 4), cx, env)

\* walk_letfn_form: mutually recursive names, never reported. A spec that is
\* an empty list is sliced from its second form on.
WalkLetfnForm(c, cx, env) ==
  LET lists == IF IsAt(c, 2, "vec") THEN SelectSeq(Kids(c[2]), LAMBDA s : s.k = "list") ELSE <<>>
      Name(s) == IF IsAt(Kids(s), 1, "sym") THEN CollectNames(Kids(s)[1], cx, env).names ELSE <<>>
      names   == Concat(Name, lists)
      Fn(s)   == IF Kids(s) = <<>> THEN Panic ELSE WalkFnTail(Rest(Kids(s), 2), cx, env \o names)
  IN  Binds(names, FALSE) \o Concat(Fn, lists) \o WalkAll(Rest(c, 3), cx, env \o names)

-----------------------------------------------------------------------------
(* Type forms. *)

\* protocol_ns: where the methods of a protocol live; "" when unknown.
ProtocolNs(n, cx) ==
  CASE n.ns # "" -> Aliased(cx.meta, n.ns)
    [] n.ns = "" /\ n.t \in DOMAIN cx.meta.refers -> cx.meta.refers[n.t][1]
    [] OTHER -> IF n.t \in cx.defs THEN cx.meta.name ELSE ""

\* walk_method_impl: (name [params] body…) or (name ([params] body…) …), the
\* name a usage of the protocol's method, the params never reported.
WalkMethodImpl(n, ns, cx, env) ==
  LET inner   == Kids(n)
      rest    == Rest(inner, 2)
      Arity(a) == IF ArityBody(a) THEN WalkArity(a, FALSE, cx, env) ELSE Walk(a, cx, env)
  IN  IF ~IsAt(inner, 1, "sym") THEN WalkAll(inner, cx, env)
      ELSE (IF ns = "" THEN <<>> ELSE Occ(<<ns, inner[1].t>>, NameRange(inner[1])))
           \o (IF IsAt(rest, 1, "vec")
               THEN Scoped(CollectNames(rest[1], cx, env), Rest(rest, 2), FALSE, cx, env)
               ELSE Concat(Arity, rest))

\* walk_type_specs: a symbol names the protocol of the methods after it,
\* unless one protocol is fixed and the symbols are types.
WalkTypeSpecs(specs, fixed, ns, cx, env) ==
  LET Spec(acc, n) ==
        CASE n.k = "sym"  -> [out |-> acc.out \o RecordOccurrence(n, cx, env),
                              ns  |-> IF fixed THEN acc.ns ELSE ProtocolNs(n, cx)]
          [] n.k = "list" -> [acc EXCEPT !.out = @ \o WalkMethodImpl(n, acc.ns, cx, env)]
          [] OTHER        -> [acc EXCEPT !.out = @ \o Walk(n, cx, env)]
  IN  FoldLeft(Spec, [out |-> <<>>, ns |-> ns], specs).out

-----------------------------------------------------------------------------
(* Definitions. *)

InitKey == <<"integrant.core", "init-key">>

\* defmethod_multifn_fqn: unlike a usage, a bare name is only what it is referred as.
MultifnFqn(c, meta) ==
  CASE ~IsAt(c, 2, "sym") -> <<>>
    [] IsAt(c, 2, "sym") /\ c[2].ns # "" -> <<Aliased(meta, c[2].ns), c[2].t>>
    [] OTHER -> Get(meta.refers, c[2].t, <<>>)

\* An ig/init-key method's dispatch keyword is a definition, not a usage.
IsInitKeyDef(c, meta) ==
  /\ IsAt(c, 3, "kwd") /\ MultifnFqn(c, meta) = InitKey /\ KeywordFqn(c[3], meta) # <<>>

\* walk_def_form, by the kind of definition.
WalkDefForm(kind, c, cx, env) ==
  LET Declared(n) == IF n.k = "sym" /\ n.name \notin cx.declared
                     THEN RecordOccurrence(n, cx, env) ELSE <<>>
      fields  == IF IsAt(c, 3, "vec") THEN CollectNames(c[3], cx, env) ELSE Nothing
      start   == IF kind = "defmethod" THEN 4 ELSE 3
      clamped == IF start <= Len(c) THEN start ELSE Len(c) + 1
      params  == SkipDefPreamble(c, clamped)
      method  == (IF IsAt(c, 2, "sym") THEN RecordOccurrence(c[2], cx, env) ELSE <<>>)
                 \o (IF Len(c) < 3 \/ IsInitKeyDef(c, cx.meta) THEN <<>> ELSE Walk(c[3], cx, env))
  IN  CASE kind = "defprotocol" -> <<>>
        [] kind = "declare"     -> Concat(Declared, Rest(c, 2))
        [] kind \in {"defrecord", "deftype"} ->
             fields.out \o Binds(fields.names, FALSE)
             \o WalkTypeSpecs(Rest(c, 4), FALSE, "", cx, env \o fields.names)
        [] kind \in {"defn", "defn-", "defmacro", "defmethod"} ->
             (IF kind = "defmethod" THEN method ELSE <<>>)
             \o WalkAll(SubSeq(c, clamped, params - 1), cx, env)
             \o WalkFnTail(Rest(c, params), cx, env)
        [] OTHER -> WalkAll(Rest(c, 3), cx, env)

-----------------------------------------------------------------------------
(* The ns form's own usages. *)

\* One libspec of a :require clause: the names it refers and renames. What
\* follows such an option is its value, whatever it is.
LibspecOccurrences(items) ==
  LET ns == items[1].t
      Named(n) == IF n.k = "sym" THEN Occ(<<ns, n.t>>, NameRange(n)) ELSE <<>>
      Renamed(p) == IF p[1].k = "sym" /\ p[2].k = "sym" THEN Named(p[1]) ELSE <<>>
      Refers(n)  == PlainKwd(n, "refer") \/ PlainKwd(n, "refer-macros")
      Renames(n) == PlainKwd(n, "rename")
      Value(i) ==
        CASE Refers(items[i]) /\ IsAt(items, i + 1, "vec")  -> Concat(Named, Kids(items[i + 1]))
          [] Renames(items[i]) /\ IsAt(items, i + 1, "map") -> Concat(Renamed, Pairs(Kids(items[i + 1])))
          [] OTHER -> <<>>
      Option(acc, i) ==
        IF acc.skip THEN [acc EXCEPT !.skip = FALSE]
        ELSE [out |-> acc.out \o Value(i), skip |-> Refers(items[i]) \/ Renames(items[i])]
  IN  FoldLeft(Option, [out |-> <<>>, skip |-> FALSE], [i \in 1..(Len(items) - 1) |-> i + 1]).out

\* collect_refer_occurrences: the libspec vectors directly in a clause.
ReferOccurrences(c) ==
  LET Spec(n) == IF n.k = "vec" /\ IsAt(Kids(n), 1, "sym") THEN LibspecOccurrences(Kids(n)) ELSE <<>>
      Clause(n) == LET inner == Kids(n)
                   IN  IF n.k = "list" /\ IsAt(inner, 1, "kwd")
                          /\ inner[1].t \in {"require", "require-macros"}
                       THEN Concat(Spec, Rest(inner, 2)) ELSE <<>>
  IN  Concat(Clause, Rest(c, 3))

\* The ns form binds nothing; its attr-map is read, never evaluated.
WalkNsForm(c, cx) ==
  ReferOccurrences(c)
  \o Concat(LAMBDA n : IF n.k = "list" THEN <<>> ELSE WalkQuotedData(n, cx), Rest(c, 3))

-----------------------------------------------------------------------------
(* The walk. *)

\* The forms of a list whose head names a core or special form.
WalkCoreForm(form, c, cx, env) ==
  LET head     == RecordOccurrence(c[1], cx, env)
      target   == WalkAll(SubSeq(c, 2, IF Len(c) < 2 THEN 1 ELSE 2), cx, env)
      protocol == IF IsAt(c, 2, "sym") THEN ProtocolNs(c[2], cx) ELSE ""
  IN  CASE form = "ns"     -> WalkNsForm(c, cx)
        [] form = "quote"  -> Concat(LAMBDA n : WalkQuotedData(n, cx), Rest(c, 2))
        [] form = "letfn"  -> head \o WalkLetfnForm(c, cx, env)
        [] form \in DefSymbols -> WalkDefForm(form, c, cx, env)
        [] form \in LetLike -> head \o WalkLetForm(c, cx, env)
        [] form = "fn"     -> head \o WalkFnForm(c, cx, env)
        [] form \in {"catch", "as->"} -> head \o WalkBindingTail(c, cx, env)
        [] form = "extend-type" -> head \o target \o WalkTypeSpecs(Rest(c, 3), FALSE, "", cx, env)
        [] form = "extend-protocol" ->
             head \o target \o WalkTypeSpecs(Rest(c, 3), TRUE, protocol, cx, env)
        [] form = "reify"  -> head \o WalkTypeSpecs(Rest(c, 2), FALSE, "", cx, env)
        [] OTHER           -> WalkAll(c, cx, env)

\* walk_list: a defining macro, `are`, the core selector, then the core forms.
WalkList(c, cx, env) ==
  LET def      == HeadDefKind(c, cx.meta, cx.lintAs)
      are      == AreHeadFqn(c[1], cx.meta)
      At(fqn)  == Occ(fqn, NameRange(c[1]))
      isSym    == c[1].k = "sym"
      selector == <<CoreOf(cx.dialect), "selector">>
  IN  CASE isSym /\ def # <<>> -> At(def[1]) \o WalkDefForm(def[2], c, cx, env)
        [] isSym /\ def = <<>> /\ IsAt(c, 2, "vec") /\ are # <<>> ->
             At(are[1]) \o WalkAreForm(c, cx, env)
        [] IsCoreSelector(c, cx.meta, Names(env)) ->
             At(selector) \o CollectNames(c[2], cx, env).out \o WalkAll(Rest(c, 3), cx, env)
        [] OTHER -> WalkCoreForm(HeadForm(c[1], cx.meta, cx.lintForms), c, cx, env)

Walk(n, cx, env) ==
  CASE n.k = "sym"   -> RecordOccurrence(n, cx, env)
    [] n.k = "kwd"   -> RecordKeyword(n, cx)
    [] n.k = "nsmap" -> WalkNsMapEntries(n, cx, env, FALSE)
    [] n.k = "list"  -> IF Kids(n) = <<>> THEN <<>> ELSE WalkList(Kids(n), cx, env)
    [] n.k = "quote" -> WalkQuotedData(n, cx)
    [] n.k = "dis"   -> <<>>
    [] OTHER         -> WalkAll(Kids(n), cx, env)

-----------------------------------------------------------------------------
(* What the walk of a file tells the rest of the server. *)

Events(source, cx) == Walk(source, cx, <<>>)
Of(events, e)      == {events[i] : i \in {j \in DOMAIN events : events[j].e = e}}
=============================================================================
