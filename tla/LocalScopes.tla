---------------------------- MODULE LocalScopes ----------------------------
(***************************************************************************)
(* The scope walk of src/index/extractor.rs: from the root down to a       *)
(* position, collecting the locals visible there, and what go-to-          *)
(* definition, find-references and rename of a local make of it.           *)
(*                                                                         *)
(* It is a second reading of the same binding forms: Occurrences walks     *)
(* the whole file with the bindings in hand, this one goes down one path   *)
(* and asks again at every form.  Renames composes it with the rest.       *)
(***************************************************************************)
EXTENDS Occurrences

\* A walk at pos: collects in out, the innermost last.
\* cx is the same record as the occurrence walk's.
Found(s, pos) == SelectSeq(s, LAMBDA n : Holds(n, pos))

RECURSIVE WalkScope(_, _, _, _), Targets(_)

\* descend_into, and the loops over a body: the first form that holds pos.
Descend(s, cx, pos, out) ==
  IF Found(s, pos) = <<>> THEN out ELSE WalkScope(Found(s, pos)[1], cx, pos, out)

\* collect_binding_targets(_seq): the twin of CollectNames, without usages.
TargetsSeq(items) ==
  LET Skipped(i) == IsSchemaMarker(items[i]) \/ (i > 1 /\ IsSchemaMarker(items[i - 1]))
      Item(i)    == IF Skipped(i) THEN <<>> ELSE Targets(items[i])
  IN  FlattenSeq([i \in DOMAIN items |-> Item(i)])
TargetsOfPair(k, v) ==
  LET bound == SplitKeyEntries(v).bound
      kws   == SelectSeq(bound, LAMBDA n : n.k = "kwd")
  IN  CASE IsKeyDirective(k) /\ v.k = "vec" ->
             [i \in DOMAIN kws |-> Local(kws[i])]
             \o TargetsSeq(SelectSeq(bound, LAMBDA n : n.k # "kwd"))
        [] k.k # "kwd" -> Targets(k)
        [] OTHER -> IF IsOr(k) THEN <<>> ELSE Targets(v)
Targets(p) ==
  CASE p.k = "sym" -> IF p.t \in {"&", "_"} THEN <<>> ELSE <<Local(p)>>
    [] p.k = "map" -> Concat(LAMBDA q : TargetsOfPair(q[1], q[2]), Pairs(Kids(p)))
    [] p.k = "vec" -> TargetsSeq(Kids(p))
    [] OTHER       -> Concat(Targets, Kids(p))

\* pos_in_or_default, pos_in_schema_annotation: pos is in an expression that is
\* evaluated outside the pattern.
RECURSIVE InOrDefault(_, _)
InOrDefault(n, pos) ==
  \/ /\ n.k = "map"
     /\ \E q \in Range(Pairs(Kids(n))) :
          /\ IsOr(q[1]) /\ q[2].k = "map"
          /\ \E d \in Range(Pairs(Kids(q[2]))) : Holds(d[2], pos)
  \/ \E c \in Range(Kids(n)) : InOrDefault(c, pos)
InSchemaAnnotation(n, pos) ==
  \E i \in 2..Len(Kids(n)) : IsSchemaMarker(Kids(n)[i - 1]) /\ Holds(Kids(n)[i], pos)
OutsideOf(vec, pos) == Holds(vec, pos) /\ (InOrDefault(vec, pos) \/ InSchemaAnnotation(vec, pos))

-----------------------------------------------------------------------------
(* Binding forms: [out, done], done once pos was inside what was walked. *)

Done(out)      == [out |-> out, done |-> TRUE]
Carry(out)     == [out |-> out, done |-> FALSE]
Steps(S(_, _), s, out) ==
  FoldLeft(LAMBDA acc, n : IF acc.done THEN acc ELSE S(acc.out, n), Carry(out), s)

\* walk_scope_binding_vec: a pair's names are in scope in the pairs after it.
\* A trailing pattern without a value binds too.
RECURSIVE ScopeBindingVec(_, _, _, _)
ScopeBindingVec(vec, cx, pos, out) ==
  LET items == Kids(vec)
      half  == [i \in 1..((Len(items) + 1) \div 2) |-> SubSeq(items, 2*i - 1, Min({2*i, Len(items)}))]
      Value(acc, p) == IF Len(p) = 2 /\ Holds(p[2], pos) THEN Done(WalkScope(p[2], cx, pos, acc))
                       ELSE Carry(acc)
      Pattern(acc, p) == [out |-> acc \o Targets(p[1]), done |-> Holds(p[1], pos)]
      Pair(acc, p) ==
        CASE PlainKwd(p[1], "let") ->
               IF Len(p) = 2 /\ p[2].k = "vec" THEN ScopeBindingVec(p[2], cx, pos, acc) ELSE Carry(acc)
          [] p[1].k = "kwd" /\ ~PlainKwd(p[1], "let") -> Value(acc, p)
          [] OTHER -> IF Value(acc, p).done THEN Value(acc, p) ELSE Pattern(acc, p)
      all == Steps(Pair, half, out)
  IN  IF all.done THEN all ELSE [all EXCEPT !.done = Holds(vec, pos)]

\* walk_scope_let
ScopeLet(c, cx, pos, out) ==
  LET bound == IF IsAt(c, 2, "vec") THEN ScopeBindingVec(c[2], cx, pos, out) ELSE Carry(out)
  IN  IF bound.done THEN bound.out ELSE Descend(Rest(c, 3), cx, pos, bound.out)

\* walk_scope_binding_tail
ScopeBindingTail(c, cx, pos, out) ==
  LET bound == IF IsAt(c, 3, "sym") THEN Targets(c[3]) ELSE <<>>
  IN  CASE Len(c) >= 2 /\ Holds(c[2], pos) -> WalkScope(c[2], cx, pos, out)
        [] IsAt(c, 3, "sym") /\ Holds(c[3], pos) -> out \o bound
        [] OTHER -> IF Found(Rest(c, 4), pos) = <<>> THEN out
                    ELSE Descend(Rest(c, 4), cx, pos, out \o bound)

\* walk_scope_are: a value sees nothing of the argv.
ScopeAreAll(c, cx, pos, out) ==
  IF Holds(c[2], pos) THEN out \o Targets(c[2]) ELSE Descend(Rest(c, 3), cx, pos, out \o Targets(c[2]))
ScopeAre(c, cx, pos, out) ==
  CASE Holds(c[2], pos) -> out \o Targets(c[2])
    [] ~Holds(c[2], pos) /\ Len(c) >= 3 /\ Holds(c[3], pos) ->
         WalkScope(c[3], cx, pos, out \o Targets(c[2]))
    [] OTHER -> Descend(Rest(c, 4), cx, pos, out)

\* walk_scope_fn_tail: an arity list only while no parameter vector was seen.
ScopeFnTail(parts, cx, pos, out) ==
  LET Params(acc, n) == IF OutsideOf(n, pos) THEN acc ELSE acc \o Targets(n)
      Part(st, n) ==
        CASE st.done -> st
          [] ~st.done /\ n.k = "vec" /\ ~st.bound ->
               [out |-> Params(st.out, n), done |-> Holds(n, pos), bound |-> TRUE]
          [] OTHER ->
               CASE ~Holds(n, pos) -> st
                 [] Holds(n, pos) /\ ~st.bound /\ ArityBody(n) ->
                      [st EXCEPT !.done = TRUE,
                                 !.out = Descend(Rest(Kids(n), 2), cx, pos, Params(@, Kids(n)[1]))]
                 [] OTHER -> [st EXCEPT !.done = TRUE, !.out = WalkScope(n, cx, pos, @)]
  IN  FoldLeft(Part, [out |-> out, done |-> FALSE, bound |-> FALSE], parts).out

\* walk_scope_fn
ScopeFn(c, cx, pos, out) ==
  IF IsAt(c, 2, "sym") THEN ScopeFnTail(Rest(c, 3), cx, pos, out \o Targets(c[2]))
  ELSE ScopeFnTail(Rest(c, 2), cx, pos, out)

\* walk_scope_letfn
ScopeLetfn(c, cx, pos, out) ==
  LET lists == IF IsAt(c, 2, "vec") THEN SelectSeq(Kids(c[2]), LAMBDA s : s.k = "list") ELSE <<>>
      Name(s) == IF IsAt(Kids(s), 1, "sym") THEN Targets(Kids(s)[1]) ELSE <<>>
      all   == out \o Concat(Name, lists)
      here  == Found(lists, pos)
  IN  IF here # <<>> THEN ScopeFnTail(Rest(Kids(here[1]), 2), cx, pos, all)
      ELSE Descend(Rest(c, 3), cx, pos, all)

\* walk_scope_type_specs: the method's name is outside its params' scope.
ScopeTypeSpecs(specs, cx, pos, out) ==
  LET spec  == Found(specs, pos)[1]
      inner == Kids(spec)
  IN  CASE Found(specs, pos) = <<>> -> out
        [] Found(specs, pos) # <<>> /\ spec.k = "list" /\ IsAt(inner, 1, "sym") ->
             IF Holds(inner[1], pos) THEN out ELSE ScopeFnTail(Rest(inner, 2), cx, pos, out)
        [] OTHER -> WalkScope(spec, cx, pos, out)

\* walk_scope_def
ScopeDef(kind, c, cx, pos, out) ==
  CASE kind \in {"defn", "defn-", "defmacro"} ->
         ScopeFnTail(Rest(c, SkipDefPreamble(c, 3)), cx, pos, out)
    [] kind = "defmethod" ->
         IF Len(c) >= 3 /\ Holds(c[3], pos) THEN WalkScope(c[3], cx, pos, out)
         ELSE ScopeFnTail(Rest(c, SkipDefPreamble(c, 4)), cx, pos, out)
    [] kind \in {"defrecord", "deftype"} ->
         ScopeTypeSpecs(Rest(c, 4), cx, pos, IF IsAt(c, 3, "vec") THEN out \o Targets(c[3]) ELSE out)
    [] OTHER -> Descend(Rest(c, 3), cx, pos, out)

\* The (selector {…}) arm: only a cursor in the pattern sees its names.
ScopeSelector(c, cx, pos, out) ==
  IF Holds(c[2], pos) /\ ~InOrDefault(c[2], pos) THEN out \o Targets(c[2])
  ELSE Descend(c, cx, pos, out)

\* The forms that introduce no binding of their own keep descending.
ScopeCoreForm(form, c, cx, pos, out) ==
  LET Specs(i) == ScopeTypeSpecs(Rest(c, i), cx, pos, out)
      Typed    == IF Len(c) >= 2 /\ Holds(c[2], pos) THEN WalkScope(c[2], cx, pos, Specs(3)) ELSE Specs(3)
  IN  CASE form \in DefSymbols -> ScopeDef(form, c, cx, pos, out)
        [] form \in LetLike    -> ScopeLet(c, cx, pos, out)
        [] form = "fn"         -> ScopeFn(c, cx, pos, out)
        [] form = "letfn"      -> ScopeLetfn(c, cx, pos, out)
        [] form \in {"catch", "as->"} -> ScopeBindingTail(c, cx, pos, out)
        [] form \in {"extend-type", "extend-protocol"} -> Typed
        [] form = "reify"      -> Specs(2)
        [] OTHER               -> Descend(c, cx, pos, out)

\* walk_scope: the order of walk_list.
WalkScope(n, cx, pos, out) ==
  LET c   == Kids(n)
      def == HeadDefKind(c, cx.meta, cx.lintAs)
  IN  CASE n.k # "list" \/ c = <<>> -> Descend(c, cx, pos, out)
        [] n.k = "list" /\ IsAt(c, 1, "sym") /\ def # <<>> -> ScopeDef(def[2], c, cx, pos, out)
        [] n.k = "list" /\ IsAt(c, 1, "sym") /\ def = <<>> /\ IsAt(c, 2, "vec")
             /\ AreHeadFqn(c[1], cx.meta) # <<>> -> ScopeAre(c, cx, pos, out)
        [] n.k = "list" /\ IsAt(c, 1, "sym") /\ def = <<>>
             /\ IsCoreSelector(c, cx.meta, Names(out)) -> ScopeSelector(c, cx, pos, out)
        [] OTHER -> ScopeCoreForm(HeadForm(c[1], cx.meta, cx.lintForms), c, cx, pos, out)

\* locals_at_node, and the binding a name means there: << >> when it is no local.
LocalsAt(root, cx, pos) == Descend(Kids(root), cx, pos, <<>>)
Resolve(root, cx, pos, name) ==
  LET seen == LocalsAt(root, cx, pos)
  IN  IF name \in Names(seen) THEN Innermost(seen, name).at ELSE <<>>

-----------------------------------------------------------------------------
(* References of a local. *)

RECURSIVE AllForms(_), NameOccurrences(_, _), QuotedOccurrences(_, _, _)
AllForms(n) == {n} \cup UNION {AllForms(c) : c \in Range(Kids(n))}

\* collect_name_occurrences, and what it leaves out: the names under a quote.
NameOccurrences(n, name) ==
  CASE n.k = "quote" -> {}
    [] n.k = "sym"   -> IF n.ns = "" /\ n.t = name THEN {NameRange(n)} ELSE {}
    [] OTHER         -> UNION {NameOccurrences(c, name) : c \in Range(Kids(n))}
QuotedOccurrences(n, quoted, name) ==
  LET q == quoted \/ n.k = "quote"
  IN  IF n.k = "sym" THEN IF q /\ n.ns = "" /\ n.t = name THEN {NameRange(n)} ELSE {}
      ELSE UNION {QuotedOccurrences(c, q, name) : c \in Range(Kids(n))}

\* is_destructured_key: the binding at slot is an entry of a :keys vector.
RECURSIVE Evaluated(_)
Evaluated(n) == IF n.k = "quote" THEN {} ELSE {n} \cup UNION {Evaluated(c) : c \in Range(Kids(n))}
KeyVectors(n) ==
  IF n.k # "map" THEN {}
  ELSE {Kids(n)[i] : i \in {j \in 2..Len(Kids(n)) : IsKeyDirective(Kids(n)[j - 1]) /\ Kids(n)[j].k = "vec"}}
IsDestructuredKey(root, slot) ==
  \E v \in UNION {KeyVectors(m) : m \in Evaluated(root)} :
    \E n \in Range(Kids(v)) : n.k \in {"sym", "kwd"} /\ NameRange(n) = slot

\* are_template_of_argv: the templates slot's `are` substitutes into, innermost
\* argv only.
TemplateOfArgv(root, cx, slot) ==
  LET argvs == {n \in AllForms(root) :
                  /\ n.k = "list" /\ IsAt(Kids(n), 1, "sym") /\ IsAt(Kids(n), 2, "vec")
                  /\ AreHeadFqn(Kids(n)[1], cx.meta) # <<>>
                  /\ \E s \in AllForms(Kids(n)[2]) : s.k \in {"sym", "kwd"} /\ NameRange(s) = slot}
      inner == {n \in argvs : \A m \in argvs : m.from <= n.from}
  IN  {Kids(n)[3] : n \in {m \in inner : Len(Kids(m)) >= 3}}

\* local_references_at_tree, for a cursor on the symbol n: unqualified, or the
\* name half of a {:keys [c/x]} entry (destructured_entry_name_at_tree), which
\* binds x if the binding it resolves to is the entry itself.
NoRefs == [slot |-> <<>>, usages |-> {}]
NamesLocal(root, pos, n) ==
  /\ n.k = "sym"
  /\ n.ns # "" => n.name <= pos /\ pos <= n.name + 1 /\ IsDestructuredKey(root, NameRange(n))
LocalReferences(root, cx, pos, n) ==
  LET occurrences == NameOccurrences(root, n.t)
      slot        == Resolve(root, cx, pos, n.t)
      onName      == \E r \in occurrences : r[1] <= pos /\ pos <= r[2]
      quoted      == UNION {QuotedOccurrences(t, FALSE, n.t) : t \in TemplateOfArgv(root, cx, slot)}
  IN  IF slot = <<>> \/ ~NamesLocal(root, pos, n) \/ (~onName /\ slot # NameRange(n)) THEN NoRefs
      ELSE [slot |-> slot,
            usages |-> quoted \cup {r \in occurrences \ {slot} : Resolve(root, cx, r[1], n.t) = slot}]

\* reject_local_capture: the new name is bound where the local or a use of it is.
Captured(root, cx, refs, new) ==
  LET sites == refs.usages \cup {refs.slot}
  IN  \E site \in sites : new \in Names(LocalsAt(root, cx, site[1]))

-----------------------------------------------------------------------------
(* What the two walks have to agree on. *)

Tokens(root) == {n \in AllForms(root) : n.k = "sym" /\ n.ns = "" /\ n.t \notin {"&", "_", "%"}}

\* The slot the occurrence walk gave the token, << >> if it is no local.
Slot(n, events) ==
  LET uses == {e \in Of(events, "use") : e.at = NameRange(n)}
      own  == {e \in Of(events, "bind") : e.at = NameRange(n)}
  IN  IF own # {} THEN {NameRange(n)} ELSE {e.slot : e \in uses}

\* Where the walks are known to part ways (the README shows each). The scope
\* walk takes what stands before the parameters of a function, its name
\* included, to see them, and a record's name and its methods' its fields; it
\* reads an :or map or a schema only in parameters as outside the pattern; and
\* the occurrence walk takes a body list after the parameters that starts with
\* a vector for an arity. An :or key and (quote x) data are left alone by one.
Headed(n, heads) == {f \in AllForms(n) : f.k = "list" /\ IsAt(Kids(f), 1, "sym") /\ Kids(f)[1].t \in heads}
FnHeads   == {"fn", "defn", "defmethod"}
TypeHeads == {"defrecord", "deftype"}
At(n, i)  == IF i <= Len(Kids(n)) THEN {Kids(n)[i]} ELSE {}
Impls(n, i) == {s \in Range(Rest(Kids(n), i)) : s.k = "list"}
OrMaps(n) == {q[2] : q \in {p \in UNION {Range(Pairs(Kids(m))) : m \in AllForms(n)} : IsOr(p[1])}}
Schemas(n) == {f \in AllForms(n) : \E m \in AllForms(n) : \E i \in 2..Len(Kids(m)) :
                 Kids(m)[i] = f /\ IsSchemaMarker(Kids(m)[i - 1])}
Fns(root) == {Rest(Kids(f), 2) : f \in Headed(root, FnHeads)}
             \cup {Kids(s) : s \in UNION {UNION {Impls(v, 1) : v \in At(f, 2)} : f \in Headed(root, {"letfn"})}}
ParamsAt(parts) == {i \in DOMAIN parts : parts[i].k = "vec"}
Doubtful(root) ==
  LET patterns == UNION {At(f, 2) : f \in Headed(root, LetLike \cup {"are"})}
                  \cup UNION {At(f, 3) : f \in Headed(root, TypeHeads)}
      Clash(n, v) == {t \in Tokens(n) : \E b \in Tokens(v) : b.t = t.t}
      named(f) == At(f, 2) \cup UNION {At(s, 1) : s \in Impls(f, 4)}
      methods  == UNION {UNION {Clash(n, v) : n \in named(f), v \in At(f, 3)} : f \in Headed(root, TypeHeads)}
      before   == UNION {UNION {UNION {Clash(p[i], p[k]) : i \in 1..(k - 1)} : k \in ParamsAt(p)} : p \in Fns(root)}
      bodies   == UNION {{p[i] : i \in {j \in DOMAIN p : ArityBody(p[j]) /\ \E k \in ParamsAt(p) : k < j}} : p \in Fns(root)}
      outside  == UNION {OrMaps(n) \cup Schemas(n) : n \in patterns}
      orKeys   == {q[1] : q \in UNION {Range(Pairs(Kids(o))) : o \in OrMaps(root)}}
  IN  {NameRange(n) : n \in UNION {Tokens(f) : f \in methods \cup before \cup bodies \cup outside \cup orKeys
                                                    \cup Headed(root, {"quote"})}}

\* The cursors the properties are about: on a name that is evaluated.
Cursors(root) == {n \in Tokens(root) : /\ NameRange(n) \notin Doubtful(root)
                                        /\ NameRange(n) \in NameOccurrences(root, n.t)}

\* Find-references of a local, from any of the cursors, lists exactly the uses
\* the unused-binding lint counts for it, and a name the lint takes for a var
\* is no local.
Agree(root, cx, events, cursors, doubt) ==
  LET Uses(s) == {u.at : u \in {e \in Of(events, "use") : e.slot = s}}
      Sure(refs) == [refs EXCEPT !.usages = @ \ doubt]
  IN  \A n \in cursors :
        Sure(LocalReferences(root, cx, n.name, n))
          \in IF Slot(n, events) = {} THEN {NoRefs}
              ELSE {[slot |-> s, usages |-> Uses(s) \ doubt] : s \in Slot(n, events)}
=============================================================================
