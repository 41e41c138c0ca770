----------------------------- MODULE MC_Renames -----------------------------
(***************************************************************************)
(* Instances of Renames for TLC: small workspaces. Namespace a is defined  *)
(* by a.clj and its ClojureScript twin, b requires it in some way and uses *)
(* it in some way, l is a library, c an Integrant configuration; a file    *)
(* that a workspace does without is empty.                                 *)
(***************************************************************************)
EXTENDS Renames, TLC

X == Sym("x")
F == Sym("f")
HF == QSym("h", "f")
Refer == Kwd("refer")
As    == Kwd("as")
Call(head, rest)    == Lst(<<Sym(head)>> \o rest)
Defn(name, body)    == Call("defn", <<Sym(name), Vec(<<X>>), body>>)
Ns(name, specs)     == Call("ns", <<Sym(name), Lst(<<Kwd("require")>> \o specs)>>)
Alone(name)         == Call("ns", <<Sym(name)>>)
Source(forms)       == Place(File(forms), 0, 1)

MCFiles   == {"a.clj", "a.cljs", "b.clj", "l.clj", "c.edn"}
MCDialect == [f \in MCFiles |-> IF f = "a.cljs" THEN "cljs" ELSE "clj"]
NoLintAs  == [x \in {} |-> ""]
Having(sources) == [f \in MCFiles |-> IF f \in DOMAIN sources THEN Source(sources[f]) ELSE Source(<<>>)]
Config == <<MapLit(<<QKwd("a", "k"), Str>>)>>

\* How b requires a, what it says of it, and how a is written.
AsH == <<Vec(<<Sym("a"), As, Sym("h")>>)>>
ReferF   == <<Vec(<<Sym("a"), As, Sym("h"), Refer, Vec(<<F>>)>>)>>
ReferRename == <<Vec(<<Sym("a"), As, Sym("h"), Refer, Vec(<<F>>), Kwd("rename"), MapLit(<<F, Sym("g")>>)>>)>>
Requires ==
  {AsH, ReferF, ReferRename,
   <<Vec(<<Sym("a"), As, Sym("h"), Refer, Kwd("all")>>)>>,
   <<Vec(<<Sym("a"), Kwd("as-alias"), Sym("h")>>), Lst(<<Sym("a"), Vec(<<Sym("c"), As, Sym("i")>>)>>)>>}
Bodies ==
  {Vec(<<Quoted(HF), AutoKwd("h", "k"), QKwd("a", "k"), Discard(HF)>>),
   NsMapLit("h", TRUE, <<Kwd("k"), F>>),
   NsMapLit("a", FALSE, <<Kwd("k"), HF>>),
   Call("fn", <<Vec(<<F>>), F, HF>>),
   Call("let", <<Vec(<<MapLit(<<Kwd("keys"), Vec(<<HF>>)>>), F>>), F>>),
   Call("let", <<Vec(<<MapLit(<<AutoKwd("h", "keys"), Vec(<<Sym("k")>>)>>), F>>), Sym("k")>>),
   Call("let", <<Vec(<<MapLit(<<Sym("y"), AutoKwd("h", "k")>>), F>>), Sym("y")>>),
   Call("defmethod", <<HF, AutoKwd("h", "k"), Vec(<<F>>), F>>),
   Defn("f", HF)}
Plain    == <<Alone("a"), Defn("f", X), AutoKwd("", "k")>>
Declared == <<Alone("a"), Call("declare", <<F>>), Call("defmulti", <<F, AutoKwd("", "k")>>), Defn("g", F)>>
Protocol == <<Alone("a"), Call("defprotocol", <<Sym("p"), Lst(<<F, Vec(<<X>>)>>)>>), Lst(<<F, X>>)>>
Calls    == Lst(<<HF, F, Sym("g")>>)
Using(a, spec, body) ==
  Having([q \in {"a.clj", "b.clj", "c.edn"} |->
            CASE q = "a.clj" -> a [] q = "c.edn" -> Config [] OTHER -> <<Ns("b", spec), body, HF>>])
Users ==
  {Using(Plain, spec, Calls) : spec \in Requires}
  \cup {Using(Plain, spec, body) : spec \in {AsH, ReferF}, body \in Bodies}
  \cup {Using(a, ReferRename, Calls) : a \in {Declared, Protocol}}

\* A namespace in two dialects, and the library whose vars the twin takes whole.
Twin    == <<Ns("a", <<Vec(<<Sym("l"), Refer, Kwd("all")>>)>>), Defn("f", Lst(<<Sym("g"), F>>))>>
Library == {<<Alone("l"), Defn("g", X), AutoKwd("", "k")>>, <<Alone("l"), Call("defn-", <<Sym("g"), Vec(<<X>>), X>>)>>}
ReferAll == Ns("b", <<Lst(<<Sym("l"), Vec(<<Sym("c"), As, Sym("h")>>)>>), Vec(<<Sym("a"), Refer, Kwd("all"), As, Sym("i")>>)>>)
Twins ==
  {Having([q \in {"a.clj", "a.cljs", "b.clj", "l.clj"} |->
     CASE q = "a.clj" -> a [] q = "a.cljs" -> Twin [] q = "l.clj" -> l [] OTHER -> <<ReferAll, b>>]) :
     a \in {<<Alone("a"), Defn("f", X)>>, <<Call("in-ns", <<Quoted(Sym("a"))>>), Defn("f", Sym("g"))>>}, l \in Library,
     b \in {Lst(<<F, Sym("g"), QSym("b", "f")>>), Lst(<<QSym("i", "f"), HF, QKwd("l", "k")>>), Defn("f", QSym("i", "f")),
            ReadCond(<<Kwd("clj"), Call("def", <<Sym("g"), F>>), Kwd("cljs"), Sym("g")>>)}}

\* One binding form in a file of its own.
Patterns == {X, Vec(<<X>>), MapLit(<<Kwd("keys"), Vec(<<X>>)>>), MapLit(<<X, Kwd("k")>>),
             MapLit(<<Kwd("keys"), Vec(<<X>>), Kwd("or"), MapLit(<<X, Sym("y")>>)>>)}
Params == {Vec(<<p>>) : p \in Patterns} \cup {Vec(<<X, Kwd("-"), Sym("y")>>), Vec(<<Sym("y"), Sym("&"), X>>)}
Exprs  == {Lst(<<F, X>>), Lst(<<Vec(<<X>>), X>>), Call("fn", <<Vec(<<X>>), X>>), Call("let", <<Vec(<<Sym("y"), X>>), X>>)}
Binders ==
  {Call("let", <<Vec(<<p, e>>), X>>) : p \in Patterns, e \in Exprs}
  \cup {Call("let", <<Vec(<<X, X>>), e>>) : e \in Exprs}
  \cup {Call("fn", <<X, p, X>>) : p \in Params}
  \cup {Call("fn", <<Lst(<<p, X>>), Lst(<<Vec(<<Sym("y")>>), X>>)>>) : p \in Params}
  \cup {Call("defn", <<F, Kwd("-"), Vec(<<X>>), p, X>>) : p \in Params}
  \cup {Call("as->", <<e, X, X>>) : e \in Exprs} \cup {Call("catch", <<e, X, X>>) : e \in Exprs}
  \cup {Call("letfn", <<Vec(<<Lst(<<Sym("y"), p, e>>), Lst(<<X>>)>>), X>>) : p \in Params, e \in {Quoted(X)}}
  \cup {Call("for", <<Vec(<<p, X, Kwd("let"), Vec(<<Sym("y"), X>>), Kwd("when"), Sym("y")>>), X>>) : p \in Patterns}
  \cup {Call("are", <<p, X, Sym("y"), X>>) : p \in Params}
  \cup {Call("defrecord", <<F, p, Sym("P"), Lst(<<Sym("y"), Vec(<<Sym("z")>>), X>>)>>) :
            p \in {Vec(<<X>>), Vec(<<Sym("y"), X>>), Vec(<<X, Kwd("-"), Sym("y")>>)}}
  \cup {Call("extend-type", <<X, Sym("P"), Lst(<<Sym("y"), Lst(<<p, X>>)>>)>>) : p \in Params}
  \cup {Call("defmethod", <<F, p, Vec(<<X>>), X>>) : p \in Params}
Locals == {Having([q \in {"b.clj"} |-> <<Ns("b", <<Vec(<<Sym("clojure.test"), Refer, Vec(<<Sym("are")>>)>>)>>), b, X>>]) : b \in Binders}

MCWorkspaces == Users \cup Twins \cup Locals

\* Two definitions of one name in a file.
TwoDefinitions ==
  {Having([q \in {"a.clj", "b.clj"} |->
     IF q = "b.clj" THEN <<Ns("b", <<Vec(<<Sym("a"), As, Sym("h")>>)>>), HF>>
     ELSE <<Alone("a"), ReadCond(<<Kwd("clj"), Defn("f", X), Kwd("cljs"), Defn("f", Lst(<<F, X>>))>>)>>])}
=============================================================================
