----------------------------- MODULE MC_NsEdits -----------------------------
(***************************************************************************)
(* Instances of NsEdits for TLC: namespace b, which requires a in some way *)
(* and uses it in some way.                                                *)
(***************************************************************************)
EXTENDS NsEdits, TLC

Spec1(ns, alias)      == Vec(<<Sym(ns), Kwd("as"), Sym(alias)>>)
SpecRefer(ns, names)  == Vec(<<Sym(ns), Kwd("refer"), Vec(names)>>)
ClauseOf(specs)       == Lst(<<Kwd("require")>> \o specs)
Fs == Sym("f")
Gs == Sym("g")

NsClauses ==
  {<<>>,
   <<ClauseOf(<<>>)>>,
   <<ClauseOf(<<Spec1("a", "h")>>)>>,
   <<ClauseOf(<<Spec1("a", "h"), Kwd("reload")>>)>>,
   <<ClauseOf(<<SpecRefer("a", <<Fs>>), SpecRefer("a", <<Fs, Gs>>), Spec1("e", "i")>>)>>,
   <<ClauseOf(<<Vec(<<Sym("a"), Kwd("as"), Sym("h"), Kwd("refer"), Vec(<<Fs, Gs>>)>>)>>)>>,
   <<ClauseOf(<<Spec1("a", "h"), Sym("e"), Discard(Sym("e"))>>), ClauseOf(<<Spec1("a", "h"), Sym("e"), Vec(<<Sym("e")>>)>>)>>,
   <<ClauseOf(<<Vec(<<Sym("a"), Kwd("refer"), Kwd("all")>>), Vec(<<Sym("e"), Kwd("refer"), Vec(<<Fs>>), Kwd("rename"), MapLit(<<Fs, Gs>>)>>)>>)>>,
   <<ClauseOf(<<ReadCond(<<Kwd("clj"), Spec1("a", "h"), Kwd("cljs"), Spec1("e", "h")>>)>>)>>,
   <<ClauseOf(<<Spec1("b", "h"), Lst(<<Sym("a"), Vec(<<Sym("c"), Kwd("as"), Sym("i")>>)>>)>>)>>}

HasUse(n) == Lst(<<n, Fs>>)
EditBodies ==
  {<<HasUse(QSym("h", "f"))>>, <<HasUse(QSym("a", "g")), Quoted(QSym("h", "f"))>>, <<HasUse(Gs), Discard(QSym("h", "f"))>>,
   <<AutoKwd("h", "k"), QSym("s", "f")>>, <<NsMapLit("h", TRUE, <<Kwd("k"), Gs>>), QKwd("e", "k")>>,
   <<QSym("e", "f"), Lst(<<QSym("J", "f"), Gs>>), QSym("h", "g"), AutoKwd("h", "k")>>,
   <<Lst(<<Sym("let"), Vec(<<MapLit(<<Kwd("keys"), Vec(<<QSym("h", "f")>>)>>), Gs>>), Sym("y")>>)>>,
   <<MapLit(<<Kwd("keys"), Vec(<<QSym("h", "f")>>)>>)>>,
   <<Lst(<<Sym("defn-"), Gs, Vec(<<Sym("x")>>), Lst(<<Gs, QSym("s", "f")>>)>>), Lst(<<Sym("quote"), QSym("h", "f")>>)>>}

MCSources ==
  {Place(File(<<Lst(<<Sym("ns"), Sym("b")>> \o clauses)>> \o body), 0, 1) : clauses \in NsClauses, body \in EditBodies}
  \cup {Place(File(<<QSym("h", "f")>>), 0, 1)}

\* Two namespaces end in .h, and s is a conventional alias.
MCNamespaces == [n \in {"a", "b", "e", "x.h", "y.h", "y.e", "l"} |-> IF n = "b" THEN {"g"} ELSE IF n = "x.h" THEN {"f", "p"} ELSE {"f"}]
MCLastSegment == [n \in DOMAIN MCNamespaces |-> IF n \in {"x.h", "y.h"} THEN "h" ELSE IF n = "y.e" THEN "e" ELSE n]
MCKeywordCounts == {<<"a", "k">>, <<"b", "m">>, <<"", "n">>}
MCPrivateVars == {<<"x.h", "p">>}
MCCurated == [p \in {"s"} |-> "l"]
=============================================================================
