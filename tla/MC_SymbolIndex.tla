--------------------------- MODULE MC_SymbolIndex ---------------------------
(* Two twin files, a second Clojure file that collides with the first, and a *)
(* library of both dialects, all claiming names of one namespace. One library*)
(* file is in a directory, where the user can open and save it.              *)
EXTENDS SymbolIndex, TLC

CONSTANTS clj1, cljs1, clj2, libclj, libcljs, ns1, ns2, a, b

MCFiles    == {clj1, cljs1, clj2, libclj}
MCLibFiles == {libclj, libcljs}
MCDialect  == clj1 :> 0 @@ cljs1 :> 2 @@ clj2 :> 0 @@ libclj :> 0 @@ libcljs :> 2

NsForm(n, names, uses) == [ns |-> n, inNs |-> FALSE, names |-> names, uses |-> uses]
InNs(n, names)         == [ns |-> n, inNs |-> TRUE, names |-> names, uses |-> 0]

MCContents ==
  clj1    :> {NsForm(ns1, {a, b}, 1), NsForm(ns2, {}, 0)} @@
  cljs1   :> {NsForm(ns1, {a}, 1)} @@
  clj2    :> {InNs(ns1, {b})} @@
  libclj  :> {NsForm(ns1, {b}, 0), NsForm(ns2, {}, 0)} @@
  libcljs :> {NsForm(ns1, {a}, 0)}

\* Enough for clear_libs to meet a project namespace without names.
RebuildContents ==
  clj1    :> {NsForm(ns1, {}, 0), NsForm(ns1, {a}, 0)} @@
  cljs1   :> {NsForm(ns2, {a}, 0)} @@
  clj2    :> {NsForm(ns2, {b}, 0)} @@
  libclj  :> {NsForm(ns1, {a}, 0)} @@
  libcljs :> {NsForm(ns1, {a}, 0)}
=============================================================================
