------------------------ MODULE SymbolIndex_proofs --------------------------
(***************************************************************************)
(* The tables of the symbol index, for any files, namespaces, names and    *)
(* contents: that both slots of a name tell the truth of the indexed       *)
(* files, that every definition two files do not fight over is found, that *)
(* an asker gets the one of its own dialect, that the tables that say the  *)
(* same thing twice agree, that clear_libs leaves nothing of a library,    *)
(* and that a project's ns form holds the metadata slot of its namespace.  *)
(*                                                                         *)
(* The index is one record and each operation a function from index to     *)
(* index, so the proof goes operation by operation. "XIs" says, table by   *)
(* table, what operation X makes of an index; "XSound", "XCounted" and     *)
(* "XMetas" that it keeps the three parts of the invariant:                *)
(*   Sound     the tables of files, of symbols and of listed names;        *)
(*   Counted   the counter of keyword uses;                                *)
(*   MetaSound the metadata slots.                                         *)
(* What a step may lose, a definition (Held) or an ns form (MetaHeld), it  *)
(* loses only to another file of the same dialect (Twins).                 *)
(***************************************************************************)
EXTENDS SymbolIndex, TLAPS, WellFoundedInduction, NaturalsInduction, FiniteSetTheorems

-----------------------------------------------------------------------------
(* refill_namespace, and any loop over a list: the provers have no           *)
(* induction, so each fact about it is proved by the least counterexample.   *)

\* Every non-empty set of numbers has a least element.
LEMMA LeastNat ==
  ASSUME NEW T, T \subseteq Nat, T # {}
  PROVE  \E x \in T : \A y \in T : ~(y < x)
<1>1. IsWellFoundedOn(OpToRel(<,Nat), Nat)
  BY NatLessThanWellFounded
<1>2. \E x \in T : \A y \in T : ~ (<<y, x>> \in OpToRel(<,Nat))
  BY <1>1, WFMin
<1> QED BY <1>2 DEF OpToRel

\* r[i] is the slot of n after refill_namespace has taken the first i of its
\* files: the function RefilledSlot chooses.
IsRefill(r, ix, n, k) ==
  r = [i \in 0..k |-> IF i = 0 THEN ix.namespaces[n] ELSE RefillWith(ix, r[i-1], ix.ns_files[n][i])]

\* What refill_namespace has after k files, it can take one file further.
LEMMA RefillGrows ==
  ASSUME NEW ix, NEW n, NEW k \in Nat, NEW r, IsRefill(r, ix, n, k)
  PROVE  \E s : IsRefill(s, ix, n, k + 1)
<1> DEFINE s == [i \in 0..(k+1) |-> IF i = k + 1 THEN RefillWith(ix, r[k], ix.ns_files[n][k+1]) ELSE r[i]]
<1>1. \A i \in 0..(k+1) : i # 0 => s[i-1] = r[i-1]
  OBVIOUS
<1>2. \A i \in 0..k : r[i] = IF i = 0 THEN ix.namespaces[n] ELSE RefillWith(ix, r[i-1], ix.ns_files[n][i])
  BY DEF IsRefill
<1>3. \A i \in 0..(k+1) : s[i] = IF i = 0 THEN ix.namespaces[n] ELSE RefillWith(ix, s[i-1], ix.ns_files[n][i])
  <2> TAKE i \in 0..(k+1)
  <2>1. CASE i = 0 BY <1>2, <2>1
  <2>2. CASE i = k + 1 BY <1>1, <2>2
  <2>3. CASE i \in 1..k BY <1>1, <1>2, <2>3
  <2> QED BY <2>1, <2>2, <2>3
<1>4. IsRefill(s, ix, n, k+1)
  <2> HIDE <1>2
  <2> QED BY <1>3 DEF IsRefill
<1> QED BY <1>4

\* There is such a function for every number of files.
LEMMA RefillExists ==
  ASSUME NEW ix, NEW n, NEW k \in Nat
  PROVE  \E r : IsRefill(r, ix, n, k)
<1> DEFINE T == {j \in Nat : ~\E r : IsRefill(r, ix, n, j)}
<1>1. SUFFICES ASSUME T # {} PROVE FALSE
  OBVIOUS
<1>2. PICK j \in T : \A i \in T : ~(i < j)
  <2> HIDE DEF T
  <2> QED BY <1>1, LeastNat DEF T
<1>3. IsRefill([i \in 0..0 |-> ix.namespaces[n]], ix, n, 0)
  BY DEF IsRefill
<1>4. j # 0 BY <1>3
<1>5. j - 1 \in Nat /\ j - 1 \notin T BY <1>2, <1>4
<1>6. PICK r : IsRefill(r, ix, n, j - 1) BY <1>5
<1>7. \E s : IsRefill(s, ix, n, (j - 1) + 1) BY <1>5, <1>6, RefillGrows
<1> QED BY <1>7

\* refill_namespace keeps whatever taking one more file keeps, and ends with
\* the slot as it was or as the last file taken left it.
LEMMA RefillStays ==
  ASSUME NEW ix, NEW n, ix.ns_files[n] \in Seq(Files),
         NEW S, ix.namespaces[n] \in S,
         \A slot \in S : \A i \in DOMAIN ix.ns_files[n] : RefillWith(ix, slot, ix.ns_files[n][i]) \in S
  PROVE  /\ RefilledSlot(ix, n) \in S
         /\ \/ ix.ns_files[n] = <<>> /\ RefilledSlot(ix, n) = ix.namespaces[n]
            \/ \E slot \in S : \E i \in DOMAIN ix.ns_files[n] :
                 RefilledSlot(ix, n) = RefillWith(ix, slot, ix.ns_files[n][i])
<1> DEFINE N == Len(ix.ns_files[n])
<1>1. N \in Nat /\ \A i \in 1..N : ix.ns_files[n][i] \in Files
  OBVIOUS
<1> DEFINE r == CHOOSE r : IsRefill(r, ix, n, N)
<1>2. RefilledSlot(ix, n) = r[N]
  BY DEF RefilledSlot, IsRefill
<1>3. IsRefill(r, ix, n, N)
  BY <1>1, RefillExists
<1> HIDE DEF r
<1>4. \A i \in 0..N : r[i] = IF i = 0 THEN ix.namespaces[n] ELSE RefillWith(ix, r[i-1], ix.ns_files[n][i])
  BY <1>3 DEF IsRefill
<1>5. \A i \in 0..N : r[i] \in S
  <2> DEFINE T == {i \in 0..N : r[i] \notin S}
  <2>1. SUFFICES ASSUME T # {} PROVE FALSE
    OBVIOUS
  <2>2. PICK j \in T : \A i \in T : ~(i < j)
    <3>1. T \subseteq Nat BY <1>1
    <3> HIDE DEF T
    <3> QED BY <2>1, <3>1, LeastNat
  <2>3. j # 0 /\ j \in 1..N BY <1>1, <1>4, <2>2
  <2>4. r[j - 1] \in S BY <2>2, <2>3, <1>1
  <2>5. j \in DOMAIN ix.ns_files[n] BY <2>3
  <2> QED BY <1>1, <1>4, <2>2, <2>3, <2>4, <2>5
<1>6. CASE N = 0
  BY <1>2, <1>4, <1>5, <1>6
<1>7. CASE N # 0
  <2>1. N \in DOMAIN ix.ns_files[n] /\ N - 1 \in 0..N /\ N \in 0..N BY <1>1, <1>7
  <2> QED BY <2>1, <1>2, <1>4, <1>5, <1>7
<1> QED BY <1>6, <1>7

-----------------------------------------------------------------------------
(* The slots of symbols: shadow_insert, rank_insert and remove_slot. *)

\* The values in the two slots of a key.
In(slot) == {slot.primary, slot.shadow} \ {None}

\* A shadow has a primary, ranks after it, and is ClojureScript.
Shaped(slot) ==
  slot.shadow # None => /\ slot.primary # None
                        /\ SymbolRank(slot.primary) < SymbolRank(slot.shadow)
                        /\ Cljs(slot.shadow.file)

\* rank_insert leaves a primary, and nothing in either slot but what was there
\* and the new value.
LEMMA RankInsertIsSlot ==
  ASSUME NEW V, None \notin V, NEW rank, NEW slot \in Slots(V), NEW v \in V
  PROVE  /\ RankInsert(slot, v, rank) \in Slots(V)
         /\ RankInsert(slot, v, rank).primary # None
         /\ In(RankInsert(slot, v, rank)) \subseteq In(slot) \cup {v}
BY DEF RankInsert, ShadowInsert, Slots, In

\* The rank of a definition and what it says of the dialect.
LEMMA SymbolRankIs ==
  ASSUME NEW s \in Symbols
  PROVE  /\ SymbolRanks[s] = SymbolRank(s)
         /\ SymbolRank(s) \in 0..5
         /\ IsCljsRank(SymbolRank(s)) <=> Cljs(s.file)
BY IndexAssumption DEF SymbolRanks, SymbolRank, SlotRank, IsCljsRank, Cljs, Symbols

\* rank_insert keeps the shape of a pair.
LEMMA RankInsertShaped ==
  ASSUME NEW slot \in Slots(Symbols), NEW v \in Symbols, Shaped(slot)
  PROVE  Shaped(RankInsert(slot, v, SymbolRanks))
BY SymbolRankIs, IndexAssumption DEF RankInsert, ShadowInsert, Slots, Shaped

\* rank_insert of a project definition keeps it, and every project definition
\* that was there, when none of those is of its dialect.
LEMMA ProjectEnters ==
  ASSUME NEW slot \in Slots(Symbols), NEW v \in Symbols, Shaped(slot), v.project,
         \A s \in In(slot) : s.project => Cljs(s.file) # Cljs(v.file)
  PROVE  /\ v \in In(RankInsert(slot, v, SymbolRanks))
         /\ \A s \in In(slot) : s.project => s \in In(RankInsert(slot, v, SymbolRanks))
BY IndexAssumption
   DEF RankInsert, ShadowInsert, Slots, Shaped, SymbolRanks, SymbolRank, SlotRank, IsCljsRank,
       Cljs, Symbols, In

\* rank_insert of a library definition displaces no project definition.
LEMMA LibraryEnters ==
  ASSUME NEW slot \in Slots(Symbols), NEW v \in Symbols, Shaped(slot), ~v.project
  PROVE  \A s \in In(slot) : s.project => s \in In(RankInsert(slot, v, SymbolRanks))
BY IndexAssumption
   DEF RankInsert, ShadowInsert, Slots, Shaped, SymbolRanks, SymbolRank, SlotRank, IsCljsRank,
       Cljs, Symbols, In

\* remove_slot takes out nothing that is not the file's.
LEMMA RemoveSlotIsSlot ==
  ASSUME NEW V, NEW slot \in Slots(V), NEW f
  PROVE  /\ RemoveSlot(slot, f) \in Slots(V)
         /\ In(RemoveSlot(slot, f)) \subseteq In(slot)
         /\ \A s \in In(slot) : s.file # f => s \in In(RemoveSlot(slot, f))
BY DEF RemoveSlot, Slots, In

\* remove_slot keeps the shape of a pair, leaves nothing of the file among the
\* project definitions, and fills no slot that was empty.
LEMMA RemoveSlotShaped ==
  ASSUME NEW slot \in Slots(Symbols), NEW f, Shaped(slot)
  PROVE  /\ Shaped(RemoveSlot(slot, f))
         /\ \A s \in In(RemoveSlot(slot, f)) : s.project => s.file # f
         /\ slot.primary = None => RemoveSlot(slot, f).primary = None
BY IndexAssumption DEF RemoveSlot, Slots, Shaped, SymbolRank, SlotRank, Cljs, IsCljsRank, Symbols, In

-----------------------------------------------------------------------------
(* The list of a namespace's files. *)

\* The files of a list; whether it has each once.
RangeOf(s) == {s[i] : i \in DOMAIN s}
OnceEach(s) == \A i, j \in DOMAIN s : s[i] = s[j] => i = j

\* What RemoveAt makes of a list, element by element.
LEMMA RemoveAtIs ==
  ASSUME NEW S, NEW s \in Seq(S), NEW k \in DOMAIN s
  PROVE  /\ RemoveAt(s, k) \in Seq(S)
         /\ DOMAIN RemoveAt(s, k) = 1..(Len(s) - 1)
         /\ \A i \in 1..(Len(s) - 1) : RemoveAt(s, k)[i] = IF i < k THEN s[i] ELSE s[i + 1]
<1>1. k \in 1..Len(s) /\ Len(s) \in Nat
  OBVIOUS
<1>2. /\ SubSeq(s, 1, k - 1) \in Seq(S)
      /\ Len(SubSeq(s, 1, k - 1)) = k - 1
      /\ \A i \in 1..(k - 1) : SubSeq(s, 1, k - 1)[i] = s[i]
  BY <1>1
<1>3. /\ SubSeq(s, k + 1, Len(s)) \in Seq(S)
      /\ Len(SubSeq(s, k + 1, Len(s))) = Len(s) - k
      /\ \A i \in 1..(Len(s) - k) : SubSeq(s, k + 1, Len(s))[i] = s[k + i]
  BY <1>1
<1> DEFINE u == SubSeq(s, 1, k - 1)
           w == SubSeq(s, k + 1, Len(s))
<1>4. /\ u \o w \in Seq(S)
      /\ Len(u \o w) = Len(u) + Len(w)
      /\ \A i \in 1..(Len(u) + Len(w)) : (u \o w)[i] = IF i <= Len(u) THEN u[i] ELSE w[i - Len(u)]
  <2> HIDE DEF u, w
  <2> QED BY <1>2, <1>3 DEF u, w
<1>5. RemoveAt(s, k) = u \o w
  BY DEF RemoveAt
<1> HIDE DEF u, w
<1>6. Len(u) = k - 1 /\ Len(w) = Len(s) - k
  BY <1>2, <1>3 DEF u, w
<1>7. \A i \in 1..(Len(s) - 1) : (u \o w)[i] = IF i < k THEN s[i] ELSE s[i + 1]
  <2> TAKE i \in 1..(Len(s) - 1)
  <2>1. CASE i < k
    BY <2>1, <1>1, <1>2, <1>4, <1>6 DEF u
  <2>2. CASE ~(i < k)
    <3>1. (u \o w)[i] = w[i - (k - 1)] /\ i - (k - 1) \in 1..(Len(s) - k)
      BY <2>2, <1>1, <1>4, <1>6
    <3>2. w[i - (k - 1)] = s[k + (i - (k - 1))]
      BY <3>1, <1>3 DEF w
    <3> QED BY <3>1, <3>2, <2>2, <1>1
  <2> QED BY <2>1, <2>2
<1> QED BY <1>1, <1>4, <1>5, <1>6, <1>7

\* Removing a file from a list that has each file once takes it out, and
\* leaves a list that has each file once.
LEMMA RemoveFirstIs ==
  ASSUME NEW S, NEW s \in Seq(S), NEW e, OnceEach(s)
  PROVE  /\ RemoveFirst(s, e) \in Seq(S)
         /\ RangeOf(RemoveFirst(s, e)) = RangeOf(s) \ {e}
         /\ OnceEach(RemoveFirst(s, e))
<1>1. CASE ~\E i \in 1..Len(s) : s[i] = e
  BY <1>1 DEF RemoveFirst, RangeOf
<1>2. CASE \E i \in 1..Len(s) : s[i] = e
  <2>1. PICK k \in 1..Len(s) : s[k] = e
    BY <1>2
  <2>2. {i \in 1..Len(s) : s[i] = e} = {k}
    BY <2>1 DEF OnceEach
  <2>3. Min({k}) = k
    BY <2>1 DEF Min
  <2>4. SelectInSeq(s, LAMBDA v : v = e) = k
    BY <2>2, <2>3 DEF SelectInSeq
  <2>5. RemoveFirst(s, e) = RemoveAt(s, k)
    BY <1>2, <2>4 DEF RemoveFirst
  <2> DEFINE t == RemoveAt(s, k)
  <2>6. /\ t \in Seq(S) /\ DOMAIN t = 1..(Len(s) - 1) /\ DOMAIN s = 1..Len(s) /\ Len(s) \in Nat
        /\ \A i \in 1..(Len(s) - 1) : t[i] = IF i < k THEN s[i] ELSE s[i + 1]
    BY <2>1, RemoveAtIs
  <2> HIDE DEF t
  <2>7. \A i \in DOMAIN t : t[i] \in RangeOf(s) /\ t[i] # e
    BY <2>1, <2>6 DEF RangeOf, OnceEach
  <2>8. \A i \in DOMAIN s : s[i] # e => s[i] \in RangeOf(t)
    <3> TAKE i \in DOMAIN s
    <3> HAVE s[i] # e
    <3>1. CASE i < k
      <4>1. i \in DOMAIN t /\ t[i] = s[i] BY <2>1, <2>6, <3>1
      <4> QED BY <4>1 DEF RangeOf
    <3>2. CASE i > k
      <4>1. i - 1 \in DOMAIN t /\ t[i - 1] = s[i] BY <2>1, <2>6, <3>2
      <4> QED BY <4>1 DEF RangeOf
    <3>3. i # k BY <2>1
    <3> QED BY <3>1, <3>2, <3>3, <2>1, <2>6
  <2>9. OnceEach(t)
    <3> SUFFICES ASSUME NEW i \in DOMAIN t, NEW j \in DOMAIN t, t[i] = t[j] PROVE i = j
      BY DEF OnceEach
    <3> DEFINE at(m) == IF m < k THEN m ELSE m + 1
    <3>1. /\ at(i) \in DOMAIN s /\ at(j) \in DOMAIN s
          /\ t[i] = s[at(i)] /\ t[j] = s[at(j)]
      BY <2>1, <2>6
    <3>2. at(i) = at(j)
      <4> HIDE DEF at
      <4> QED BY <3>1 DEF OnceEach
    <3> QED BY <3>2, <2>1, <2>6
  <2>10. RangeOf(t) = RangeOf(s) \ {e}
    BY <2>7, <2>8 DEF RangeOf
  <2> QED BY <2>5, <2>6, <2>9, <2>10 DEF t
<1> QED BY <1>1, <1>2

-----------------------------------------------------------------------------
(* The types of an index, and refill_namespace on one. *)

\* ns_files is the inverse of files, each file once.
Grouped(ix) ==
  \A n \in Nss : /\ RangeOf(ix.ns_files[n]) = {f \in Files : ix.files[f] # None /\ ix.files[f].ns = n}
                 /\ OnceEach(ix.ns_files[n])

\* The type of each table of an index.
LEMMA IndexFields ==
  ASSUME NEW ix \in Indexes
  PROVE  /\ ix.symbols \in [Fqns -> Slots(Symbols)]
         /\ ix.namespaces \in [Nss -> Slots(Metas)]
         /\ ix.ns_symbols \in [Nss -> (SUBSET Fqns) \cup {None}]
         /\ ix.files \in [Paths -> Records \cup {None}]
         /\ ix.ns_files \in [Nss -> Seq(Files)]
         /\ ix.file_to_ns \in [Paths -> Nss \cup {None, EdnNs}]
         /\ ix.occurrences \in [Paths -> (0..MaxUses) \cup {None}]
         /\ ix.keyword_count \in Nat
BY DEF Indexes

\* Taking an indexed file leaves a primary.
LEMMA RefillWithIsSlot ==
  ASSUME NEW ix \in Indexes, NEW slot \in Slots(Metas), NEW f \in Files
  PROVE  /\ RefillWith(ix, slot, f) \in Slots(Metas)
         /\ ix.files[f] # None => RefillWith(ix, slot, f).primary # None
<1>1. ix.files[f] # None => [file |-> f, inNs |-> ix.files[f].inNs] \in Metas
  BY DEF Indexes, Records, Metas, Paths, Sources
<1>2. None \notin Metas
  BY IndexAssumption
<1> QED BY <1>1, <1>2, RankInsertIsSlot DEF RefillWith

\* refill_namespace leaves a primary when the namespace has an indexed file.
LEMMA RefilledIsSlot ==
  ASSUME NEW ix \in Indexes, NEW n \in Nss
  PROVE  /\ RefilledSlot(ix, n) \in Slots(Metas)
         /\ \A f \in Files : f \in RangeOf(ix.ns_files[n]) /\ (\A g \in RangeOf(ix.ns_files[n]) : ix.files[g] # None)
               => RefilledSlot(ix, n).primary # None
<1>1. ix.ns_files[n] \in Seq(Files) /\ ix.namespaces[n] \in Slots(Metas)
  BY IndexFields
<1>2. \A slot \in Slots(Metas) : \A i \in DOMAIN ix.ns_files[n] :
        RefillWith(ix, slot, ix.ns_files[n][i]) \in Slots(Metas)
  <2>1. \A i \in DOMAIN ix.ns_files[n] : ix.ns_files[n][i] \in Files
    BY <1>1
  <2> QED BY <2>1, RefillWithIsSlot
<1>3. /\ RefilledSlot(ix, n) \in Slots(Metas)
      /\ \/ ix.ns_files[n] = <<>> /\ RefilledSlot(ix, n) = ix.namespaces[n]
         \/ \E slot \in Slots(Metas) : \E i \in DOMAIN ix.ns_files[n] :
              RefilledSlot(ix, n) = RefillWith(ix, slot, ix.ns_files[n][i])
  BY <1>1, <1>2, RefillStays
<1>4. \A i \in DOMAIN ix.ns_files[n] : ix.ns_files[n][i] \in Files /\ ix.ns_files[n][i] \in RangeOf(ix.ns_files[n])
  BY <1>1 DEF RangeOf
<1>5. ASSUME NEW f \in RangeOf(ix.ns_files[n]), \A g \in RangeOf(ix.ns_files[n]) : ix.files[g] # None
      PROVE  RefilledSlot(ix, n).primary # None
  <2>1. ix.ns_files[n] # <<>>
    BY <1>5 DEF RangeOf
  <2>2. PICK slot \in Slots(Metas), i \in DOMAIN ix.ns_files[n] :
           RefilledSlot(ix, n) = RefillWith(ix, slot, ix.ns_files[n][i])
    BY <1>3, <2>1
  <2> QED BY <1>4, <1>5, <2>2, RefillWithIsSlot
<1> QED BY <1>3, <1>5

-----------------------------------------------------------------------------
(* remove_file *)

\* Only source files of the project have a record.
EdnsBare(ix) == \A f \in Paths \ Files : ix.files[f] = None

\* What remove_file does whatever namespace the file was registered under.
GoneFile(ix, f) ==
  LET others == IF ix.files[f] = None THEN ix.ns_files
                ELSE [ix.ns_files EXCEPT ![ix.files[f].ns] = RemoveFirst(@, f)]
  IN  [ix EXCEPT !.occurrences[f] = None,
                 !.keyword_count = SubCount(@, Uses(ix, f)),
                 !.files[f] = None,
                 !.ns_files = others,
                 !.file_to_ns[f] = None]

\* That part, table by table.
LEMMA GoneFileIs ==
  ASSUME NEW ix \in Indexes, Grouped(ix), NEW f \in Files \cup EdnFiles, EdnsBare(ix)
  PROVE  LET g == GoneFile(ix, f) IN
         /\ g \in Indexes
         /\ g.files = [ix.files EXCEPT ![f] = None]
         /\ g.occurrences = [ix.occurrences EXCEPT ![f] = None]
         /\ g.file_to_ns = [ix.file_to_ns EXCEPT ![f] = None]
         /\ g.symbols = ix.symbols
         /\ g.namespaces = ix.namespaces
         /\ g.ns_symbols = ix.ns_symbols
         /\ Grouped(g)
<1> DEFINE g == GoneFile(ix, f)
<1>1. f \in Paths
  BY DEF Paths, Sources
<1>2. CASE ix.files[f] = None
  <2>1. SubCount(ix.keyword_count, Uses(ix, f)) \in Nat
    BY <1>1, IndexFields, IndexAssumption DEF SubCount, Uses
  <2>2. g = [ix EXCEPT !.occurrences[f] = None,
                       !.keyword_count = SubCount(ix.keyword_count, Uses(ix, f)),
                       !.files[f] = None,
                       !.file_to_ns[f] = None]
    BY <1>2 DEF GoneFile, Indexes
  <2> HIDE DEF g
  <2>3. g \in Indexes
    BY <1>1, <2>1, <2>2 DEF Indexes
  <2> QED BY <1>1, <1>2, <2>2, <2>3 DEF Grouped, Indexes, g
<1>3. CASE ix.files[f] # None
  <2>1. SubCount(ix.keyword_count, Uses(ix, f)) \in Nat
    BY <1>1, IndexFields, IndexAssumption DEF SubCount, Uses
  <2>2. f \in Files
    BY <1>1, <1>3 DEF EdnsBare
  <2> DEFINE m == ix.files[f].ns
             less == RemoveFirst(ix.ns_files[m], f)
  <2>3. m \in Nss
    BY <1>1, <1>3, IndexFields DEF Records
  <2>4. /\ less \in Seq(Files)
        /\ RangeOf(less) = RangeOf(ix.ns_files[m]) \ {f}
        /\ OnceEach(less)
    <3>1. ix.ns_files[m] \in Seq(Files) /\ OnceEach(ix.ns_files[m])
      BY <2>3, IndexFields DEF Grouped
    <3> QED BY <3>1, RemoveFirstIs
  <2>5. g = [ix EXCEPT !.occurrences[f] = None,
                       !.keyword_count = SubCount(ix.keyword_count, Uses(ix, f)),
                       !.files[f] = None,
                       !.ns_files = [ix.ns_files EXCEPT ![m] = less],
                       !.file_to_ns[f] = None]
    BY <1>3 DEF GoneFile
  <2> HIDE DEF less, g
  <2>6. g \in Indexes
    BY <1>1, <2>1, <2>3, <2>4, <2>5 DEF Indexes
  <2>7. /\ g.files = [ix.files EXCEPT ![f] = None]
        /\ g.occurrences = [ix.occurrences EXCEPT ![f] = None]
        /\ g.file_to_ns = [ix.file_to_ns EXCEPT ![f] = None]
        /\ g.symbols = ix.symbols
        /\ g.namespaces = ix.namespaces
        /\ g.ns_symbols = ix.ns_symbols
        /\ g.ns_files = [ix.ns_files EXCEPT ![m] = less]
    BY <2>5 DEF Indexes
  <2>8. Grouped(g)
    <3> SUFFICES ASSUME NEW n \in Nss
        PROVE /\ RangeOf(g.ns_files[n]) = {h \in Files : g.files[h] # None /\ g.files[h].ns = n}
              /\ OnceEach(g.ns_files[n])
      BY DEF Grouped
    <3>1. ix.files \in [Paths -> Records \cup {None}] /\ ix.ns_files \in [Nss -> Seq(Files)]
      BY IndexFields
    <3>2. \A h \in Files : h \in Paths /\ g.files[h] = IF h = f THEN None ELSE ix.files[h]
      BY <2>7, <3>1 DEF Paths, Sources
    <3>3. CASE n = m
      <4>1. g.ns_files[n] = less
        BY <2>7, <3>1, <3>3
      <4> QED BY <2>4, <3>2, <3>3, <4>1 DEF Grouped
    <3>4. CASE n # m
      <4>1. g.ns_files[n] = ix.ns_files[n]
        BY <2>7, <3>1, <3>4
      <4> QED BY <2>2, <3>2, <3>4, <4>1 DEF Grouped
    <3> QED BY <3>3, <3>4
  <2> QED BY <2>6, <2>7, <2>8 DEF g
<1> QED BY <1>2, <1>3

\* What remove_file makes of the metadata of the namespace n of the file.
Vacated(ix, r, f, n) ==
  LET left == RemoveSlot(ix.namespaces[n], f)
  IN  IF left.primary # None THEN r.namespaces[n] = left
      ELSE \E e \in Indexes : /\ e.files = r.files /\ e.ns_files = r.ns_files
                              /\ e.occurrences = r.occurrences /\ e.file_to_ns = r.file_to_ns
                              /\ e.namespaces[n] = left
                              /\ r.namespaces[n] = RefilledSlot(e, n)

\* What remove_file does of the namespace the file was registered under, table
\* by table.
LEMMA RemoveFromNsIs ==
  ASSUME NEW ix \in Indexes, Grouped(ix), NEW f, NEW n \in Nss, NEW fqns \in SUBSET Fqns
  PROVE  LET r == RemoveFromNs(ix, f, n, fqns) IN
         /\ r \in Indexes
         /\ r.files = ix.files /\ r.ns_files = ix.ns_files
         /\ r.file_to_ns = ix.file_to_ns /\ r.occurrences = ix.occurrences
         /\ r.symbols = [q \in Fqns |-> IF q \in fqns THEN RemoveSlot(ix.symbols[q], f) ELSE ix.symbols[q]]
         /\ \A m \in Nss \ {n} : r.namespaces[m] = ix.namespaces[m] /\ r.ns_symbols[m] = ix.ns_symbols[m]
         /\ Vacated(ix, r, f, n)
         /\ r.namespaces[n].primary = None => \A e \in Files : ~(r.files[e] # None /\ r.files[e].ns = n)
         /\ \A q \in Fqns : /\ ix.ns_symbols[n] # None /\ q \in ix.ns_symbols[n]
                            /\ r.symbols[q].primary # None
                            => r.ns_symbols[n] # None /\ q \in r.ns_symbols[n]
<1> DEFINE syms    == [q \in Fqns |-> IF q \in fqns THEN RemoveSlot(ix.symbols[q], f) ELSE ix.symbols[q]]
           slots   == [ix EXCEPT !.symbols = syms, !.namespaces[n] = RemoveSlot(@, f)]
           filled  == IF slots.namespaces[n].primary = None THEN RefillNamespace(slots, n) ELSE slots
           list    == ix.ns_symbols[n]
           defined == {q \in list : filled.symbols[q].primary # None}
           r       == RemoveFromNs(ix, f, n, fqns)
<1>1. r = IF list = None THEN filled
          ELSE [filled EXCEPT !.ns_symbols[n] =
                  IF defined = {} /\ filled.namespaces[n].primary = None THEN None ELSE defined]
  BY DEF RemoveFromNs
<1> HIDE DEF r
<1>2. syms \in [Fqns -> Slots(Symbols)]
  BY IndexFields, RemoveSlotIsSlot
<1> HIDE DEF syms
<1>3. /\ slots \in Indexes
      /\ slots.symbols = syms /\ slots.files = ix.files /\ slots.ns_files = ix.ns_files
      /\ slots.file_to_ns = ix.file_to_ns /\ slots.occurrences = ix.occurrences
      /\ slots.ns_symbols = ix.ns_symbols
      /\ \A m \in Nss \ {n} : slots.namespaces[m] = ix.namespaces[m]
  <2>1. RemoveSlot(ix.namespaces[n], f) \in Slots(Metas)
    BY IndexFields, RemoveSlotIsSlot
  <2> QED BY <1>2, <2>1 DEF Indexes
<1>4. slots.namespaces[n] = RemoveSlot(ix.namespaces[n], f)
  BY DEF Indexes
<1> HIDE DEF slots
<1>5. RefilledSlot(slots, n) \in Slots(Metas)
  BY <1>3, RefilledIsSlot
<1>6. /\ filled \in Indexes
      /\ filled.symbols = syms /\ filled.files = ix.files /\ filled.ns_files = ix.ns_files
      /\ filled.file_to_ns = ix.file_to_ns /\ filled.occurrences = ix.occurrences
      /\ filled.ns_symbols = ix.ns_symbols
      /\ \A m \in Nss \ {n} : filled.namespaces[m] = ix.namespaces[m]
  <2>1. CASE slots.namespaces[n].primary # None
    BY <1>3, <2>1
  <2>2. CASE slots.namespaces[n].primary = None
    BY <1>3, <1>5, <2>2 DEF RefillNamespace, Indexes
  <2> QED BY <2>1, <2>2
<1>7. filled.namespaces[n].primary = None => \A h \in Files : ~(ix.files[h] # None /\ ix.files[h].ns = n)
  <2> SUFFICES ASSUME filled.namespaces[n].primary = None, NEW h \in Files,
                      ix.files[h] # None, ix.files[h].ns = n
               PROVE  FALSE
    OBVIOUS
  <2>1. slots.namespaces[n].primary = None
    OBVIOUS
  <2>2. filled.namespaces[n] = RefilledSlot(slots, n)
    BY <1>3, <2>1 DEF RefillNamespace, Indexes
  <2>3. h \in RangeOf(slots.ns_files[n]) /\ \A g \in RangeOf(slots.ns_files[n]) : slots.files[g] # None
    BY <1>3 DEF Grouped
  <2> QED BY <1>3, <2>2, <2>3, RefilledIsSlot
<1>8. IF slots.namespaces[n].primary # None THEN filled.namespaces[n] = slots.namespaces[n]
      ELSE filled.namespaces[n] = RefilledSlot(slots, n)
  BY <1>3 DEF RefillNamespace, Indexes
<1> HIDE DEF filled
<1>9. list \in (SUBSET Fqns) \cup {None}
  BY IndexFields
<1>10. list # None => defined \in SUBSET Fqns
  <2> HIDE DEF list
  <2>1. defined \subseteq list
    OBVIOUS
  <2>2. list # None => list \subseteq Fqns
    BY <1>9
  <2> HIDE DEF defined
  <2>3. list # None => \A q \in defined : q \in Fqns
    BY <2>1, <2>2
  <2> QED BY <2>3
<1> HIDE DEF list
<1>11. /\ r \in Indexes
       /\ r.symbols = syms /\ r.files = ix.files /\ r.ns_files = ix.ns_files
       /\ r.file_to_ns = ix.file_to_ns /\ r.occurrences = ix.occurrences
       /\ r.namespaces = filled.namespaces
       /\ \A m \in Nss \ {n} : r.ns_symbols[m] = ix.ns_symbols[m]
  <2> HIDE DEF defined
  <2>1. CASE list = None
    BY <1>1, <1>6, <2>1
  <2>2. CASE list # None
    <3> DEFINE new == IF defined = {} /\ filled.namespaces[n].primary = None THEN None ELSE defined
    <3>1. new \in (SUBSET Fqns) \cup {None}
      <4> HIDE DEF defined
      <4> QED BY <1>10, <2>2
    <3>2. r = [filled EXCEPT !.ns_symbols[n] = new]
      BY <1>1, <2>2
    <3> HIDE DEF new
    <3> QED BY <1>6, <3>1, <3>2 DEF Indexes
  <2> QED BY <2>1, <2>2
<1>12. \A q \in Fqns : list # None /\ q \in list /\ r.symbols[q].primary # None
         => r.ns_symbols[n] # None /\ q \in r.ns_symbols[n]
  <2> SUFFICES ASSUME NEW q \in Fqns, list # None, q \in list, r.symbols[q].primary # None
               PROVE  r.ns_symbols[n] # None /\ q \in r.ns_symbols[n]
    OBVIOUS
  <2>1. q \in defined /\ defined \in SUBSET Fqns
    BY <1>6, <1>11, <1>10
  <2>2. r.ns_symbols[n] = defined
    BY <1>1, <1>6, <2>1 DEF Indexes
  <2>3. defined # None
    BY <2>1, IndexAssumption
  <2> QED BY <2>1, <2>2, <2>3
<1>13. Vacated(ix, r, f, n)
  BY <1>3, <1>11, <1>4, <1>8 DEF Vacated
<1> QED BY <1>6, <1>7, <1>11, <1>12, <1>13 DEF r, syms, list

\* A file defines names of its own namespace, and is a project path.
OwnNames(ix) ==
  \A f \in Files : ix.files[f] # None => /\ ix.files[f].fqns \subseteq {ix.files[f].ns} \X Names
                                         /\ ix.occurrences[f] # None

\* Every pair has its shape.
SlotsShaped(ix) == \A q \in Fqns : Shaped(ix.symbols[q])

\* Every name that has a definition is listed in its namespace.
NamesListed(ix) ==
  \A q \in Fqns : ix.symbols[q].primary # None =>
    ix.ns_symbols[q[1]] # None /\ q \in ix.ns_symbols[q[1]]

\* The namespace of a registered file has metadata.
NsKnown(ix) ==
  \A f \in Files : ix.files[f] # None /\ ix.file_to_ns[f] = ix.files[f].ns =>
    ix.namespaces[ix.files[f].ns].primary # None

\* A project definition belongs to an indexed file that defines it and is
\* registered under its namespace, but for the namespaces of S.
OwnersKnown(ix, S) ==
  \A q \in Fqns : q[1] \notin S =>
    \A s \in In(ix.symbols[q]) : s.project => /\ s.file \in Definers(ix, q)
                                              /\ ix.file_to_ns[s.file] = q[1]

\* The invariant of the tables of files, symbols and listed names; S are the
\* namespaces a file has strayed from.
Sound(ix, S) ==
  /\ ix \in Indexes
  /\ EdnsBare(ix) /\ Grouped(ix) /\ OwnNames(ix)
  /\ SlotsShaped(ix) /\ NamesListed(ix)
  /\ NsKnown(ix) /\ OwnersKnown(ix, S)

\* What remove_file of f, registered under n, makes of the slots and lists.
Removed(ix, r, f, n) ==
  \/ /\ n \notin Nss
     /\ r.symbols = ix.symbols /\ r.namespaces = ix.namespaces
     /\ r.ns_symbols = ix.ns_symbols
  \/ /\ n \in Nss
     /\ \E fqns \in SUBSET Fqns :
          /\ ix.files[f] # None => fqns = ix.files[f].fqns
          /\ \A q \in Fqns : r.symbols[q] = IF q \in fqns THEN RemoveSlot(ix.symbols[q], f)
                                            ELSE ix.symbols[q]
     /\ \A m \in Nss \ {n} : r.namespaces[m] = ix.namespaces[m] /\ r.ns_symbols[m] = ix.ns_symbols[m]
     /\ Vacated(ix, r, f, n)
     /\ r.namespaces[n].primary = None => \A e \in Files : ~(r.files[e] # None /\ r.files[e].ns = n)
     /\ \A q \in Fqns : /\ ix.ns_symbols[n] # None /\ q \in ix.ns_symbols[n]
                        /\ r.symbols[q].primary # None
                        => r.ns_symbols[n] # None /\ q \in r.ns_symbols[n]

\* remove_file, table by table.
LEMMA RemoveFileIs ==
  ASSUME NEW ix \in Indexes, Grouped(ix), EdnsBare(ix), NEW f \in Files \cup EdnFiles
  PROVE  LET r == RemoveFile(ix, f)
             n == ix.file_to_ns[f] IN
         /\ r \in Indexes /\ Grouped(r) /\ EdnsBare(r)
         /\ r.files = [ix.files EXCEPT ![f] = None]
         /\ r.occurrences = [ix.occurrences EXCEPT ![f] = None]
         /\ r.file_to_ns = [ix.file_to_ns EXCEPT ![f] = None]
         /\ Removed(ix, r, f, n)
<1> DEFINE n == ix.file_to_ns[f]
           g == GoneFile(ix, f)
           fqns == IF ix.files[f] # None THEN ix.files[f].fqns
                   ELSE IF ix.ns_symbols[n] # None THEN ix.ns_symbols[n] ELSE {}
           r == RemoveFile(ix, f)
<1>1. f \in Paths
  BY DEF Paths, Sources
<1>2. r = IF n \in {None, EdnNs} THEN g ELSE RemoveFromNs(g, f, n, fqns)
  BY DEF RemoveFile, GoneFile
<1>3. n \in Nss \cup {None, EdnNs} /\ None \notin Nss /\ EdnNs \notin Nss
  BY <1>1, IndexFields, IndexAssumption
<1>4. /\ g \in Indexes
      /\ g.files = [ix.files EXCEPT ![f] = None]
      /\ g.occurrences = [ix.occurrences EXCEPT ![f] = None]
      /\ g.file_to_ns = [ix.file_to_ns EXCEPT ![f] = None]
      /\ g.symbols = ix.symbols
      /\ g.namespaces = ix.namespaces
      /\ g.ns_symbols = ix.ns_symbols
      /\ Grouped(g)
  BY GoneFileIs
<1> HIDE DEF g, r
<1>5. CASE n \notin Nss
  <2>1. r = g
    BY <1>2, <1>3, <1>5
  <2>2. EdnsBare(r)
    BY <1>4, <2>1, IndexFields DEF EdnsBare
  <2>3. Removed(ix, r, f, n)
    BY <1>4, <1>5, <2>1 DEF Removed
  <2> QED BY <1>4, <2>1, <2>2, <2>3 DEF r
<1>6. CASE n \in Nss
  <2>1. fqns \in SUBSET Fqns
    BY <1>1, <1>6, IndexFields DEF Records
  <2> HIDE DEF fqns
  <2>2. r = RemoveFromNs(g, f, n, fqns)
    BY <1>2, <1>3, <1>6
  <2> HIDE DEF n
  <2>3. PICK h : h = g
    OBVIOUS
  <2>4. LET k == RemoveFromNs(h, f, n, fqns) IN
         /\ k \in Indexes
         /\ k.files = h.files /\ k.ns_files = h.ns_files
         /\ k.file_to_ns = h.file_to_ns /\ k.occurrences = h.occurrences
         /\ k.symbols = [q \in Fqns |-> IF q \in fqns THEN RemoveSlot(h.symbols[q], f) ELSE h.symbols[q]]
         /\ \A m \in Nss \ {n} : k.namespaces[m] = h.namespaces[m] /\ k.ns_symbols[m] = h.ns_symbols[m]
         /\ Vacated(h, k, f, n)
         /\ k.namespaces[n].primary = None => \A e \in Files : ~(k.files[e] # None /\ k.files[e].ns = n)
         /\ \A q \in Fqns : /\ h.ns_symbols[n] # None /\ q \in h.ns_symbols[n]
                            /\ k.symbols[q].primary # None
                            => k.ns_symbols[n] # None /\ q \in k.ns_symbols[n]
    <3>1. h \in Indexes /\ Grouped(h)
      BY <1>4, <2>3
    <3> HIDE <1>4, <2>3
    <3> QED BY <1>6, <2>1, <3>1, RemoveFromNsIs
  <2>5. /\ r \in Indexes
        /\ r.files = g.files /\ r.ns_files = g.ns_files
        /\ r.file_to_ns = g.file_to_ns /\ r.occurrences = g.occurrences
        /\ r.symbols = [q \in Fqns |-> IF q \in fqns THEN RemoveSlot(g.symbols[q], f) ELSE g.symbols[q]]
        /\ \A m \in Nss \ {n} : r.namespaces[m] = g.namespaces[m] /\ r.ns_symbols[m] = g.ns_symbols[m]
        /\ Vacated(h, r, f, n)
        /\ r.namespaces[n].primary = None => \A e \in Files : ~(r.files[e] # None /\ r.files[e].ns = n)
        /\ \A q \in Fqns : /\ g.ns_symbols[n] # None /\ q \in g.ns_symbols[n]
                           /\ r.symbols[q].primary # None
                           => r.ns_symbols[n] # None /\ q \in r.ns_symbols[n]
    BY <2>2, <2>3, <2>4
  <2>6. Grouped(r)
    BY <1>4, <2>5 DEF Grouped
  <2>7. EdnsBare(r)
    BY <1>4, <2>5, IndexFields DEF EdnsBare
  <2>8. ix.files[f] # None => fqns = ix.files[f].fqns
    BY DEF fqns
  <2>9. \A q \in Fqns : r.symbols[q] = IF q \in fqns THEN RemoveSlot(ix.symbols[q], f) ELSE ix.symbols[q]
    BY <1>4, <2>5
  <2>10. \A m \in Nss \ {n} : r.namespaces[m] = ix.namespaces[m] /\ r.ns_symbols[m] = ix.ns_symbols[m]
    BY <1>4, <2>5
  <2>11. \A q \in Fqns : /\ ix.ns_symbols[n] # None /\ q \in ix.ns_symbols[n]
                         /\ r.symbols[q].primary # None
                         => r.ns_symbols[n] # None /\ q \in r.ns_symbols[n]
    BY <1>4, <2>5
  <2>12. Vacated(ix, r, f, n)
    <3>1. h.namespaces = ix.namespaces
      BY <1>4, <2>3
    <3> QED BY <2>5, <3>1 DEF Vacated
  <2>13. Removed(ix, r, f, n)
    BY <1>6, <2>12, <2>1, <2>5, <2>8, <2>9, <2>10, <2>11 DEF Removed
  <2> QED BY <1>4, <2>5, <2>6, <2>7, <2>13 DEF r, n
<1> QED BY <1>5, <1>6

\* remove_file keeps the tables sound and takes no definition of another file.
LEMMA RemoveFileSound ==
  ASSUME NEW ix, NEW S, Sound(ix, S), NEW f \in Files \cup EdnFiles
  PROVE  /\ Sound(RemoveFile(ix, f), S)
         /\ \A q \in Fqns : \A s \in In(ix.symbols[q]) :
              s.project /\ s.file # f => s \in In(RemoveFile(ix, f).symbols[q])
<1> DEFINE n == ix.file_to_ns[f]
<1> PICK r : r = RemoveFile(ix, f)
  OBVIOUS
<1>1. /\ r \in Indexes /\ Grouped(r) /\ EdnsBare(r)
      /\ r.files = [ix.files EXCEPT ![f] = None]
      /\ r.occurrences = [ix.occurrences EXCEPT ![f] = None]
      /\ r.file_to_ns = [ix.file_to_ns EXCEPT ![f] = None]
      /\ Removed(ix, r, f, n)
  BY RemoveFileIs DEF Sound
<1> HIDE DEF n
<1>2. ix \in Indexes /\ EdnsBare(ix) /\ Grouped(ix) /\ OwnNames(ix) /\ SlotsShaped(ix)
      /\ NamesListed(ix) /\ NsKnown(ix) /\ OwnersKnown(ix, S)
  BY DEF Sound
<1>3. \A h \in Files : /\ h \in Paths
                       /\ r.files[h] = IF h = f THEN None ELSE ix.files[h]
                       /\ r.occurrences[h] = IF h = f THEN None ELSE ix.occurrences[h]
                       /\ r.file_to_ns[h] = IF h = f THEN None ELSE ix.file_to_ns[h]
  BY <1>1, <1>2, IndexFields DEF Paths, Sources
<1>4. OwnNames(r)
  BY <1>2, <1>3 DEF OwnNames
<1>5. \A q \in Fqns : /\ q[1] \in Nss
                      /\ ix.symbols[q] \in Slots(Symbols)
                      /\ r.symbols[q] \in {ix.symbols[q], RemoveSlot(ix.symbols[q], f)}
  <2>1. \A q \in Fqns : q[1] \in Nss /\ ix.symbols[q] \in Slots(Symbols)
    BY <1>2, IndexFields DEF Fqns
  <2>2. \A q \in Fqns : r.symbols[q] \in {ix.symbols[q], RemoveSlot(ix.symbols[q], f)}
    BY <1>1 DEF Removed
  <2> QED BY <2>1, <2>2
<1>6. SlotsShaped(r)
  BY <1>2, <1>5, RemoveSlotShaped DEF SlotsShaped
<1>7. \A q \in Fqns : /\ In(r.symbols[q]) \subseteq In(ix.symbols[q])
                      /\ \A s \in In(ix.symbols[q]) : s.file # f => s \in In(r.symbols[q])
                      /\ r.symbols[q].primary # None => ix.symbols[q].primary # None
  BY <1>2, <1>5, RemoveSlotIsSlot, RemoveSlotShaped DEF SlotsShaped
<1>8. NamesListed(r)
  <2> SUFFICES ASSUME NEW q \in Fqns, r.symbols[q].primary # None
               PROVE  r.ns_symbols[q[1]] # None /\ q \in r.ns_symbols[q[1]]
    BY DEF NamesListed
  <2>1. ix.ns_symbols[q[1]] # None /\ q \in ix.ns_symbols[q[1]]
    BY <1>2, <1>7 DEF NamesListed
  <2> QED BY <1>1, <1>5, <2>1 DEF Removed
<1>9. NsKnown(r)
  <2> SUFFICES ASSUME NEW h \in Files, r.files[h] # None, r.file_to_ns[h] = r.files[h].ns
               PROVE  r.namespaces[r.files[h].ns].primary # None
    BY DEF NsKnown
  <2>1. h # f /\ r.files[h] = ix.files[h] /\ ix.files[h].ns \in Nss
    BY <1>2, <1>3, IndexFields DEF Records
  <2>2. ix.namespaces[ix.files[h].ns].primary # None
    BY <1>2, <1>3, <2>1 DEF NsKnown
  <2> QED BY <1>1, <2>1, <2>2 DEF Removed
<1>10. OwnersKnown(r, S)
  <2> SUFFICES ASSUME NEW q \in Fqns, q[1] \notin S, NEW s \in In(r.symbols[q]), s.project
               PROVE  s.file \in Definers(r, q) /\ r.file_to_ns[s.file] = q[1]
    BY DEF OwnersKnown
  <2>1. s \in In(ix.symbols[q]) /\ s.file \in Definers(ix, q) /\ ix.file_to_ns[s.file] = q[1]
    BY <1>2, <1>7 DEF OwnersKnown
  <2>2. s.file # f
    <3> SUFFICES ASSUME s.file = f PROVE FALSE
      OBVIOUS
    <3>1. n \in Nss
      BY <1>5, <2>1 DEF n
    <3>2. ix.files[f] # None /\ q \in ix.files[f].fqns
      BY <2>1 DEF Definers
    <3>3. r.symbols[q] = RemoveSlot(ix.symbols[q], f)
      <4>1. PICK fqns \in SUBSET Fqns :
              /\ ix.files[f] # None => fqns = ix.files[f].fqns
              /\ \A p \in Fqns : r.symbols[p] = IF p \in fqns THEN RemoveSlot(ix.symbols[p], f)
                                                ELSE ix.symbols[p]
        BY <1>1, <3>1 DEF Removed
      <4> QED BY <3>2, <4>1
    <3> QED BY <1>2, <1>5, <3>3, RemoveSlotShaped DEF SlotsShaped
  <2> QED BY <1>3, <2>1, <2>2 DEF Definers
<1> QED BY <1>1, <1>4, <1>6, <1>7, <1>8, <1>9, <1>10 DEF Sound

-----------------------------------------------------------------------------
(* insert_file and insert_edn_file *)

\* Each file that defines q has its definition in a slot of q.
Held(ix, q) ==
  \A f \in Definers(ix, q) : \E s \in In(ix.symbols[q]) : s.project /\ s.file = f

\* What a file can say.
AContent(c) == c \in [ns : Nss, inNs : BOOLEAN, names : SUBSET Names, uses : 0..MaxUses]

\* The contents of the model are of that kind.
LEMMA ContentTyped ==
  ASSUME NEW f \in Sources, NEW c \in Contents[f]
  PROVE  AContent(c)
BY IndexAssumption DEF AContent

\* Indexing the names of a file, name by name.
LEMMA InsertSymbolsIs ==
  ASSUME NEW ix \in Indexes, NEW fqns \in SUBSET Fqns, NEW s \in Symbols
  PROVE  /\ InsertSymbols(ix, fqns, s) \in [Fqns -> Slots(Symbols)]
         /\ \A q \in Fqns : InsertSymbols(ix, fqns, s)[q] =
              IF q \in fqns THEN RankInsert(ix.symbols[q], s, SymbolRanks) ELSE ix.symbols[q]
<1>1. \A q \in Fqns : ix.symbols[q] \in Slots(Symbols)
  BY IndexFields
<1>2. \A q \in Fqns : RankInsert(ix.symbols[q], s, SymbolRanks) \in Slots(Symbols)
  BY <1>1, RankInsertIsSlot, IndexAssumption
<1> QED BY <1>1, <1>2 DEF InsertSymbols

\* What insert_file makes of an index that has no record of the file.
Inserted(ix, r, f, c) ==
  /\ \A q \in Fqns :
       r.symbols[q] = IF q \in FqnsOf(c)
                      THEN RankInsert(ix.symbols[q], [file |-> f, project |-> TRUE], SymbolRanks)
                      ELSE ix.symbols[q]
  /\ r.files = [ix.files EXCEPT ![f] = [ns |-> c.ns, inNs |-> c.inNs, fqns |-> FqnsOf(c)]]
  /\ r.occurrences = [ix.occurrences EXCEPT ![f] = c.uses]
  /\ r.file_to_ns = [ix.file_to_ns EXCEPT ![f] = c.ns]
  /\ r.ns_symbols = [ix.ns_symbols EXCEPT ![c.ns] = IF @ = None THEN FqnsOf(c) ELSE @ \cup FqnsOf(c)]
  /\ \A n \in Nss \ {c.ns} : r.namespaces[n] = ix.namespaces[n]
  /\ r.namespaces[c.ns] = RankInsert(ix.namespaces[c.ns], [file |-> f, inNs |-> c.inNs], MetaRanks(r))
  /\ r.namespaces[c.ns].primary # None

\* insert_file, table by table.
LEMMA InsertFileIs ==
  ASSUME NEW ix \in Indexes, Grouped(ix), EdnsBare(ix),
         NEW f \in Files, ix.files[f] = None, NEW c, AContent(c),
         NEW r, r = InsertFile(ix, f, c)
  PROVE  r \in Indexes /\ Grouped(r) /\ EdnsBare(r) /\ Inserted(ix, r, f, c)
<1> DEFINE s    == [file |-> f, project |-> TRUE]
           m    == [file |-> f, inNs |-> c.inNs]
           rc   == [ns |-> c.ns, inNs |-> c.inNs, fqns |-> FqnsOf(c)]
           occ  == ReplaceOccurrences(ix, f, c.uses)
           syms == [occ EXCEPT !.symbols = InsertSymbols(occ, FqnsOf(c), s)]
           ext  == ExtendNsSymbols(syms, c.ns, FqnsOf(c))
           rec  == [ext EXCEPT !.file_to_ns[f] = c.ns, !.files[f] = rc, !.ns_files[c.ns] = Append(@, f)]
<1>1. r = InsertMeta(rec, c.ns, m)
  BY DEF InsertFile
<1>2. f \in Paths /\ f \in Sources /\ s \in Symbols /\ m \in Metas /\ rc \in Records
      /\ c.ns \in Nss /\ FqnsOf(c) \in SUBSET Fqns /\ c.uses \in 0..MaxUses
  BY DEF Paths, Sources, Symbols, Metas, Records, AContent, FqnsOf, Fqns
<1> HIDE DEF s, m, rc
<1>3. /\ occ \in Indexes
      /\ occ.symbols = ix.symbols /\ occ.namespaces = ix.namespaces /\ occ.ns_symbols = ix.ns_symbols
      /\ occ.files = ix.files /\ occ.ns_files = ix.ns_files /\ occ.file_to_ns = ix.file_to_ns
      /\ occ.occurrences = [ix.occurrences EXCEPT ![f] = c.uses]
  <2>1. SubCount(ix.keyword_count + c.uses, Uses(ix, f)) \in Nat
    BY <1>2, IndexFields, IndexAssumption DEF SubCount, Uses
  <2> QED BY <1>2, <2>1 DEF ReplaceOccurrences, Indexes
<1> HIDE DEF occ
<1>4. InsertSymbols(occ, FqnsOf(c), s) \in [Fqns -> Slots(Symbols)]
      /\ \A q \in Fqns : InsertSymbols(occ, FqnsOf(c), s)[q] =
           IF q \in FqnsOf(c) THEN RankInsert(ix.symbols[q], s, SymbolRanks) ELSE ix.symbols[q]
  BY <1>2, <1>3, InsertSymbolsIs
<1>5. /\ syms \in Indexes
      /\ syms.symbols = InsertSymbols(occ, FqnsOf(c), s)
      /\ syms.namespaces = ix.namespaces /\ syms.ns_symbols = ix.ns_symbols
      /\ syms.files = ix.files /\ syms.ns_files = ix.ns_files /\ syms.file_to_ns = ix.file_to_ns
      /\ syms.occurrences = [ix.occurrences EXCEPT ![f] = c.uses]
  BY <1>3, <1>4 DEF Indexes
<1> HIDE DEF syms
<1>6. /\ ext \in Indexes
      /\ ext.symbols = syms.symbols
      /\ ext.namespaces = ix.namespaces
      /\ ext.ns_symbols = [ix.ns_symbols EXCEPT ![c.ns] = IF @ = None THEN FqnsOf(c) ELSE @ \cup FqnsOf(c)]
      /\ ext.files = ix.files /\ ext.ns_files = ix.ns_files /\ ext.file_to_ns = ix.file_to_ns
      /\ ext.occurrences = [ix.occurrences EXCEPT ![f] = c.uses]
  BY <1>2, <1>5 DEF Indexes, ExtendNsSymbols
<1> HIDE DEF ext
<1>7. /\ rec \in Indexes
      /\ rec.symbols = syms.symbols
      /\ rec.namespaces = ix.namespaces
      /\ rec.ns_symbols = [ix.ns_symbols EXCEPT ![c.ns] = IF @ = None THEN FqnsOf(c) ELSE @ \cup FqnsOf(c)]
      /\ rec.files = [ix.files EXCEPT ![f] = rc]
      /\ rec.ns_files = [ix.ns_files EXCEPT ![c.ns] = Append(@, f)]
      /\ rec.file_to_ns = [ix.file_to_ns EXCEPT ![f] = c.ns]
      /\ rec.occurrences = [ix.occurrences EXCEPT ![f] = c.uses]
  <2>1. Append(ix.ns_files[c.ns], f) \in Seq(Files)
    BY <1>2, IndexFields
  <2> QED BY <1>2, <1>6, <2>1 DEF Indexes
<1> HIDE DEF rec
<1>8. /\ RankInsert(rec.namespaces[c.ns], m, MetaRanks(rec)) \in Slots(Metas)
      /\ RankInsert(rec.namespaces[c.ns], m, MetaRanks(rec)).primary # None
  <2>1. rec.namespaces[c.ns] \in Slots(Metas) /\ None \notin Metas
    BY <1>2, <1>7, IndexFields, IndexAssumption
  <2> QED BY <1>2, <2>1, RankInsertIsSlot
<1>9. /\ r \in Indexes
      /\ r.symbols = syms.symbols
      /\ r.ns_symbols = rec.ns_symbols
      /\ r.files = rec.files
      /\ r.ns_files = rec.ns_files
      /\ r.file_to_ns = rec.file_to_ns
      /\ r.occurrences = rec.occurrences
      /\ \A n \in Nss \ {c.ns} : r.namespaces[n] = ix.namespaces[n]
      /\ r.namespaces[c.ns].primary # None
  <2> PICK nn : nn = [rec.namespaces EXCEPT ![c.ns] = RankInsert(@, m, MetaRanks(rec))]
    OBVIOUS
  <2>1. r = [rec EXCEPT !.namespaces = nn]
    BY <1>1 DEF InsertMeta
  <2>2. /\ nn \in [Nss -> Slots(Metas)] /\ nn[c.ns].primary # None
        /\ \A n \in Nss \ {c.ns} : nn[n] = ix.namespaces[n]
    BY <1>2, <1>7, <1>8, IndexFields
  <2> QED BY <1>7, <2>1, <2>2 DEF Indexes
<1>10. EdnsBare(r)
  BY <1>7, <1>9, IndexFields DEF EdnsBare
<1>11. Grouped(r)
  <2> SUFFICES ASSUME NEW n \in Nss
      PROVE /\ RangeOf(r.ns_files[n]) = {h \in Files : r.files[h] # None /\ r.files[h].ns = n}
            /\ OnceEach(r.ns_files[n])
    BY DEF Grouped
  <2>1. \A h \in Files : h \in Paths /\ r.files[h] = IF h = f THEN rc ELSE ix.files[h]
    BY <1>7, <1>9, IndexFields DEF Paths, Sources
  <2>2. rc # None /\ rc.ns = c.ns
    BY <1>2, IndexAssumption DEF rc
  <2>3. /\ RangeOf(ix.ns_files[n]) = {h \in Files : ix.files[h] # None /\ ix.files[h].ns = n}
        /\ OnceEach(ix.ns_files[n]) /\ ix.ns_files[n] \in Seq(Files)
    BY IndexFields DEF Grouped
  <2>4. CASE n = c.ns
    <3>1. r.ns_files[n] = Append(ix.ns_files[n], f)
      BY <1>7, <1>9, <2>4, IndexFields
    <3>2. RangeOf(r.ns_files[n]) = RangeOf(ix.ns_files[n]) \cup {f}
      <4> PICK p \in Seq(Files) : p = ix.ns_files[n]
        BY <2>3
      <4> PICK u : u = Append(p, f)
        OBVIOUS
      <4>1. /\ DOMAIN u = 1..(Len(p) + 1) /\ u[Len(p) + 1] = f
            /\ \A i \in 1..Len(p) : u[i] = p[i]
            /\ Len(p) \in Nat /\ DOMAIN p = 1..Len(p)
        OBVIOUS
      <4>2. RangeOf(u) = RangeOf(p) \cup {f}
        BY <4>1 DEF RangeOf
      <4> QED BY <3>1, <4>2
    <3>3. OnceEach(r.ns_files[n])
      <4> PICK p \in Seq(Files) : p = ix.ns_files[n]
        BY <2>3
      <4>1. /\ DOMAIN Append(p, f) = 1..(Len(p) + 1) /\ Append(p, f)[Len(p) + 1] = f
            /\ \A i \in 1..Len(p) : Append(p, f)[i] = p[i]
        OBVIOUS
      <4>2. \A i \in 1..Len(p) : p[i] # f
        BY <2>3 DEF RangeOf
      <4> QED BY <2>3, <3>1, <4>1, <4>2 DEF OnceEach
    <3> QED BY <2>1, <2>2, <2>3, <2>4, <3>2, <3>3
  <2>5. CASE n # c.ns
    <3>1. r.ns_files[n] = ix.ns_files[n]
      BY <1>7, <1>9, <2>5, IndexFields
    <3> QED BY <2>1, <2>2, <2>3, <2>5, <3>1
  <2> QED BY <2>4, <2>5
<1>12. \A q \in Fqns : r.symbols[q] = IF q \in FqnsOf(c) THEN RankInsert(ix.symbols[q], s, SymbolRanks)
                                      ELSE ix.symbols[q]
  BY <1>4, <1>5, <1>9
<1>13. r.namespaces[c.ns] = RankInsert(ix.namespaces[c.ns], m, MetaRanks(r))
  <2>1. MetaRanks(r) = MetaRanks(rec)
    BY <1>9 DEF MetaRanks, MetaRank, IsProjectPath
  <2>2. r.namespaces[c.ns] = RankInsert(rec.namespaces[c.ns], m, MetaRanks(rec))
    BY <1>1, <1>2, <1>7, IndexFields DEF InsertMeta
  <2> QED BY <1>7, <2>1, <2>2
<1> QED BY <1>7, <1>9, <1>10, <1>11, <1>12, <1>13 DEF s, rc, Inserted, m

\* insert_file keeps the tables sound, and every definition held unless two
\* files of one dialect now define the name.
LEMMA InsertFileSound ==
  ASSUME NEW ix, NEW S, Sound(ix, S), NEW f \in Files, ix.files[f] = None, NEW c, AContent(c)
  PROVE  /\ Sound(InsertFile(ix, f, c), S)
         /\ \A q \in Fqns : q[1] \notin S /\ Held(ix, q) /\ Twins(Definers(InsertFile(ix, f, c), q))
                              => Held(InsertFile(ix, f, c), q)
<1> DEFINE s  == [file |-> f, project |-> TRUE]
           rc == [ns |-> c.ns, inNs |-> c.inNs, fqns |-> FqnsOf(c)]
<1> PICK r : r = InsertFile(ix, f, c)
  OBVIOUS
<1>1. ix \in Indexes /\ EdnsBare(ix) /\ Grouped(ix) /\ OwnNames(ix) /\ SlotsShaped(ix)
      /\ NamesListed(ix) /\ NsKnown(ix) /\ OwnersKnown(ix, S)
  BY DEF Sound
<1>2. /\ r \in Indexes /\ Grouped(r) /\ EdnsBare(r)
      /\ Inserted(ix, r, f, c)
  BY <1>1, InsertFileIs
<1>3. f \in Paths /\ f \in Sources /\ s \in Symbols /\ rc \in Records /\ rc # None
      /\ c.ns \in Nss /\ FqnsOf(c) \in SUBSET Fqns /\ c.uses \in 0..MaxUses /\ c.uses # None
      /\ FqnsOf(c) # None /\ None \notin Symbols
  BY IndexAssumption DEF Paths, Sources, Symbols, Records, AContent, FqnsOf, Fqns
<1>4. /\ rc.ns = c.ns /\ rc.fqns = FqnsOf(c) /\ s.file = f /\ s.project = TRUE
      /\ \A q \in FqnsOf(c) : q[1] = c.ns /\ q \in {c.ns} \X Names
  BY DEF FqnsOf, AContent
<1>5. /\ \A q \in Fqns : r.symbols[q] = IF q \in FqnsOf(c) THEN RankInsert(ix.symbols[q], s, SymbolRanks)
                                         ELSE ix.symbols[q]
      /\ r.files = [ix.files EXCEPT ![f] = rc]
      /\ r.occurrences = [ix.occurrences EXCEPT ![f] = c.uses]
      /\ r.file_to_ns = [ix.file_to_ns EXCEPT ![f] = c.ns]
      /\ r.ns_symbols = [ix.ns_symbols EXCEPT ![c.ns] = IF @ = None THEN FqnsOf(c) ELSE @ \cup FqnsOf(c)]
      /\ \A n \in Nss \ {c.ns} : r.namespaces[n] = ix.namespaces[n]
      /\ r.namespaces[c.ns].primary # None
  BY <1>2 DEF Inserted, s, rc
<1> HIDE DEF s, rc
<1>6. \A h \in Files : /\ h \in Paths
                       /\ r.files[h] = IF h = f THEN rc ELSE ix.files[h]
                       /\ r.occurrences[h] = IF h = f THEN c.uses ELSE ix.occurrences[h]
                       /\ r.file_to_ns[h] = IF h = f THEN c.ns ELSE ix.file_to_ns[h]
  BY <1>1, <1>5, IndexFields DEF Paths, Sources
<1>7. \A q \in Fqns : q[1] \in Nss /\ ix.symbols[q] \in Slots(Symbols) /\ Shaped(ix.symbols[q])
  BY <1>1, IndexFields DEF Fqns, SlotsShaped
<1>8. OwnNames(r)
  <2> SUFFICES ASSUME NEW h \in Files, r.files[h] # None
               PROVE  r.files[h].fqns \subseteq {r.files[h].ns} \X Names /\ r.occurrences[h] # None
    BY DEF OwnNames
  <2>1. CASE h = f
    BY <1>3, <1>4, <1>6, <2>1
  <2>2. CASE h # f
    BY <1>1, <1>6, <2>2 DEF OwnNames
  <2> QED BY <2>1, <2>2
<1>9. SlotsShaped(r)
  BY <1>5, <1>3, <1>7, RankInsertShaped DEF SlotsShaped
<1>10. \A q \in Fqns : /\ In(r.symbols[q]) \subseteq In(ix.symbols[q]) \cup (IF q \in FqnsOf(c) THEN {s} ELSE {})
                       /\ q \notin FqnsOf(c) => r.symbols[q] = ix.symbols[q]
  BY <1>5, <1>3, <1>7, RankInsertIsSlot
<1>11. NamesListed(r)
  <2> SUFFICES ASSUME NEW q \in Fqns, r.symbols[q].primary # None
               PROVE  r.ns_symbols[q[1]] # None /\ q \in r.ns_symbols[q[1]]
    BY DEF NamesListed
  <2> PICK n \in Nss : n = q[1]
    BY <1>7
  <2> PICK k \in SUBSET Fqns : k = FqnsOf(c)
    BY <1>3
  <2> PICK old \in (SUBSET Fqns) \cup {None} : old = ix.ns_symbols[n]
    BY <1>1, IndexFields
  <2>1. r.ns_symbols[n] = IF n # c.ns THEN old ELSE IF old = None THEN k ELSE old \cup k
    BY <1>1, <1>5, IndexFields
  <2>2. k # None /\ (old # None => old \cup k \in SUBSET Fqns)
    BY <1>3
  <2>3. old # None => old \cup k # None
    BY <2>2, IndexAssumption
  <2>4. CASE q \in FqnsOf(c)
    BY <1>4, <2>1, <2>2, <2>3, <2>4
  <2>5. CASE q \notin FqnsOf(c)
    <3>1. old # None /\ q \in old
      BY <1>1, <1>10, <2>5 DEF NamesListed
    <3> QED BY <2>1, <2>3, <3>1
  <2> QED BY <2>4, <2>5
<1>12. NsKnown(r)
  <2> SUFFICES ASSUME NEW h \in Files, r.files[h] # None, r.file_to_ns[h] = r.files[h].ns
               PROVE  r.namespaces[r.files[h].ns].primary # None
    BY DEF NsKnown
  <2>1. CASE h = f
    BY <1>5, <1>4, <1>6, <2>1
  <2>2. CASE h # f
    <3>1. ix.files[h].ns \in Nss /\ ix.namespaces[ix.files[h].ns].primary # None /\ r.files[h] = ix.files[h]
      BY <1>1, <1>6, <2>2, IndexFields DEF NsKnown, Records
    <3> QED BY <1>5, <3>1
  <2> QED BY <2>1, <2>2
<1>13. \A q \in Fqns : Definers(r, q) = Definers(ix, q) \cup (IF q \in FqnsOf(c) THEN {f} ELSE {})
  BY <1>3, <1>4, <1>6 DEF Definers
<1>14. OwnersKnown(r, S)
  <2> SUFFICES ASSUME NEW q \in Fqns, q[1] \notin S, NEW x \in In(r.symbols[q]), x.project
               PROVE  x.file \in Definers(r, q) /\ r.file_to_ns[x.file] = q[1]
    BY DEF OwnersKnown
  <2>1. CASE q \in FqnsOf(c) /\ x = s
    BY <1>4, <1>6, <1>13, <2>1
  <2>2. CASE x \in In(ix.symbols[q])
    <3>1. x.file \in Definers(ix, q) /\ ix.file_to_ns[x.file] = q[1]
      BY <1>1, <2>2 DEF OwnersKnown
    <3>2. x.file # f /\ x.file \in Files
      BY <3>1 DEF Definers
    <3> QED BY <1>6, <1>13, <3>1, <3>2
  <2> QED BY <1>10, <2>1, <2>2
<1>15. ASSUME NEW q \in Fqns, q[1] \notin S, Held(ix, q), Twins(Definers(r, q))
       PROVE  Held(r, q)
  <2>1. CASE q \notin FqnsOf(c)
    BY <1>10, <1>13, <1>15, <2>1 DEF Held
  <2>2. CASE q \in FqnsOf(c)
    <3>1. \A x \in In(ix.symbols[q]) : x.project => Cljs(x.file) # Cljs(s.file)
      <4> SUFFICES ASSUME NEW x \in In(ix.symbols[q]), x.project PROVE Cljs(x.file) # Cljs(s.file)
        OBVIOUS
      <4>1. x.file \in Definers(ix, q)
        BY <1>1, <1>15 DEF OwnersKnown
      <4>2. x.file # f /\ x.file \in Definers(r, q) /\ f \in Definers(r, q)
        BY <1>13, <2>2, <4>1 DEF Definers
      <4> QED BY <1>4, <1>15, <4>2 DEF Twins
    <3>2. /\ s \in In(r.symbols[q])
          /\ \A x \in In(ix.symbols[q]) : x.project => x \in In(r.symbols[q])
      BY <1>5, <1>3, <1>4, <1>7, <2>2, <3>1, ProjectEnters
    <3> QED BY <1>4, <1>13, <1>15, <2>2, <3>2 DEF Held
  <2> QED BY <2>1, <2>2
<1> QED BY <1>2, <1>8, <1>9, <1>11, <1>12, <1>14, <1>15 DEF Sound

\* insert_edn_file keeps the tables sound and every definition held.
LEMMA InsertEdnSound ==
  ASSUME NEW ix, NEW S, Sound(ix, S), NEW f \in EdnFiles, NEW uses \in 0..MaxUses,
         NEW r, r = InsertEdnFile(ix, f, uses)
  PROVE  /\ Sound(r, S)
         /\ \A q \in Fqns : Definers(r, q) = Definers(ix, q) /\ (Held(ix, q) => Held(r, q))
<1>1. ix \in Indexes /\ EdnsBare(ix) /\ Grouped(ix) /\ OwnNames(ix) /\ SlotsShaped(ix)
      /\ NamesListed(ix) /\ NsKnown(ix) /\ OwnersKnown(ix, S)
  BY DEF Sound
<1>2. f \in Paths /\ f \notin Files
  BY IndexAssumption DEF Paths, Sources
<1>3. SubCount(ix.keyword_count + uses, Uses(ix, f)) \in Nat
  BY <1>1, <1>2, IndexFields, IndexAssumption DEF SubCount, Uses
<1> PICK k : k = SubCount(ix.keyword_count + uses, Uses(ix, f))
  OBVIOUS
<1>4. r = [ix EXCEPT !.occurrences[f] = uses, !.keyword_count = k, !.file_to_ns[f] = EdnNs]
  BY DEF InsertEdnFile, ReplaceOccurrences
<1>5. /\ r \in Indexes
      /\ r.symbols = ix.symbols /\ r.namespaces = ix.namespaces /\ r.ns_symbols = ix.ns_symbols
      /\ r.files = ix.files /\ r.ns_files = ix.ns_files
      /\ r.occurrences = [ix.occurrences EXCEPT ![f] = uses]
      /\ r.file_to_ns = [ix.file_to_ns EXCEPT ![f] = EdnNs]
  <2> PICK oo, ff : /\ oo = [ix.occurrences EXCEPT ![f] = uses]
                    /\ ff = [ix.file_to_ns EXCEPT ![f] = EdnNs]
    OBVIOUS
  <2>1. /\ oo \in [Paths -> (0..MaxUses) \cup {None}]
        /\ ff \in [Paths -> Nss \cup {None, EdnNs}]
    BY <1>1, <1>2, IndexFields
  <2>2. r = [ix EXCEPT !.occurrences = oo, !.keyword_count = k, !.file_to_ns = ff]
    BY <1>4
  <2>3. ix \in Indexes /\ k \in Nat
    BY <1>1, <1>3
  <2> HIDE <1>4
  <2> QED BY <2>1, <2>2, <2>3 DEF Indexes
<1>6. \A h \in Files : /\ h \in Paths
                       /\ r.occurrences[h] = ix.occurrences[h]
                       /\ r.file_to_ns[h] = ix.file_to_ns[h]
  BY <1>1, <1>2, <1>5, IndexFields DEF Paths, Sources
<1>7. \A q \in Fqns : Definers(r, q) = Definers(ix, q)
  BY <1>5 DEF Definers
<1>8. EdnsBare(r) /\ Grouped(r)
  BY <1>1, <1>5 DEF EdnsBare, Grouped
<1>9. OwnNames(r) /\ NsKnown(r)
  BY <1>1, <1>5, <1>6 DEF OwnNames, NsKnown
<1>10. SlotsShaped(r) /\ NamesListed(r)
  BY <1>1, <1>5 DEF SlotsShaped, NamesListed
<1>11. OwnersKnown(r, S)
  <2> SUFFICES ASSUME NEW q \in Fqns, q[1] \notin S, NEW s \in In(r.symbols[q]), s.project
               PROVE  s.file \in Definers(r, q) /\ r.file_to_ns[s.file] = q[1]
    BY DEF OwnersKnown
  <2>1. s.file \in Definers(ix, q) /\ ix.file_to_ns[s.file] = q[1]
    BY <1>1, <1>5 DEF OwnersKnown
  <2> QED BY <1>6, <1>7, <2>1 DEF Definers
<1> QED BY <1>5, <1>7, <1>8, <1>9, <1>10, <1>11 DEF Sound, Held

-----------------------------------------------------------------------------
(* insert_lib_file *)

\* What insert_lib_file makes of an index when the namespace is not owned.
InsertedLib(ix, r, f, c) ==
  /\ \A q \in Fqns :
       r.symbols[q] = IF q \in FqnsOf(c)
                      THEN RankInsert(ix.symbols[q], [file |-> f, project |-> FALSE], SymbolRanks)
                      ELSE ix.symbols[q]
  /\ r.files = ix.files /\ r.ns_files = ix.ns_files /\ r.occurrences = ix.occurrences
  /\ r.file_to_ns = [ix.file_to_ns EXCEPT ![f] = c.ns]
  /\ r.ns_symbols = [ix.ns_symbols EXCEPT ![c.ns] = IF @ = None THEN FqnsOf(c) ELSE @ \cup FqnsOf(c)]
  /\ \A n \in Nss \ {c.ns} : r.namespaces[n] = ix.namespaces[n]
  /\ r.namespaces[c.ns] = RankInsert(ix.namespaces[c.ns], [file |-> f, inNs |-> c.inNs], MetaRanks(ix))
  /\ r.namespaces[c.ns].primary # None

\* insert_lib_file, table by table.
LEMMA InsertLibFileIs ==
  ASSUME NEW ix \in Indexes, NEW f \in LibFiles, NEW c, AContent(c),
         NEW r, r = InsertLibFile(ix, f, c), r # ix
  PROVE  r \in Indexes /\ InsertedLib(ix, r, f, c)
<1> DEFINE s    == [file |-> f, project |-> FALSE]
           m    == [file |-> f, inNs |-> c.inNs]
           syms == [ix EXCEPT !.symbols = InsertSymbols(ix, FqnsOf(c), s)]
           ext  == ExtendNsSymbols(syms, c.ns, FqnsOf(c))
           rec  == [ext EXCEPT !.file_to_ns[f] = c.ns]
<1>1. r = InsertMeta(rec, c.ns, m)
  BY DEF InsertLibFile
<1>2. f \in Paths /\ f \in Sources /\ s \in Symbols /\ m \in Metas
      /\ c.ns \in Nss /\ FqnsOf(c) \in SUBSET Fqns
  BY DEF Paths, Sources, Symbols, Metas, AContent, FqnsOf, Fqns
<1> HIDE DEF s, m
<1>3. InsertSymbols(ix, FqnsOf(c), s) \in [Fqns -> Slots(Symbols)]
      /\ \A q \in Fqns : InsertSymbols(ix, FqnsOf(c), s)[q] =
           IF q \in FqnsOf(c) THEN RankInsert(ix.symbols[q], s, SymbolRanks) ELSE ix.symbols[q]
  BY <1>2, InsertSymbolsIs
<1>4. /\ syms \in Indexes
      /\ syms.symbols = InsertSymbols(ix, FqnsOf(c), s)
      /\ syms.namespaces = ix.namespaces /\ syms.ns_symbols = ix.ns_symbols
      /\ syms.files = ix.files /\ syms.ns_files = ix.ns_files /\ syms.file_to_ns = ix.file_to_ns
      /\ syms.occurrences = ix.occurrences
  BY <1>3 DEF Indexes
<1> HIDE DEF syms
<1>5. /\ ext \in Indexes
      /\ ext.symbols = syms.symbols
      /\ ext.namespaces = ix.namespaces
      /\ ext.ns_symbols = [ix.ns_symbols EXCEPT ![c.ns] = IF @ = None THEN FqnsOf(c) ELSE @ \cup FqnsOf(c)]
      /\ ext.files = ix.files /\ ext.ns_files = ix.ns_files /\ ext.file_to_ns = ix.file_to_ns
      /\ ext.occurrences = ix.occurrences
  BY <1>2, <1>4 DEF Indexes, ExtendNsSymbols
<1> HIDE DEF ext
<1>6. /\ rec \in Indexes
      /\ rec.symbols = syms.symbols
      /\ rec.namespaces = ix.namespaces
      /\ rec.ns_symbols = [ix.ns_symbols EXCEPT ![c.ns] = IF @ = None THEN FqnsOf(c) ELSE @ \cup FqnsOf(c)]
      /\ rec.files = ix.files /\ rec.ns_files = ix.ns_files
      /\ rec.file_to_ns = [ix.file_to_ns EXCEPT ![f] = c.ns]
      /\ rec.occurrences = ix.occurrences
  BY <1>2, <1>5 DEF Indexes
<1> HIDE DEF rec
<1>7. /\ RankInsert(rec.namespaces[c.ns], m, MetaRanks(rec)) \in Slots(Metas)
      /\ RankInsert(rec.namespaces[c.ns], m, MetaRanks(rec)).primary # None
  <2>1. rec.namespaces[c.ns] \in Slots(Metas) /\ None \notin Metas
    BY <1>2, <1>6, IndexFields, IndexAssumption
  <2> QED BY <1>2, <2>1, RankInsertIsSlot
<1> PICK nn : nn = [rec.namespaces EXCEPT ![c.ns] = RankInsert(@, m, MetaRanks(rec))]
  OBVIOUS
<1>8. r = [rec EXCEPT !.namespaces = nn]
  BY <1>1 DEF InsertMeta
<1>9. /\ nn \in [Nss -> Slots(Metas)] /\ nn[c.ns].primary # None
      /\ \A n \in Nss \ {c.ns} : nn[n] = ix.namespaces[n]
  BY <1>2, <1>6, <1>7, IndexFields
<1>10. /\ r \in Indexes
       /\ r.symbols = syms.symbols /\ r.ns_symbols = rec.ns_symbols
       /\ r.files = ix.files /\ r.ns_files = ix.ns_files /\ r.occurrences = ix.occurrences
       /\ r.file_to_ns = rec.file_to_ns /\ r.namespaces = nn
  BY <1>6, <1>8, <1>9 DEF Indexes
<1>11. \A q \in Fqns : r.symbols[q] = IF q \in FqnsOf(c) THEN RankInsert(ix.symbols[q], s, SymbolRanks)
                                      ELSE ix.symbols[q]
  BY <1>3, <1>4, <1>10
<1>12. r.namespaces[c.ns] = RankInsert(ix.namespaces[c.ns], m, MetaRanks(ix))
  <2>1. MetaRanks(ix) = MetaRanks(rec)
    BY <1>6 DEF MetaRanks, MetaRank, IsProjectPath
  <2>2. nn[c.ns] = RankInsert(rec.namespaces[c.ns], m, MetaRanks(rec))
    BY <1>2, <1>6, IndexFields
  <2> QED BY <1>6, <1>10, <2>1, <2>2
<1> QED BY <1>6, <1>9, <1>10, <1>11, <1>12 DEF s, m, InsertedLib

\* insert_lib_file keeps the tables sound but for the namespaces it makes a
\* file stray from, and every definition held.
LEMMA InsertLibFileSound ==
  ASSUME NEW ix, NEW S, Sound(ix, S), NEW f \in LibFiles, NEW c, AContent(c),
         NEW r, r = InsertLibFile(ix, f, c),
         NEW T, S \subseteq T, {n \in Nss : HasStray(r, n)} \subseteq T
  PROVE  /\ Sound(r, T)
         /\ \A q \in Fqns : Definers(r, q) = Definers(ix, q) /\ (Held(ix, q) => Held(r, q))
<1> DEFINE s == [file |-> f, project |-> FALSE]
<1>1. ix \in Indexes /\ EdnsBare(ix) /\ Grouped(ix) /\ OwnNames(ix) /\ SlotsShaped(ix)
      /\ NamesListed(ix) /\ NsKnown(ix) /\ OwnersKnown(ix, S)
  BY DEF Sound
<1>2. CASE r = ix
  BY <1>1, <1>2 DEF Sound, OwnersKnown
<1>3. CASE r # ix
  <2>1. r \in Indexes /\ InsertedLib(ix, r, f, c)
    BY <1>1, <1>3, InsertLibFileIs
  <2>2. f \in Paths /\ s \in Symbols /\ c.ns \in Nss /\ FqnsOf(c) \in SUBSET Fqns /\ FqnsOf(c) # None
        /\ None \notin Symbols /\ s.project = FALSE
        /\ \A q \in FqnsOf(c) : q[1] = c.ns
    BY IndexAssumption DEF Paths, Sources, Symbols, AContent, FqnsOf, Fqns
  <2>3. /\ \A q \in Fqns : r.symbols[q] = IF q \in FqnsOf(c) THEN RankInsert(ix.symbols[q], s, SymbolRanks)
                                          ELSE ix.symbols[q]
        /\ r.files = ix.files /\ r.ns_files = ix.ns_files /\ r.occurrences = ix.occurrences
        /\ r.file_to_ns = [ix.file_to_ns EXCEPT ![f] = c.ns]
        /\ r.ns_symbols = [ix.ns_symbols EXCEPT ![c.ns] = IF @ = None THEN FqnsOf(c) ELSE @ \cup FqnsOf(c)]
        /\ \A n \in Nss \ {c.ns} : r.namespaces[n] = ix.namespaces[n]
        /\ r.namespaces[c.ns].primary # None
    BY <2>1 DEF InsertedLib, s
  <2> HIDE DEF s
  <2>4. \A q \in Fqns : q[1] \in Nss /\ ix.symbols[q] \in Slots(Symbols) /\ Shaped(ix.symbols[q])
    BY <1>1, IndexFields DEF Fqns, SlotsShaped
  <2>5. \A h \in Files : h \in Paths /\ r.file_to_ns[h] = IF h = f THEN c.ns ELSE ix.file_to_ns[h]
    BY <1>1, <2>3, IndexFields DEF Paths, Sources
  <2>6. EdnsBare(r) /\ Grouped(r) /\ OwnNames(r)
    BY <1>1, <2>3 DEF EdnsBare, Grouped, OwnNames
  <2>7. SlotsShaped(r)
    BY <2>2, <2>3, <2>4, RankInsertShaped DEF SlotsShaped
  <2>8. \A q \in Fqns : /\ In(r.symbols[q]) \subseteq In(ix.symbols[q]) \cup {s}
                        /\ q \notin FqnsOf(c) => r.symbols[q] = ix.symbols[q]
                        /\ \A x \in In(ix.symbols[q]) : x.project => x \in In(r.symbols[q])
    <3> TAKE q \in Fqns
    <3>1. CASE q \in FqnsOf(c)
      BY <2>2, <2>3, <2>4, <3>1, RankInsertIsSlot, LibraryEnters
    <3>2. CASE q \notin FqnsOf(c)
      BY <2>3, <3>2
    <3> QED BY <3>1, <3>2
  <2>9. NamesListed(r)
    <3> SUFFICES ASSUME NEW q \in Fqns, r.symbols[q].primary # None
                 PROVE  r.ns_symbols[q[1]] # None /\ q \in r.ns_symbols[q[1]]
      BY DEF NamesListed
    <3> PICK n \in Nss : n = q[1]
      BY <2>4
    <3> PICK k \in SUBSET Fqns : k = FqnsOf(c)
      BY <2>2
    <3> PICK old \in (SUBSET Fqns) \cup {None} : old = ix.ns_symbols[n]
      BY <1>1, IndexFields
    <3>1. r.ns_symbols[n] = IF n # c.ns THEN old ELSE IF old = None THEN k ELSE old \cup k
      BY <1>1, <2>3, IndexFields
    <3>2. k # None /\ (old # None => old \cup k \in SUBSET Fqns)
      BY <2>2
    <3>3. old # None => old \cup k # None
      BY <3>2, IndexAssumption
    <3>4. CASE q \in FqnsOf(c)
      BY <2>2, <3>1, <3>2, <3>3, <3>4
    <3>5. CASE q \notin FqnsOf(c)
      <4>1. old # None /\ q \in old
        BY <1>1, <2>8, <3>5 DEF NamesListed
      <4> QED BY <3>1, <3>3, <4>1
    <3> QED BY <3>4, <3>5
  <2>10. NsKnown(r)
    <3> SUFFICES ASSUME NEW h \in Files, r.files[h] # None, r.file_to_ns[h] = r.files[h].ns
                 PROVE  r.namespaces[r.files[h].ns].primary # None
      BY DEF NsKnown
    <3>1. CASE h = f
      BY <2>3, <2>5, <3>1
    <3>2. CASE h # f
      <4>1. ix.files[h].ns \in Nss /\ ix.namespaces[ix.files[h].ns].primary # None /\ r.files[h] = ix.files[h]
        BY <1>1, <2>3, <2>5, <3>2, IndexFields DEF NsKnown, Records
      <4> QED BY <2>3, <4>1
    <3> QED BY <3>1, <3>2
  <2>11. \A q \in Fqns : Definers(r, q) = Definers(ix, q)
    BY <2>3 DEF Definers
  <2>12. OwnersKnown(r, T)
    <3> SUFFICES ASSUME NEW q \in Fqns, q[1] \notin T, NEW x \in In(r.symbols[q]), x.project
                 PROVE  x.file \in Definers(r, q) /\ r.file_to_ns[x.file] = q[1]
      BY DEF OwnersKnown
    <3>1. x \in In(ix.symbols[q]) /\ q[1] \notin S /\ q[1] \in Nss
      BY <2>2, <2>4, <2>8
    <3>2. x.file \in Definers(ix, q) /\ ix.file_to_ns[x.file] = q[1] /\ x.file \in Files
      BY <1>1, <3>1 DEF OwnersKnown, Definers
    <3>3. x.file = f => c.ns = q[1]
      <4> SUFFICES ASSUME x.file = f, c.ns # q[1] PROVE FALSE
        OBVIOUS
      <4>1. r.files[f] # None /\ q \in r.files[f].fqns /\ f \in Files
        BY <3>2, <2>3 DEF Definers
      <4>2. r.files[f].ns = q[1]
        BY <2>6, <4>1 DEF OwnNames
      <4>3. q[1] \in Homes(r, f) /\ c.ns \in Homes(r, f)
        BY <2>2, <2>5, <3>1, <4>1, <4>2 DEF Homes
      <4>4. HasStray(r, q[1])
        BY <4>1, <4>3 DEF HasStray
      <4> QED BY <3>1, <4>4
    <3> QED BY <2>5, <2>11, <3>2, <3>3
  <2>13. \A q \in Fqns : Held(ix, q) => Held(r, q)
    BY <2>8, <2>11 DEF Held
  <2> QED BY <2>1, <2>6, <2>7, <2>9, <2>10, <2>11, <2>12, <2>13 DEF Sound
<1> QED BY <1>2, <1>3

-----------------------------------------------------------------------------
(* clear_libs *)

\* The symbols clear_libs keeps.
Kept(ix) ==
  [q \in Fqns |->
     [primary |-> KeepIf(OwnSymbol(ix.symbols[q].primary), ix.symbols[q].primary),
      shadow  |-> KeepIf(OwnSymbol(ix.symbols[q].shadow), ix.symbols[q].shadow)]]

\* Whether clear_libs keeps the metadata and the list of n.
StaysIn(ix, n) ==
  /\ ix.ns_symbols[n] # None
  /\ \/ \E q \in ix.ns_symbols[n] : Kept(ix)[q].primary # None
     \/ ix.ns_symbols[n] = {} /\ OwnMeta(ix, ix.namespaces[n].primary)

\* Of a pair, clear_libs keeps the project's definitions and the shape.
LEMMA KeptIs ==
  ASSUME NEW slot \in Slots(Symbols), Shaped(slot)
  PROVE  LET k == [primary |-> KeepIf(OwnSymbol(slot.primary), slot.primary),
                   shadow  |-> KeepIf(OwnSymbol(slot.shadow), slot.shadow)]
         IN  /\ k \in Slots(Symbols) /\ Shaped(k)
             /\ In(k) = {s \in In(slot) : s.project}
             /\ k.primary # None => slot.primary # None
BY IndexAssumption DEF KeepIf, OwnSymbol, Slots, Shaped, SymbolRank, SlotRank, In, Symbols, Cljs, IsCljsRank

\* What drop_foreign makes of the slot k of n.
Refilled(ix, k, new, n) ==
  IF k.primary # None /\ ~OwnMeta(ix, k.primary)
  THEN \E e \in Indexes : /\ e.files = ix.files /\ e.ns_files = ix.ns_files
                          /\ e.occurrences = ix.occurrences /\ e.file_to_ns = ix.file_to_ns
                          /\ e.namespaces[n] = [primary |-> None, shadow |-> k.shadow]
                          /\ new = RefilledSlot(e, n)
  ELSE new = k

\* What clear_libs makes of an index.
Cleared(ix, r) ==
  /\ \A q \in Fqns : r.symbols[q] = Kept(ix)[q]
  /\ \A n \in Nss : r.ns_symbols[n] = KeepIf(StaysIn(ix, n), ix.ns_symbols[n])
  /\ r.files = ix.files /\ r.ns_files = ix.ns_files /\ r.occurrences = ix.occurrences
  /\ r.keyword_count = ix.keyword_count
  /\ \A n \in Nss : StaysIn(ix, n) /\ ix.namespaces[n].primary # None
                       /\ (\E f \in Files : ix.files[f] # None /\ ix.files[f].ns = n)
                       => r.namespaces[n].primary # None
  /\ \A n \in Nss : \A m \in In(r.namespaces[n]) : ix.occurrences[m.file] # None
  /\ \A n \in Nss :
       Refilled(ix,
                [primary |-> KeepIf(StaysIn(ix, n), ix.namespaces[n].primary),
                 shadow  |-> KeepIf(OwnMeta(ix, ix.namespaces[n].shadow), ix.namespaces[n].shadow)],
                r.namespaces[n], n)
  /\ \A f \in Paths :
       r.file_to_ns[f] = IF /\ ix.file_to_ns[f] \in Nss
                            /\ r.namespaces[ix.file_to_ns[f]].primary # None
                         THEN ix.file_to_ns[f] ELSE None

\* Pairs that hold metadata of project files only.
OwnSlots(ix) == {slot \in Slots(Metas) : \A m \in In(slot) : ix.occurrences[m.file] # None}

\* refill_namespace fills a slot from project files only.
LEMMA RefilledIsOwn ==
  ASSUME NEW ix \in Indexes, Grouped(ix), OwnNames(ix), NEW n \in Nss,
         ix.namespaces[n] \in OwnSlots(ix)
  PROVE  RefilledSlot(ix, n) \in OwnSlots(ix)
<1>1. ASSUME NEW slot \in OwnSlots(ix), NEW f \in Files
      PROVE  RefillWith(ix, slot, f) \in OwnSlots(ix)
  <2>1. slot \in Slots(Metas) /\ \A m \in In(slot) : ix.occurrences[m.file] # None
    BY DEF OwnSlots
  <2>2. CASE ix.files[f] = None
    BY <2>2 DEF RefillWith
  <2>3. CASE ix.files[f] # None
    <3> PICK m : m = [file |-> f, inNs |-> ix.files[f].inNs]
      OBVIOUS
    <3>1. m \in Metas /\ None \notin Metas
      BY <2>3, IndexFields, IndexAssumption DEF Metas, Records, Paths, Sources
    <3>2. ix.occurrences[m.file] # None
      BY <2>3 DEF OwnNames
    <3>3. RefillWith(ix, slot, f) = RankInsert(slot, m, MetaRanks(ix))
      BY <2>3 DEF RefillWith
    <3>4. /\ RankInsert(slot, m, MetaRanks(ix)) \in Slots(Metas)
          /\ In(RankInsert(slot, m, MetaRanks(ix))) \subseteq In(slot) \cup {m}
      BY <2>1, <3>1, RankInsertIsSlot
    <3> QED BY <2>1, <3>2, <3>3, <3>4 DEF OwnSlots
  <2> QED BY <2>2, <2>3
<1>2. ix.ns_files[n] \in Seq(Files) /\ \A i \in DOMAIN ix.ns_files[n] : ix.ns_files[n][i] \in Files
  BY IndexFields
<1> QED BY <1>1, <1>2, RefillStays

\* drop_foreign, table by table.
LEMMA DropForeignIs ==
  ASSUME NEW ix \in Indexes, Grouped(ix), OwnNames(ix),
         \A n \in Nss : ix.namespaces[n].shadow # None => ix.occurrences[ix.namespaces[n].shadow.file] # None,
         NEW r, r = DropForeign(ix)
  PROVE  /\ r \in Indexes
         /\ r.symbols = ix.symbols /\ r.ns_symbols = ix.ns_symbols /\ r.files = ix.files
         /\ r.ns_files = ix.ns_files /\ r.occurrences = ix.occurrences /\ r.file_to_ns = ix.file_to_ns
         /\ r.keyword_count = ix.keyword_count
         /\ \A n \in Nss : Refilled(ix, ix.namespaces[n], r.namespaces[n], n)
         /\ \A n \in Nss : /\ r.namespaces[n] \in OwnSlots(ix)
                           /\ ix.namespaces[n].primary # None
                                /\ (\E f \in Files : ix.files[f] # None /\ ix.files[f].ns = n)
                                => r.namespaces[n].primary # None
<1> DEFINE Foreign(n) == ix.namespaces[n].primary # None /\ ~OwnMeta(ix, ix.namespaces[n].primary)
<1> PICK nn : nn = [n \in Nss |-> IF Foreign(n) THEN [ix.namespaces[n] EXCEPT !.primary = None]
                                  ELSE ix.namespaces[n]]
  OBVIOUS
<1> PICK emptied : emptied = [ix EXCEPT !.namespaces = nn]
  OBVIOUS
<1> PICK full : full = [n \in Nss |-> IF Foreign(n) THEN RefillNamespace(emptied, n).namespaces[n]
                                      ELSE ix.namespaces[n]]
  OBVIOUS
<1>1. r = [ix EXCEPT !.namespaces = full]
  BY DEF DropForeign
<1>2. nn \in [Nss -> Slots(Metas)]
  <2>1. \A slot \in Slots(Metas) : [slot EXCEPT !.primary = None] \in Slots(Metas)
    BY DEF Slots
  <2>2. \A n \in Nss : ix.namespaces[n] \in Slots(Metas)
    BY IndexFields
  <2> HIDE DEF Foreign
  <2> QED BY <2>1, <2>2
<1>3. /\ emptied \in Indexes
      /\ emptied.files = ix.files /\ emptied.ns_files = ix.ns_files /\ emptied.occurrences = ix.occurrences
      /\ emptied.namespaces = nn /\ emptied.file_to_ns = ix.file_to_ns
  BY <1>2 DEF Indexes
<1>4. Grouped(emptied) /\ OwnNames(emptied) /\ OwnSlots(emptied) = OwnSlots(ix)
  BY <1>3 DEF Grouped, OwnNames, OwnSlots
<1>5. ASSUME NEW n \in Nss
      PROVE  /\ full[n] \in OwnSlots(ix)
             /\ ix.namespaces[n].primary # None
                  /\ (\E f \in Files : ix.files[f] # None /\ ix.files[f].ns = n)
                  => full[n].primary # None
  <2>1. ix.namespaces[n] \in Slots(Metas)
    BY IndexFields
  <2>2. CASE Foreign(n)
    <3>1. emptied.namespaces[n] = [ix.namespaces[n] EXCEPT !.primary = None]
      BY <1>3, <2>2
    <3>2. emptied.namespaces[n] \in OwnSlots(emptied)
      BY <1>4, <2>1, <3>1 DEF OwnSlots, Slots, In
    <3>3. full[n] = RefilledSlot(emptied, n)
      BY <1>3, <2>2 DEF RefillNamespace, Indexes
    <3>4. full[n] \in OwnSlots(ix)
      BY <1>3, <1>4, <3>2, <3>3, RefilledIsOwn
    <3>5. (\E f \in Files : ix.files[f] # None /\ ix.files[f].ns = n) => RefilledSlot(emptied, n).primary # None
      BY <1>3, <1>4, RefilledIsSlot DEF Grouped
    <3> QED BY <3>3, <3>4, <3>5
  <2>3. CASE ~Foreign(n)
    BY <2>1, <2>3 DEF OwnSlots, In, OwnMeta, IsProjectPath
  <2> QED BY <2>2, <2>3
<1>6. \A n \in Nss : Refilled(ix, ix.namespaces[n], full[n], n)
  <2> TAKE n \in Nss
  <2>1. ix.namespaces[n] \in Slots(Metas)
    BY IndexFields
  <2>2. CASE Foreign(n)
    <3>1. emptied.namespaces[n] = [primary |-> None, shadow |-> ix.namespaces[n].shadow]
      BY <1>3, <2>1, <2>2 DEF Slots
    <3>2. full[n] = RefilledSlot(emptied, n)
      BY <1>3, <2>2 DEF RefillNamespace, Indexes
    <3> QED BY <1>3, <2>2, <3>1, <3>2 DEF Refilled
  <2>3. CASE ~Foreign(n)
    BY <2>3 DEF Refilled
  <2> QED BY <2>2, <2>3
<1> HIDE DEF Foreign
<1>7. full \in [Nss -> Slots(Metas)]
  BY <1>5 DEF OwnSlots
<1> HIDE <1>2
<1> QED BY <1>1, <1>5, <1>7, <1>6 DEF Indexes

\* clear_libs, table by table.
LEMMA ClearLibsIs ==
  ASSUME NEW ix \in Indexes, Grouped(ix), OwnNames(ix), SlotsShaped(ix),
         NEW r, r = ClearLibs(ix)
  PROVE  r \in Indexes /\ Cleared(ix, r)
<1> DEFINE syms == Kept(ix)
           Stays(n) == LET list == ix.ns_symbols[n] IN
                       /\ list # None
                       /\ \/ \E q \in list : syms[q].primary # None
                          \/ list = {} /\ OwnMeta(ix, ix.namespaces[n].primary)
           ll == [n \in Nss |-> KeepIf(Stays(n), ix.ns_symbols[n])]
           nn == [n \in Nss |-> [primary |-> KeepIf(Stays(n), ix.namespaces[n].primary),
                                 shadow  |-> KeepIf(OwnMeta(ix, ix.namespaces[n].shadow),
                                                    ix.namespaces[n].shadow)]]
           k1 == [ix EXCEPT !.symbols = syms, !.ns_symbols = ll, !.namespaces = nn]
           kept == DropForeign(k1)
           ff == [f \in Paths |->
                    IF kept.file_to_ns[f] \in Nss /\ kept.namespaces[kept.file_to_ns[f]].primary # None
                    THEN kept.file_to_ns[f] ELSE None]
<1>1. r = [kept EXCEPT !.file_to_ns = ff]
  BY DEF ClearLibs, Kept
<1>2. \A n \in Nss : Stays(n) <=> StaysIn(ix, n)
  BY DEF StaysIn
<1> HIDE DEF Stays
<1>3. \A n \in Nss : ll[n] = KeepIf(StaysIn(ix, n), ix.ns_symbols[n])
  BY <1>2 DEF KeepIf
<1>4. \A n \in Nss : /\ nn[n].primary = KeepIf(StaysIn(ix, n), ix.namespaces[n].primary)
                     /\ nn[n].shadow = KeepIf(OwnMeta(ix, ix.namespaces[n].shadow), ix.namespaces[n].shadow)
  BY <1>2 DEF KeepIf
<1>5. syms \in [Fqns -> Slots(Symbols)]
  BY IndexFields, KeptIs DEF Kept, SlotsShaped
<1>6. ll \in [Nss -> (SUBSET Fqns) \cup {None}]
  BY IndexFields DEF KeepIf
<1>7. nn \in [Nss -> Slots(Metas)]
  BY IndexFields DEF KeepIf, Slots
<1> HIDE DEF syms, ll, nn
<1>8. /\ k1 \in Indexes
      /\ k1.symbols = syms /\ k1.ns_symbols = ll /\ k1.namespaces = nn
      /\ k1.files = ix.files /\ k1.ns_files = ix.ns_files /\ k1.occurrences = ix.occurrences
      /\ k1.file_to_ns = ix.file_to_ns /\ k1.keyword_count = ix.keyword_count
  BY <1>5, <1>6, <1>7 DEF Indexes
<1> HIDE DEF k1
<1>9. Grouped(k1) /\ OwnNames(k1) /\ OwnSlots(k1) = OwnSlots(ix)
  BY <1>8 DEF Grouped, OwnNames, OwnSlots
<1>10. \A n \in Nss : k1.namespaces[n].shadow # None => k1.occurrences[k1.namespaces[n].shadow.file] # None
  BY <1>8, <1>4 DEF KeepIf, OwnMeta, IsProjectPath
<1>11. /\ kept \in Indexes
       /\ kept.symbols = k1.symbols /\ kept.ns_symbols = k1.ns_symbols /\ kept.files = k1.files
       /\ kept.ns_files = k1.ns_files /\ kept.occurrences = k1.occurrences /\ kept.file_to_ns = k1.file_to_ns
       /\ kept.keyword_count = k1.keyword_count
       /\ \A n \in Nss : Refilled(k1, k1.namespaces[n], kept.namespaces[n], n)
       /\ \A n \in Nss : /\ kept.namespaces[n] \in OwnSlots(k1)
                         /\ k1.namespaces[n].primary # None
                              /\ (\E f \in Files : k1.files[f] # None /\ k1.files[f].ns = n)
                              => kept.namespaces[n].primary # None
  BY <1>8, <1>9, <1>10, DropForeignIs
<1>12. \A f \in Paths : ff[f] = IF kept.file_to_ns[f] \in Nss /\ kept.namespaces[kept.file_to_ns[f]].primary # None
                                 THEN kept.file_to_ns[f] ELSE None
  OBVIOUS
<1> HIDE DEF kept
<1>13. ff \in [Paths -> Nss \cup {None, EdnNs}]
  BY <1>11, IndexFields
<1> HIDE DEF ff
<1>14. /\ r \in Indexes
       /\ r.symbols = kept.symbols /\ r.ns_symbols = kept.ns_symbols /\ r.files = kept.files
       /\ r.ns_files = kept.ns_files /\ r.occurrences = kept.occurrences /\ r.namespaces = kept.namespaces
       /\ r.file_to_ns = ff /\ r.keyword_count = kept.keyword_count
  BY <1>1, <1>11, <1>13 DEF Indexes
<1>15. \A n \in Nss : r.ns_symbols[n] = KeepIf(StaysIn(ix, n), ix.ns_symbols[n])
  BY <1>8, <1>11, <1>14, <1>3
<1>16. \A n \in Nss : StaysIn(ix, n) /\ ix.namespaces[n].primary # None
                       /\ (\E f \in Files : ix.files[f] # None /\ ix.files[f].ns = n)
                       => r.namespaces[n].primary # None
  BY <1>8, <1>11, <1>14, <1>4 DEF KeepIf
<1>17. \A n \in Nss : \A m \in In(r.namespaces[n]) : ix.occurrences[m.file] # None
  BY <1>8, <1>9, <1>11, <1>14 DEF OwnSlots
<1>18. \A f \in Paths : r.file_to_ns[f] = IF ix.file_to_ns[f] \in Nss /\ r.namespaces[ix.file_to_ns[f]].primary # None
                                          THEN ix.file_to_ns[f] ELSE None
  BY <1>8, <1>11, <1>14, <1>12
<1>19. \A q \in Fqns : r.symbols[q] = Kept(ix)[q]
  BY <1>8, <1>11, <1>14 DEF syms
<1>20. \A n \in Nss : k1.namespaces[n] = [primary |-> KeepIf(StaysIn(ix, n), ix.namespaces[n].primary),
                                          shadow  |-> KeepIf(OwnMeta(ix, ix.namespaces[n].shadow), ix.namespaces[n].shadow)]
  <2> TAKE n \in Nss
  <2>1. nn[n] \in Slots(Metas)
    BY <1>7
  <2>2. /\ nn[n].primary = KeepIf(StaysIn(ix, n), ix.namespaces[n].primary)
        /\ nn[n].shadow = KeepIf(OwnMeta(ix, ix.namespaces[n].shadow), ix.namespaces[n].shadow)
    BY <1>4
  <2> PICK a, b : /\ a = KeepIf(StaysIn(ix, n), ix.namespaces[n].primary)
                  /\ b = KeepIf(OwnMeta(ix, ix.namespaces[n].shadow), ix.namespaces[n].shadow)
    OBVIOUS
  <2> QED BY <1>8, <2>1, <2>2 DEF Slots
<1>21. \A n \in Nss : Refilled(ix, k1.namespaces[n], r.namespaces[n], n)
  <2> TAKE n \in Nss
  <2>1. \A m : OwnMeta(k1, m) <=> OwnMeta(ix, m)
    BY <1>8 DEF OwnMeta, IsProjectPath
  <2>2. Refilled(k1, k1.namespaces[n], r.namespaces[n], n)
    BY <1>11, <1>14
  <2> QED BY <1>8, <2>1, <2>2 DEF Refilled
<1> QED BY <1>8, <1>11, <1>14, <1>15, <1>16, <1>17, <1>18, <1>19, <1>20, <1>21 DEF Cleared

\* clear_libs keeps the tables sound and every definition held; of the symbols it
\* takes those of libraries, and it leaves no metadata of one. A namespace that
\* has a project definition stays.
LEMMA ClearLibsSound ==
  ASSUME NEW ix, NEW S, Sound(ix, S), NEW r, r = ClearLibs(ix)
  PROVE  /\ Sound(r, S)
         /\ \A q \in Fqns : Definers(r, q) = Definers(ix, q) /\ (Held(ix, q) => Held(r, q))
         /\ \A q \in Fqns : In(r.symbols[q]) = {s \in In(ix.symbols[q]) : s.project}
         /\ \A n \in Nss : \A m \in In(r.namespaces[n]) : r.occurrences[m.file] # None
         /\ \A q \in Fqns : \A s \in In(ix.symbols[q]) : s.project => StaysIn(ix, q[1])
<1>1. ix \in Indexes /\ EdnsBare(ix) /\ Grouped(ix) /\ OwnNames(ix) /\ SlotsShaped(ix)
      /\ NamesListed(ix) /\ NsKnown(ix) /\ OwnersKnown(ix, S)
  BY DEF Sound
<1>2. r \in Indexes /\ Cleared(ix, r)
  BY <1>1, ClearLibsIs
<1>3. r.files = ix.files /\ r.ns_files = ix.ns_files /\ r.occurrences = ix.occurrences
  BY <1>2 DEF Cleared
<1>4. EdnsBare(r) /\ Grouped(r) /\ OwnNames(r)
  BY <1>1, <1>3 DEF EdnsBare, Grouped, OwnNames
<1>5. \A q \in Fqns : /\ Shaped(r.symbols[q])
                      /\ In(r.symbols[q]) = {s \in In(ix.symbols[q]) : s.project}
                      /\ r.symbols[q].primary # None => ix.symbols[q].primary # None
                      /\ In(r.symbols[q]) # {} => Kept(ix)[q].primary # None
                      /\ q[1] \in Nss
  <2> TAKE q \in Fqns
  <2> PICK slot \in Slots(Symbols) : slot = ix.symbols[q] /\ Shaped(slot)
    BY <1>1, IndexFields DEF SlotsShaped
  <2>1. r.symbols[q] = Kept(ix)[q]
    BY <1>2 DEF Cleared
  <2>2. r.symbols[q] = [primary |-> KeepIf(OwnSymbol(slot.primary), slot.primary),
                        shadow  |-> KeepIf(OwnSymbol(slot.shadow), slot.shadow)]
    BY <2>1 DEF Kept
  <2>3. /\ r.symbols[q] \in Slots(Symbols) /\ Shaped(r.symbols[q])
        /\ In(r.symbols[q]) = {s \in In(slot) : s.project}
        /\ r.symbols[q].primary # None => slot.primary # None
    BY <2>2, KeptIs
  <2> QED BY <2>1, <2>3 DEF Shaped, In, Fqns
<1>6. \A q \in Fqns : Kept(ix)[q].primary # None => StaysIn(ix, q[1])
  <2> SUFFICES ASSUME NEW q \in Fqns, Kept(ix)[q].primary # None PROVE StaysIn(ix, q[1])
    OBVIOUS
  <2>1. r.symbols[q] = Kept(ix)[q]
    BY <1>2 DEF Cleared
  <2>2. ix.ns_symbols[q[1]] # None /\ q \in ix.ns_symbols[q[1]]
    BY <1>1, <1>5, <2>1 DEF NamesListed
  <2> QED BY <2>2 DEF StaysIn
<1>7. SlotsShaped(r)
  BY <1>5 DEF SlotsShaped
<1>8. NamesListed(r)
  <2> SUFFICES ASSUME NEW q \in Fqns, r.symbols[q].primary # None
               PROVE  r.ns_symbols[q[1]] # None /\ q \in r.ns_symbols[q[1]]
    BY DEF NamesListed
  <2>1. r.symbols[q] = Kept(ix)[q]
    BY <1>2 DEF Cleared
  <2>2. ix.ns_symbols[q[1]] # None /\ q \in ix.ns_symbols[q[1]]
    BY <1>1, <1>5 DEF NamesListed
  <2>3. r.ns_symbols[q[1]] = ix.ns_symbols[q[1]]
    BY <1>2, <1>5, <1>6, <2>1 DEF Cleared, KeepIf
  <2> QED BY <2>2, <2>3
<1>9. NsKnown(r)
  <2> SUFFICES ASSUME NEW h \in Files, r.files[h] # None, r.file_to_ns[h] = r.files[h].ns
               PROVE  r.namespaces[r.files[h].ns].primary # None
    BY DEF NsKnown
  <2>1. h \in Paths /\ r.files[h].ns \in Nss /\ None \notin Nss
    BY <1>2, IndexFields, IndexAssumption DEF Records, Paths, Sources
  <2> QED BY <1>2, <2>1 DEF Cleared
<1>10. \A q \in Fqns : Definers(r, q) = Definers(ix, q)
  BY <1>3 DEF Definers
<1>11. OwnersKnown(r, S)
  <2> SUFFICES ASSUME NEW q \in Fqns, q[1] \notin S, NEW x \in In(r.symbols[q]), x.project
               PROVE  x.file \in Definers(r, q) /\ r.file_to_ns[x.file] = q[1]
    BY DEF OwnersKnown
  <2>1. x.file \in Definers(ix, q) /\ ix.file_to_ns[x.file] = q[1]
    BY <1>1, <1>5 DEF OwnersKnown
  <2>2. /\ x.file \in Files /\ x.file \in Paths
        /\ ix.files[x.file] # None /\ q \in ix.files[x.file].fqns
    BY <2>1 DEF Definers, Paths, Sources
  <2>3. ix.files[x.file].ns = q[1]
    BY <1>1, <2>2 DEF OwnNames
  <2>4. ix.namespaces[q[1]].primary # None
    BY <1>1, <2>1, <2>2, <2>3 DEF NsKnown
  <2>5. StaysIn(ix, q[1]) /\ q[1] \in Nss
    BY <1>5, <1>6
  <2>6. r.namespaces[q[1]].primary # None
    BY <1>2, <2>2, <2>3, <2>4, <2>5 DEF Cleared
  <2> QED BY <1>2, <1>10, <2>1, <2>2, <2>5, <2>6 DEF Cleared
<1>12. \A n \in Nss : \A m \in In(r.namespaces[n]) : r.occurrences[m.file] # None
  BY <1>2, <1>3 DEF Cleared
<1>13. \A q \in Fqns : Held(ix, q) => Held(r, q)
  BY <1>5, <1>10 DEF Held
<1>14. \A q \in Fqns : \A s \in In(ix.symbols[q]) : s.project => StaysIn(ix, q[1])
  BY <1>5, <1>6
<1> QED BY <1>2, <1>4, <1>5, <1>7, <1>8, <1>9, <1>10, <1>11, <1>12, <1>13, <1>14 DEF Sound

\* clear_libs in a namespace that stays: project metadata in the primary slot is
\* left there, and an indexed file of the namespace takes over from a library.
LEMMA StayingSurvives ==
  ASSUME NEW ix, NEW S, Sound(ix, S), NEW r, r = ClearLibs(ix),
         NEW n \in Nss, StaysIn(ix, n)
  PROVE  /\ OwnMeta(ix, ix.namespaces[n].primary) => r.namespaces[n].primary = ix.namespaces[n].primary
         /\ /\ ix.namespaces[n].primary # None
            /\ \E f \in Files : ix.files[f] # None /\ ix.files[f].ns = n
            => OwnMeta(r, r.namespaces[n].primary)
<1>1. r \in Indexes /\ Cleared(ix, r)
  BY ClearLibsIs DEF Sound
<1>2. ASSUME OwnMeta(ix, ix.namespaces[n].primary)
      PROVE  r.namespaces[n].primary = ix.namespaces[n].primary
  <2> PICK k : k = [primary |-> ix.namespaces[n].primary,
                    shadow  |-> KeepIf(OwnMeta(ix, ix.namespaces[n].shadow), ix.namespaces[n].shadow)]
    OBVIOUS
  <2>1. k.primary = ix.namespaces[n].primary /\ OwnMeta(ix, k.primary)
    BY <1>2
  <2>2. Refilled(ix, k, r.namespaces[n], n)
    BY <1>1 DEF Cleared, KeepIf
  <2> QED BY <2>1, <2>2 DEF Refilled
<1>3. ASSUME ix.namespaces[n].primary # None,
             \E f \in Files : ix.files[f] # None /\ ix.files[f].ns = n
      PROVE  OwnMeta(r, r.namespaces[n].primary)
  <2>1. r.namespaces[n].primary # None
    BY <1>1, <1>3 DEF Cleared
  <2>2. \A m \in In(r.namespaces[n]) : r.occurrences[m.file] # None
    BY ClearLibsSound
  <2> QED BY <2>1, <2>2 DEF In, OwnMeta, IsProjectPath
<1> QED BY <1>2, <1>3

-----------------------------------------------------------------------------
(* Sums over finite sets, for the counter of keyword uses. *)

\* The element a sum over a set takes next.
Picked(s) == CHOOSE x \in s : TRUE

\* r[s] is the sum of u over the subset s of P: the function MapThenSumSet
\* chooses.
IsSum(r, u, P) ==
  r = [s \in SUBSET P |-> IF s = {} THEN 0 ELSE u[Picked(s)] + r[s \ {Picked(s)}]]

\* The subsets of at most k elements.
Small(P, k) == {s \in SUBSET P : Cardinality(s) <= k}

\* r sums u over the subsets of at most k elements.
SumsTo(r, u, P, k) ==
  \A s \in Small(P, k) : r[s] = IF s = {} THEN 0 ELSE u[Picked(s)] + r[s \ {Picked(s)}]

\* Taking an element out of a set leaves one element less.
LEMMA PickedIs ==
  ASSUME NEW P, IsFiniteSet(P), NEW s \in SUBSET P, s # {}
  PROVE  /\ Picked(s) \in s
         /\ s \ {Picked(s)} \in SUBSET P
         /\ Cardinality(s) \in Nat /\ Cardinality(s) # 0
         /\ Cardinality(s \ {Picked(s)}) = Cardinality(s) - 1
<1>1. Picked(s) \in s
  BY DEF Picked
<1>2. IsFiniteSet(s)
  BY FS_Subset
<1> QED BY <1>1, <1>2, FS_CardinalityType, FS_EmptySet, FS_RemoveElement

\* Sums over k elements extend to sums over one more.
LEMMA SumsGrow ==
  ASSUME NEW P, IsFiniteSet(P), NEW u, NEW k \in Nat, NEW r, SumsTo(r, u, P, k)
  PROVE  \E t : SumsTo(t, u, P, k + 1)
<1> DEFINE value(s) == IF s = {} THEN 0 ELSE u[Picked(s)] + r[s \ {Picked(s)}]
<1> PICK t : t = [s \in SUBSET P |-> value(s)]
  OBVIOUS
<1>1. \A s \in SUBSET P : t[s] = value(s)
  OBVIOUS
<1>2. \A s \in Small(P, k) : t[s] = r[s]
  BY <1>1 DEF SumsTo, Small
<1>3. ASSUME NEW s \in Small(P, k + 1), s # {}
      PROVE  s \ {Picked(s)} \in Small(P, k)
  <2>1. s \in SUBSET P /\ Cardinality(s) <= k + 1
    BY DEF Small
  <2> QED BY <1>3, <2>1, PickedIs DEF Small
<1>4. \A s \in Small(P, k + 1) : t[s] = IF s = {} THEN 0 ELSE u[Picked(s)] + t[s \ {Picked(s)}]
  <2> TAKE s \in Small(P, k + 1)
  <2>1. s \in SUBSET P
    BY DEF Small
  <2>2. CASE s = {}
    BY <1>1, <2>1, <2>2
  <2>3. CASE s # {}
    <3>1. t[s \ {Picked(s)}] = r[s \ {Picked(s)}]
      BY <1>2, <1>3, <2>3
    <3>2. t[s] = u[Picked(s)] + r[s \ {Picked(s)}]
      BY <1>1, <2>1, <2>3
    <3> QED BY <2>3, <3>1, <3>2
  <2> QED BY <2>2, <2>3
<1>5. SumsTo(t, u, P, k + 1)
  BY <1>4, Zenon DEF SumsTo
<1> QED BY <1>5

\* There is such a function for every finite set.
LEMMA SumExists ==
  ASSUME NEW P, IsFiniteSet(P), NEW u
  PROVE  \E r : IsSum(r, u, P)
<1> DEFINE T == {k \in Nat : ~\E r : SumsTo(r, u, P, k)}
<1>1. T = {}
  <2> SUFFICES ASSUME T # {} PROVE FALSE
    OBVIOUS
  <2>1. PICK k \in T : \A j \in T : ~(j < k)
    <3> HIDE DEF T
    <3> QED BY LeastNat DEF T
  <2>2. CASE k = 0
    <3>1. \A s \in Small(P, 0) : s = {}
      BY FS_Subset, FS_CardinalityType, FS_EmptySet DEF Small
    <3>2. SumsTo([s \in SUBSET P |-> 0], u, P, 0)
      BY <3>1 DEF SumsTo
    <3> QED BY <2>2, <3>2
  <2>3. CASE k # 0
    <3>1. k - 1 \in Nat /\ k - 1 \notin T
      BY <2>1, <2>3
    <3>2. PICK r : SumsTo(r, u, P, k - 1)
      BY <3>1
    <3>3. \E t : SumsTo(t, u, P, (k - 1) + 1)
      BY <3>1, <3>2, SumsGrow
    <3> QED BY <3>3
  <2> QED BY <2>2, <2>3
<1>2. Cardinality(P) \in Nat
  BY FS_CardinalityType
<1>3. PICK r : SumsTo(r, u, P, Cardinality(P))
  BY <1>1, <1>2
<1>4. \A s \in SUBSET P : s \in Small(P, Cardinality(P))
  BY FS_Subset DEF Small
<1> PICK t : t = [s \in SUBSET P |-> r[s]]
  OBVIOUS
<1>5. \A s \in SUBSET P : t[s] = IF s = {} THEN 0 ELSE u[Picked(s)] + t[s \ {Picked(s)}]
  BY <1>3, <1>4 DEF SumsTo
<1> QED BY <1>5 DEF IsSum

\* A sum of numbers is a number.
LEMMA SumIsNat ==
  ASSUME NEW P, IsFiniteSet(P), NEW u \in [P -> Nat], NEW r, IsSum(r, u, P)
  PROVE  \A s \in SUBSET P : r[s] \in Nat
<1>1. \A s \in SUBSET P : r[s] = IF s = {} THEN 0 ELSE u[Picked(s)] + r[s \ {Picked(s)}]
  BY DEF IsSum
<1> DEFINE T == {k \in Nat : \E s \in SUBSET P : Cardinality(s) = k /\ r[s] \notin Nat}
<1>2. SUFFICES T = {}
  BY FS_Subset, FS_CardinalityType
<1>3. SUFFICES ASSUME T # {} PROVE FALSE
  OBVIOUS
<1>4. PICK k \in T : \A j \in T : ~(j < k)
  <2> HIDE DEF T
  <2> QED BY <1>3, LeastNat DEF T
<1>5. PICK s \in SUBSET P : Cardinality(s) = k /\ r[s] \notin Nat
  BY <1>4
<1>6. s # {}
  <2> SUFFICES ASSUME s = {} PROVE FALSE
    OBVIOUS
  <2>1. r[s] = 0
    BY <1>1
  <2> QED BY <1>5, <2>1
<1>7. /\ Picked(s) \in s /\ s \ {Picked(s)} \in SUBSET P
      /\ k \in Nat /\ k # 0 /\ Cardinality(s \ {Picked(s)}) = k - 1
  BY <1>5, <1>6, PickedIs
<1>8. r[s \ {Picked(s)}] \in Nat
  BY <1>4, <1>7
<1>9. u[Picked(s)] \in Nat
  BY <1>7
<1> QED BY <1>1, <1>5, <1>6, <1>8, <1>9

\* A sum of zeros is zero.
LEMMA SumOfZeros ==
  ASSUME NEW P, IsFiniteSet(P), NEW u, \A x \in P : u[x] = 0, NEW r, IsSum(r, u, P)
  PROVE  r[P] = 0
<1>1. \A s \in SUBSET P : r[s] = IF s = {} THEN 0 ELSE u[Picked(s)] + r[s \ {Picked(s)}]
  BY DEF IsSum
<1> DEFINE T == {k \in Nat : \E s \in SUBSET P : Cardinality(s) = k /\ r[s] # 0}
<1>2. SUFFICES T = {}
  BY FS_CardinalityType
<1>3. SUFFICES ASSUME T # {} PROVE FALSE
  OBVIOUS
<1>4. PICK k \in T : \A j \in T : ~(j < k)
  <2> HIDE DEF T
  <2> QED BY <1>3, LeastNat DEF T
<1>5. PICK s \in SUBSET P : Cardinality(s) = k /\ r[s] # 0
  BY <1>4
<1>6. s # {}
  <2> SUFFICES ASSUME s = {} PROVE FALSE
    OBVIOUS
  <2>1. r[s] = 0
    BY <1>1
  <2> QED BY <1>5, <2>1
<1>7. /\ Picked(s) \in P /\ s \ {Picked(s)} \in SUBSET P
      /\ k \in Nat /\ k # 0 /\ Cardinality(s \ {Picked(s)}) = k - 1
  BY <1>5, <1>6, PickedIs
<1>8. r[s \ {Picked(s)}] = 0
  BY <1>4, <1>7
<1>9. u[Picked(s)] = 0
  BY <1>7
<1> QED BY <1>1, <1>5, <1>6, <1>8, <1>9

\* When one summand changes, the sum changes by as much.
LEMMA SumChanges ==
  ASSUME NEW P, IsFiniteSet(P), NEW u \in [P -> Nat], NEW v \in [P -> Nat], NEW p \in P,
         \A x \in P : x # p => v[x] = u[x],
         NEW r, IsSum(r, u, P), NEW t, IsSum(t, v, P)
  PROVE  t[P] = r[P] + v[p] - u[p]
<1>1. \A s \in SUBSET P : /\ r[s] = IF s = {} THEN 0 ELSE u[Picked(s)] + r[s \ {Picked(s)}]
                          /\ t[s] = IF s = {} THEN 0 ELSE v[Picked(s)] + t[s \ {Picked(s)}]
  BY DEF IsSum
<1>2. \A s \in SUBSET P : r[s] \in Nat /\ t[s] \in Nat
  BY SumIsNat
<1> DEFINE gap(s) == IF p \in s THEN v[p] - u[p] ELSE 0
           T == {k \in Nat : \E s \in SUBSET P : Cardinality(s) = k /\ t[s] # r[s] + gap(s)}
<1>3. T = {}
  <2> SUFFICES ASSUME T # {} PROVE FALSE
    OBVIOUS
  <2>1. PICK k \in T : \A j \in T : ~(j < k)
    <3> HIDE DEF T
    <3> QED BY LeastNat DEF T
  <2>2. PICK s \in SUBSET P : Cardinality(s) = k /\ t[s] # r[s] + gap(s)
    BY <2>1
  <2>3. s # {}
    <3> SUFFICES ASSUME s = {} PROVE FALSE
      OBVIOUS
    <3>1. r[s] = 0 /\ t[s] = 0 /\ gap(s) = 0
      BY <1>1
    <3> HIDE DEF gap, T
    <3> QED BY <2>2, <3>1
  <2> PICK x, rest : x = Picked(s) /\ rest = s \ {Picked(s)}
    OBVIOUS
  <2>4. /\ x \in s /\ rest = s \ {x} /\ rest \in SUBSET P
        /\ k \in Nat /\ k # 0 /\ Cardinality(rest) = k - 1
    BY <2>2, <2>3, PickedIs
  <2>5. t[rest] = r[rest] + gap(rest)
    BY <2>1, <2>4
  <2>6. /\ r[s] = u[x] + r[rest] /\ t[s] = v[x] + t[rest]
        /\ u[x] \in Nat /\ v[x] \in Nat /\ r[rest] \in Nat /\ t[rest] \in Nat
        /\ u[p] \in Nat /\ v[p] \in Nat
    BY <1>1, <1>2, <2>3, <2>4
  <2>7. CASE x = p
    <3>1. gap(rest) = 0 /\ gap(s) = v[p] - u[p]
      BY <2>4, <2>7
    <3> HIDE DEF gap, T
    <3> QED BY <2>2, <2>5, <2>6, <2>7, <3>1
  <2>8. CASE x # p
    <3>1. gap(rest) = gap(s) /\ gap(s) \in Int
      BY <2>4, <2>6, <2>8
    <3>2. v[x] = u[x]
      BY <2>4, <2>8
    <3> HIDE DEF gap, T
    <3> QED BY <2>2, <2>5, <2>6, <3>1, <3>2
  <2> QED BY <2>7, <2>8
<1>4. Cardinality(P) \in Nat
  BY FS_CardinalityType
<1>5. t[P] = r[P] + gap(P)
  BY <1>3, <1>4
<1> QED BY <1>2, <1>5

\* No summand exceeds the sum.
LEMMA SumCovers ==
  ASSUME NEW P, IsFiniteSet(P), NEW u \in [P -> Nat], NEW p \in P, NEW r, IsSum(r, u, P)
  PROVE  r[P] \in Nat /\ u[p] <= r[P]
<1>1. PICK v \in [P -> Nat] : v[p] = 0 /\ \A x \in P : x # p => v[x] = u[x]
  <2> WITNESS [u EXCEPT ![p] = 0] \in [P -> Nat]
  <2> QED OBVIOUS
<1>2. PICK t : IsSum(t, v, P)
  BY SumExists
<1>3. t[P] = r[P] + v[p] - u[p]
  <2>1. \A x \in P : x # p => v[x] = u[x]
    BY <1>1
  <2> QED BY <1>2, <2>1, SumChanges
<1>4. t[P] \in Nat /\ r[P] \in Nat /\ u[p] \in Nat
  BY <1>1, <1>2, SumIsNat
<1> QED BY <1>1, <1>3, <1>4

-----------------------------------------------------------------------------
(* The counter of keyword uses. *)

\* The uses of the keyword, file by file.
UsesOf(ix) == [f \in Paths |-> Uses(ix, f)]

\* The counter is the number of uses in the indexed files.
Counted(ix) == \A r : IsSum(r, UsesOf(ix), Paths) => ix.keyword_count = r[Paths]

\* That number, as CountsAgree has it.
Total(ix) == MapThenSumSet(LAMBDA f : Uses(ix, f), Paths)

\* A counter that is the sum by every function that sums is that number.
LEMMA TotalIs ==
  ASSUME NEW ix, Counted(ix)
  PROVE  ix.keyword_count = Total(ix)
<1> DEFINE OfUses(r) ==
             r = [s \in SUBSET Paths |-> IF s = {} THEN 0
                    ELSE LET x == CHOOSE y \in s : TRUE IN Uses(ix, x) + r[s \ {x}]]
           total == CHOOSE r : OfUses(r)
<1>1. Total(ix) = total[Paths]
  BY DEF Total, MapThenSumSet, MapThenFoldSet
<1>2. IsFiniteSet(Paths)
  BY IndexAssumption
<1>3. \A r : IsSum(r, UsesOf(ix), Paths) <=> OfUses(r)
  <2> TAKE r
  <2>1. \A s \in SUBSET Paths : s # {} => UsesOf(ix)[Picked(s)] = Uses(ix, Picked(s))
    <3> TAKE s \in SUBSET Paths
    <3> HAVE s # {}
    <3>1. Picked(s) \in Paths
      BY <1>2, PickedIs
    <3> QED BY <3>1 DEF UsesOf
  <2> DEFINE F == [s \in SUBSET Paths |-> IF s = {} THEN 0 ELSE UsesOf(ix)[Picked(s)] + r[s \ {Picked(s)}]]
             G == [s \in SUBSET Paths |-> IF s = {} THEN 0 ELSE Uses(ix, Picked(s)) + r[s \ {Picked(s)}]]
  <2>2. F = G
    <3>1. \A s \in SUBSET Paths : F[s] = G[s]
      BY <2>1
    <3> QED BY <3>1
  <2>3. IsSum(r, UsesOf(ix), Paths) <=> r = F
    BY DEF IsSum
  <2>4. OfUses(r) <=> r = G
    BY DEF Picked
  <2> HIDE DEF F, G, OfUses
  <2> QED BY <2>2, <2>3, <2>4
<1>4. \E r : IsSum(r, UsesOf(ix), Paths)
  BY <1>2, SumExists
<1> HIDE DEF OfUses
<1>5. OfUses(total)
  BY <1>3, <1>4
<1> HIDE DEF total
<1> QED BY <1>1, <1>3, <1>5 DEF Counted

\* replace_occurrences and remove_file move the counter by as much as the uses
\* of the file change; the subtraction does not saturate.
LEMMA CountStep ==
  ASSUME NEW ix \in Indexes, Counted(ix), NEW jx \in Indexes, NEW p \in Paths,
         NEW o \in (0..MaxUses) \cup {None},
         jx.occurrences = [ix.occurrences EXCEPT ![p] = o],
         jx.keyword_count = SubCount(ix.keyword_count + (IF o = None THEN 0 ELSE o), Uses(ix, p))
  PROVE  Counted(jx)
<1> PICK u, v : u = UsesOf(ix) /\ v = UsesOf(jx)
  OBVIOUS
<1> PICK n : n = IF o = None THEN 0 ELSE o
  OBVIOUS
<1>1. \A f \in Paths : jx.occurrences[f] = IF f = p THEN o ELSE ix.occurrences[f]
  BY IndexFields
<1>2. \A f \in Paths : /\ u[f] = Uses(ix, f)
                       /\ v[f] = IF f = p THEN n ELSE Uses(ix, f)
  BY <1>1 DEF UsesOf, Uses
<1>3. n \in Nat /\ \A f \in Paths : Uses(ix, f) \in Nat
  BY IndexFields, IndexAssumption DEF Uses
<1>4. u \in [Paths -> Nat] /\ v \in [Paths -> Nat]
  BY <1>2, <1>3 DEF UsesOf
<1>5. IsFiniteSet(Paths)
  BY IndexAssumption
<1>6. PICK r : IsSum(r, u, Paths)
  BY <1>5, SumExists
<1>7. ix.keyword_count = r[Paths] /\ r[Paths] \in Nat /\ u[p] <= r[Paths]
  BY <1>4, <1>5, <1>6, SumCovers DEF Counted
<1>8. jx.keyword_count = r[Paths] + n - u[p]
  <2>1. jx.keyword_count = SubCount(r[Paths] + n, u[p])
    BY <1>2, <1>7
  <2>2. u[p] \in Nat
    BY <1>4
  <2> QED BY <1>3, <1>7, <2>1, <2>2 DEF SubCount
<1>9. ASSUME NEW t, IsSum(t, v, Paths)
      PROVE  jx.keyword_count = t[Paths]
  <2>1. \A x \in Paths : x # p => v[x] = u[x]
    BY <1>2
  <2>2. t[Paths] = r[Paths] + v[p] - u[p]
    BY <1>4, <1>5, <1>6, <1>9, <2>1, SumChanges
  <2> QED BY <1>2, <1>8, <2>2
<1> QED BY <1>9 DEF Counted

\* What leaves uses and counter alone keeps them in step.
LEMMA SameCount ==
  ASSUME NEW ix, Counted(ix), NEW jx,
         jx.occurrences = ix.occurrences, jx.keyword_count = ix.keyword_count
  PROVE  Counted(jx)
<1>1. UsesOf(jx) = UsesOf(ix)
  BY DEF UsesOf, Uses
<1> QED BY <1>1 DEF Counted

\* remove_file keeps the counter.
LEMMA RemoveFileCounted ==
  ASSUME NEW ix \in Indexes, Counted(ix), NEW f \in Files \cup EdnFiles,
         Grouped(ix), EdnsBare(ix)
  PROVE  Counted(RemoveFile(ix, f))
<1> PICK r : r = RemoveFile(ix, f)
  OBVIOUS
<1>1. r \in Indexes /\ r.occurrences = [ix.occurrences EXCEPT ![f] = None]
  BY RemoveFileIs
<1> DEFINE g == GoneFile(ix, f)
<1>2. r.keyword_count = g.keyword_count
  <2>1. \A jx, h, n, fqns : RemoveFromNs(jx, h, n, fqns).keyword_count = jx.keyword_count
    BY DEF RemoveFromNs, RefillNamespace
  <2> DEFINE n == ix.file_to_ns[f]
             fqns == IF ix.files[f] # None THEN ix.files[f].fqns
                     ELSE IF ix.ns_symbols[n] # None THEN ix.ns_symbols[n] ELSE {}
  <2>2. r = IF n \in {None, EdnNs} THEN g ELSE RemoveFromNs(g, f, n, fqns)
    BY DEF RemoveFile, GoneFile
  <2> HIDE DEF g, n, fqns
  <2> QED BY <2>1, <2>2
<1>3. g.keyword_count = SubCount(ix.keyword_count, Uses(ix, f))
  BY IndexFields DEF GoneFile, Indexes
<1>4. f \in Paths /\ ix.keyword_count + 0 = ix.keyword_count
  BY IndexFields DEF Paths, Sources
<1> HIDE DEF g
<1> QED BY <1>1, <1>2, <1>3, <1>4, CountStep

\* insert_file keeps the counter.
LEMMA InsertFileCounted ==
  ASSUME NEW ix \in Indexes, Counted(ix), NEW f \in Files, ix.files[f] = None, NEW c, AContent(c),
         Grouped(ix), EdnsBare(ix)
  PROVE  Counted(InsertFile(ix, f, c))
<1> PICK r : r = InsertFile(ix, f, c)
  OBVIOUS
<1>1. r \in Indexes /\ r.occurrences = [ix.occurrences EXCEPT ![f] = c.uses]
  <2>1. r \in Indexes /\ Inserted(ix, r, f, c)
    BY InsertFileIs
  <2> QED BY <2>1 DEF Inserted
<1>2. r.keyword_count = ReplaceOccurrences(ix, f, c.uses).keyword_count
  BY DEF InsertFile, InsertMeta, ExtendNsSymbols
<1>3. ReplaceOccurrences(ix, f, c.uses).keyword_count = SubCount(ix.keyword_count + c.uses, Uses(ix, f))
  BY DEF ReplaceOccurrences, Indexes
<1>4. f \in Paths /\ c.uses \in 0..MaxUses /\ c.uses # None
  BY IndexAssumption DEF Paths, Sources, AContent
<1> QED BY <1>1, <1>2, <1>3, <1>4, CountStep

\* insert_edn_file keeps the counter.
LEMMA InsertEdnCounted ==
  ASSUME NEW ix \in Indexes, Counted(ix), NEW f \in EdnFiles, NEW uses \in 0..MaxUses,
         NEW r \in Indexes, r = InsertEdnFile(ix, f, uses)
  PROVE  Counted(r)
<1>1. r.keyword_count = SubCount(ix.keyword_count + uses, Uses(ix, f))
  BY DEF InsertEdnFile, ReplaceOccurrences, Indexes
<1>2. r.occurrences = [ix.occurrences EXCEPT ![f] = uses]
  BY DEF InsertEdnFile, ReplaceOccurrences, Indexes
<1>3. f \in Paths /\ uses # None
  BY IndexAssumption DEF Paths
<1> QED BY <1>1, <1>2, <1>3, CountStep

\* insert_lib_file keeps the counter.
LEMMA InsertLibCounted ==
  ASSUME NEW ix \in Indexes, Counted(ix), NEW f, NEW c
  PROVE  Counted(InsertLibFile(ix, f, c))
<1> PICK r : r = InsertLibFile(ix, f, c)
  OBVIOUS
<1>1. r.occurrences = ix.occurrences /\ r.keyword_count = ix.keyword_count
  BY DEF InsertLibFile, InsertMeta, ExtendNsSymbols
<1> QED BY <1>1, SameCount

\* clear_libs keeps the counter.
LEMMA ClearLibsCounted ==
  ASSUME NEW ix \in Indexes, Counted(ix), Grouped(ix), OwnNames(ix), SlotsShaped(ix)
  PROVE  Counted(ClearLibs(ix))
<1> PICK r : r = ClearLibs(ix)
  OBVIOUS
<1>1. r.occurrences = ix.occurrences /\ r.keyword_count = ix.keyword_count
  BY ClearLibsIs DEF Cleared
<1> QED BY <1>1, SameCount

-----------------------------------------------------------------------------
(* The metadata slots of the namespaces. *)

\* A shadow of metadata has a primary, ranks after it, and is ClojureScript.
ShapedBy(slot, rank) ==
  slot.shadow # None => /\ slot.primary # None
                        /\ rank[slot.primary] < rank[slot.shadow]
                        /\ IsCljsRank(rank[slot.shadow])

\* rank_insert keeps that shape.
LEMMA InsertShapedBy ==
  ASSUME NEW V, None \notin V, NEW rank \in [V -> 0..6], NEW slot \in Slots(V), NEW v \in V,
         ShapedBy(slot, rank)
  PROVE  ShapedBy(RankInsert(slot, v, rank), rank)
BY DEF RankInsert, ShadowInsert, Slots, ShapedBy, IsCljsRank

\* rank_insert of a project ns form keeps it, and every project ns form that
\* was there, when none of those is of its dialect.
LEMMA OwnEnters ==
  ASSUME NEW V, None \notin V, NEW rank \in [V -> 0..6], NEW slot \in Slots(V), NEW v \in V,
         ShapedBy(slot, rank), rank[v] <= 2,
         \A x \in In(slot) : rank[x] <= 2 => IsCljsRank(rank[x]) # IsCljsRank(rank[v])
  PROVE  /\ v \in In(RankInsert(slot, v, rank))
         /\ \A x \in In(slot) : rank[x] <= 2 => x \in In(RankInsert(slot, v, rank))
BY DEF RankInsert, ShadowInsert, Slots, ShapedBy, IsCljsRank, In

\* rank_insert of anything else displaces no project ns form.
LEMMA OthersLeaveOwn ==
  ASSUME NEW V, None \notin V, NEW rank \in [V -> 0..6], NEW slot \in Slots(V), NEW v \in V,
         ShapedBy(slot, rank), rank[v] > 2
  PROVE  \A x \in In(slot) : rank[x] <= 2 => x \in In(RankInsert(slot, v, rank))
BY DEF RankInsert, ShadowInsert, Slots, ShapedBy, IsCljsRank, In

\* The rank of metadata: what is at most 2 is a project file's ns form.
LEMMA MetaRankIs ==
  ASSUME NEW ix
  PROVE  /\ MetaRanks(ix) \in [Metas -> 0..6]
         /\ \A m \in Metas : /\ MetaRanks(ix)[m] = MetaRank(ix, m)
                             /\ MetaRanks(ix)[m] <= 2 <=> ~m.inNs /\ IsProjectPath(ix, m.file)
                             /\ MetaRanks(ix)[m] <= 2 => (IsCljsRank(MetaRanks(ix)[m]) <=> Cljs(m.file))
BY IndexAssumption DEF MetaRanks, MetaRank, InNsRank, SlotRank, Metas, IsCljsRank, Cljs

\* Metadata of a file in the slot of n: the file is registered under n, and its
\* record, if any, says the same.
MetaOwned(ix, n, slot) ==
  \A m \in In(slot) : m.file \in Files =>
    /\ ix.file_to_ns[m.file] = n
    /\ ix.files[m.file] # None => ix.files[m.file].ns = n /\ ix.files[m.file].inNs = m.inNs

\* The pairs the namespace n may have.
GoodSlots(ix, n) == {slot \in Slots(Metas) : ShapedBy(slot, MetaRanks(ix)) /\ MetaOwned(ix, n, slot)}

\* A source file that is a project path has a record.
ProjectKnown(ix) ==
  \A f \in Sources : ix.occurrences[f] # None => f \in Files /\ ix.files[f] # None

\* A file is registered under the namespace of its record, but for those of S.
Registered(ix, S) ==
  \A f \in Files : ix.files[f] # None /\ ix.files[f].ns \notin S => ix.file_to_ns[f] = ix.files[f].ns

\* The invariant of the metadata slots; S are the namespaces a file has strayed
\* from or clear_libs has forgotten a file of.
MetaSound(ix, S) ==
  /\ ProjectKnown(ix) /\ Registered(ix, S)
  /\ \A n \in Nss : n \notin S => ix.namespaces[n] \in GoodSlots(ix, n)

\* Each project file with an ns form for n has its metadata in a slot of n.
MetaHeld(ix, n) ==
  \A f \in NsFiles(ix, n) : \E m \in In(ix.namespaces[n]) : m.file = f /\ ~m.inNs

\* refill_namespace makes a good pair of a good pair.
LEMMA RefilledIsGood ==
  ASSUME NEW ix \in Indexes, Grouped(ix), NEW S, Registered(ix, S), NEW n \in Nss, n \notin S,
         ix.namespaces[n] \in GoodSlots(ix, n)
  PROVE  RefilledSlot(ix, n) \in GoodSlots(ix, n)
<1>1. ix.ns_files[n] \in Seq(Files)
  BY IndexFields
<1>2. ASSUME NEW slot \in GoodSlots(ix, n), NEW i \in DOMAIN ix.ns_files[n]
      PROVE  RefillWith(ix, slot, ix.ns_files[n][i]) \in GoodSlots(ix, n)
  <2> PICK f : f = ix.ns_files[n][i]
    OBVIOUS
  <2>1. f \in Files /\ ix.files[f] # None /\ ix.files[f].ns = n
    BY <1>1 DEF Grouped, RangeOf
  <2> PICK m : m = [file |-> f, inNs |-> ix.files[f].inNs]
    OBVIOUS
  <2>2. m \in Metas /\ None \notin Metas /\ m.file = f /\ m.inNs = ix.files[f].inNs
    BY <2>1, IndexFields, IndexAssumption DEF Metas, Records, Paths, Sources
  <2>3. slot \in Slots(Metas) /\ ShapedBy(slot, MetaRanks(ix)) /\ MetaOwned(ix, n, slot)
    BY DEF GoodSlots
  <2> PICK new : new = RankInsert(slot, m, MetaRanks(ix))
    OBVIOUS
  <2>4. RefillWith(ix, slot, f) = new
    BY <2>1 DEF RefillWith
  <2>5. new \in Slots(Metas) /\ In(new) \subseteq In(slot) \cup {m}
    BY <2>2, <2>3, RankInsertIsSlot
  <2>6. ShapedBy(new, MetaRanks(ix))
    BY <2>2, <2>3, MetaRankIs, InsertShapedBy
  <2>7. ix.file_to_ns[f] = n
    BY <2>1 DEF Registered
  <2>8. MetaOwned(ix, n, new)
    BY <2>1, <2>2, <2>3, <2>5, <2>7 DEF MetaOwned
  <2> QED BY <2>4, <2>5, <2>6, <2>8 DEF GoodSlots
<1> QED BY <1>1, <1>2, RefillStays

\* A pair keeps its shape while its files stay, or stay out of, the project.
LEMMA SameRanks ==
  ASSUME NEW ix, NEW jx, NEW slot \in Slots(Metas), ShapedBy(slot, MetaRanks(ix)),
         \A m \in In(slot) : IsProjectPath(jx, m.file) <=> IsProjectPath(ix, m.file)
  PROVE  ShapedBy(slot, MetaRanks(jx))
<1>1. \A m \in In(slot) : m \in Metas /\ MetaRanks(jx)[m] = MetaRanks(ix)[m]
  <2>1. \A m \in In(slot) : m \in Metas
    BY DEF In, Slots
  <2>2. \A m \in In(slot) : MetaRank(jx, m) = MetaRank(ix, m)
    BY DEF MetaRank, SlotRank
  <2> QED BY <2>1, <2>2, MetaRankIs
<1> QED BY <1>1 DEF ShapedBy, In

\* remove_slot leaves nothing of the file in a good pair.
LEMMA RemovedFromGood ==
  ASSUME NEW ix, NEW n, NEW slot \in GoodSlots(ix, n), NEW f
  PROVE  /\ RemoveSlot(slot, f) \in Slots(Metas)
         /\ ShapedBy(RemoveSlot(slot, f), MetaRanks(ix))
         /\ \A m \in In(RemoveSlot(slot, f)) : m \in In(slot) /\ m.file # f
         /\ \A m \in In(slot) : m.file # f => m \in In(RemoveSlot(slot, f))
<1>1. slot \in Slots(Metas) /\ ShapedBy(slot, MetaRanks(ix))
  BY DEF GoodSlots
<1>2. /\ RemoveSlot(slot, f) \in Slots(Metas)
      /\ In(RemoveSlot(slot, f)) \subseteq In(slot)
      /\ \A m \in In(slot) : m.file # f => m \in In(RemoveSlot(slot, f))
  BY <1>1, RemoveSlotIsSlot
<1>3. ShapedBy(RemoveSlot(slot, f), MetaRanks(ix))
  BY <1>1 DEF ShapedBy, RemoveSlot
<1>4. ASSUME slot.shadow # None, slot.primary # None, slot.primary.file = slot.shadow.file
      PROVE  FALSE
  <2> PICK p \in Metas, s \in Metas : p = slot.primary /\ s = slot.shadow
    BY <1>1, <1>4 DEF Slots
  <2>1. MetaRank(ix, p) < MetaRank(ix, s) /\ IsCljsRank(MetaRank(ix, s))
    BY <1>1, <1>4, MetaRankIs DEF ShapedBy
  <2>2. s.inNs = FALSE /\ p.inNs = FALSE
    BY <2>1, IndexAssumption DEF MetaRank, InNsRank, IsCljsRank, SlotRank, Metas
  <2> QED BY <1>4, <2>1, <2>2, IndexAssumption DEF MetaRank, SlotRank, Metas
<1>5. \A m \in In(RemoveSlot(slot, f)) : m.file # f
  BY <1>1, <1>4 DEF RemoveSlot, In, ShapedBy
<1> QED BY <1>2, <1>3, <1>5

\* remove_file keeps the metadata sound, every other ns form held, and leaves
\* nothing of the file.
LEMMA RemoveFileMetas ==
  ASSUME NEW ix, NEW R, Sound(ix, R), NEW S, MetaSound(ix, S), NEW f \in Files \cup EdnFiles
  PROVE  /\ MetaSound(RemoveFile(ix, f), S)
         /\ \A n \in Nss : n \notin S /\ MetaHeld(ix, n) => MetaHeld(RemoveFile(ix, f), n)
         /\ \A n \in Nss : n \notin S => \A m \in In(RemoveFile(ix, f).namespaces[n]) : m.file # f
<1> PICK r, k : r = RemoveFile(ix, f) /\ k = ix.file_to_ns[f]
  OBVIOUS
<1>1. ix \in Indexes /\ Grouped(ix) /\ EdnsBare(ix)
  BY DEF Sound
<1>2. /\ r \in Indexes /\ Grouped(r)
      /\ r.files = [ix.files EXCEPT ![f] = None]
      /\ r.occurrences = [ix.occurrences EXCEPT ![f] = None]
      /\ r.file_to_ns = [ix.file_to_ns EXCEPT ![f] = None]
      /\ Removed(ix, r, f, k)
  BY <1>1, RemoveFileIs
<1>3. \A h \in Sources : /\ h \in Paths
                         /\ r.files[h] = IF h = f THEN None ELSE ix.files[h]
                         /\ r.occurrences[h] = IF h = f THEN None ELSE ix.occurrences[h]
                         /\ r.file_to_ns[h] = IF h = f THEN None ELSE ix.file_to_ns[h]
  BY <1>1, <1>2, IndexFields DEF Paths
<1>4. Files \subseteq Sources /\ (f \in Sources => f \in Files) /\ None \notin Nss
  BY IndexAssumption DEF Sources
<1>5. ProjectKnown(r)
  BY <1>3, <1>4 DEF MetaSound, ProjectKnown
<1>6. Registered(r, S)
  BY <1>3, <1>4 DEF MetaSound, Registered
<1>7. ASSUME NEW n \in Nss, NEW slot \in Slots(Metas), ShapedBy(slot, MetaRanks(ix)),
             \A m \in In(slot) : m.file # f, MetaOwned(ix, n, slot)
      PROVE  slot \in GoodSlots(r, n)
  <2>1. \A m \in In(slot) : m.file \in Sources
    BY DEF In, Slots, Metas
  <2>2. ShapedBy(slot, MetaRanks(r))
    BY <1>3, <1>7, <2>1, SameRanks DEF IsProjectPath
  <2>3. MetaOwned(r, n, slot)
    BY <1>3, <1>7, <2>1 DEF MetaOwned
  <2> QED BY <2>2, <2>3 DEF GoodSlots
<1>8. ASSUME NEW n \in Nss, n \notin S
      PROVE  /\ r.namespaces[n] \in GoodSlots(r, n)
             /\ MetaHeld(ix, n) => MetaHeld(r, n)
             /\ \A m \in In(r.namespaces[n]) : m.file # f
  <2> PICK slot : slot = ix.namespaces[n]
    OBVIOUS
  <2>1. slot \in GoodSlots(ix, n)
    BY <1>8 DEF MetaSound
  <2>2. /\ slot \in Slots(Metas) /\ ShapedBy(slot, MetaRanks(ix)) /\ MetaOwned(ix, n, slot)
        /\ \A m \in In(slot) : m.file \in Sources
    BY <2>1 DEF GoodSlots, In, Slots, Metas
  <2>3. \A g \in NsFiles(r, n) : g \in NsFiles(ix, n) /\ g # f
    BY <1>3, <1>4 DEF NsFiles
  <2>4. CASE n # k
    <3>1. r.namespaces[n] = slot
      BY <1>2, <2>4 DEF Removed
    <3>2. \A m \in In(slot) : m.file # f
      BY <1>4, <2>2, <2>4 DEF MetaOwned
    <3>3. slot \in GoodSlots(r, n)
      BY <1>7, <2>2, <3>2
    <3> QED BY <2>3, <3>1, <3>2, <3>3 DEF MetaHeld
  <2>5. CASE n = k
    <3> PICK left : left = RemoveSlot(slot, f)
      OBVIOUS
    <3>1. /\ left \in Slots(Metas) /\ ShapedBy(left, MetaRanks(ix))
          /\ \A m \in In(left) : m \in In(slot) /\ m.file # f
          /\ \A m \in In(slot) : m.file # f => m \in In(left)
      BY <2>1, RemovedFromGood
    <3>2. MetaOwned(ix, n, left)
      BY <2>2, <3>1 DEF MetaOwned
    <3>3. left \in GoodSlots(r, n)
      BY <1>7, <3>1, <3>2
    <3>4. Vacated(ix, r, f, n)
      BY <1>2, <2>5 DEF Removed
    <3>5. CASE left.primary # None
      <4>1. r.namespaces[n] = left
        BY <3>4, <3>5 DEF Vacated
      <4> QED BY <2>3, <3>1, <3>3, <4>1 DEF MetaHeld
    <3>6. CASE left.primary = None
      <4>1. PICK e \in Indexes : /\ e.files = r.files /\ e.ns_files = r.ns_files
                                 /\ e.occurrences = r.occurrences /\ e.file_to_ns = r.file_to_ns
                                 /\ e.namespaces[n] = left
                                 /\ r.namespaces[n] = RefilledSlot(e, n)
        BY <3>4, <3>6 DEF Vacated
      <4>2. Grouped(e) /\ Registered(e, S)
        BY <1>2, <1>6, <4>1 DEF Grouped, Registered
      <4>3. GoodSlots(e, n) = GoodSlots(r, n)
        BY <4>1 DEF GoodSlots, MetaRanks, MetaRank, IsProjectPath, MetaOwned
      <4>4. r.namespaces[n] \in GoodSlots(r, n)
        BY <1>8, <3>3, <4>1, <4>2, <4>3, RefilledIsGood
      <4>5. \A m \in In(r.namespaces[n]) : m.file # f
        <5> SUFFICES ASSUME NEW m \in In(r.namespaces[n]), m.file = f PROVE FALSE
          OBVIOUS
        <5>1. m.file \in Sources /\ MetaOwned(r, n, r.namespaces[n])
          BY <4>4 DEF GoodSlots, In, Slots, Metas
        <5> QED BY <1>3, <1>4, <5>1 DEF MetaOwned
      <4>6. In(left) = {}
        BY <3>1, <3>6 DEF In, ShapedBy
      <4>7. MetaHeld(ix, n) => NsFiles(r, n) = {}
        BY <2>3, <3>1, <4>6 DEF MetaHeld
      <4> QED BY <4>4, <4>5, <4>7 DEF MetaHeld
    <3> QED BY <3>5, <3>6
  <2> QED BY <2>4, <2>5
<1> QED BY <1>5, <1>6, <1>8 DEF MetaSound

\* insert_file keeps the metadata sound, and every ns form held unless two files
\* of one dialect now have one for the namespace.
LEMMA InsertFileMetas ==
  ASSUME NEW ix, NEW R, Sound(ix, R), NEW S, MetaSound(ix, S),
         NEW f \in Files, ix.files[f] = None, NEW c, AContent(c),
         \A n \in Nss : n \notin S => \A m \in In(ix.namespaces[n]) : m.file # f
  PROVE  /\ MetaSound(InsertFile(ix, f, c), S)
         /\ \A n \in Nss : n \notin S /\ MetaHeld(ix, n) /\ Twins(NsFiles(InsertFile(ix, f, c), n))
                             => MetaHeld(InsertFile(ix, f, c), n)
<1> PICK r : r = InsertFile(ix, f, c)
  OBVIOUS
<1>1. ix \in Indexes /\ Grouped(ix) /\ EdnsBare(ix)
  BY DEF Sound
<1>2. r \in Indexes /\ Inserted(ix, r, f, c)
  BY <1>1, InsertFileIs
<1> DEFINE rc == [ns |-> c.ns, inNs |-> c.inNs, fqns |-> FqnsOf(c)]
<1>3. /\ rc # None /\ rc.ns = c.ns /\ rc.inNs = c.inNs /\ c.ns \in Nss /\ c.inNs \in BOOLEAN
      /\ c.uses # None /\ f \in Sources /\ Files \subseteq Sources /\ None \notin Metas
  <2>1. rc \in Records /\ c.uses \in Nat /\ c.ns \in Nss /\ c.inNs \in BOOLEAN
    BY IndexAssumption DEF Records, AContent, FqnsOf, Fqns
  <2> QED BY <2>1, IndexAssumption DEF Sources
<1>4. \A h \in Sources : /\ r.files[h] = IF h = f THEN rc ELSE ix.files[h]
                         /\ r.occurrences[h] = IF h = f THEN c.uses ELSE ix.occurrences[h]
                         /\ r.file_to_ns[h] = IF h = f THEN c.ns ELSE ix.file_to_ns[h]
  BY <1>1, <1>2, IndexFields DEF Paths, Inserted
<1> HIDE DEF rc
<1>5. ProjectKnown(r) /\ Registered(r, S)
  BY <1>3, <1>4 DEF MetaSound, ProjectKnown, Registered
<1>6. ASSUME NEW n \in Nss, n \notin S
      PROVE  ix.namespaces[n] \in GoodSlots(r, n)
  <2> PICK slot : slot = ix.namespaces[n]
    OBVIOUS
  <2>1. slot \in GoodSlots(ix, n)
    BY <1>6 DEF MetaSound
  <2>2. /\ slot \in Slots(Metas) /\ ShapedBy(slot, MetaRanks(ix)) /\ MetaOwned(ix, n, slot)
        /\ \A m \in In(slot) : m.file \in Sources /\ m.file # f
    BY <1>6, <2>1 DEF GoodSlots, In, Slots, Metas
  <2>3. ShapedBy(slot, MetaRanks(r))
    BY <1>4, <2>2, SameRanks DEF IsProjectPath
  <2>4. MetaOwned(r, n, slot)
    BY <1>4, <2>2 DEF MetaOwned
  <2> QED BY <2>2, <2>3, <2>4 DEF GoodSlots
<1>7. \A n \in Nss : NsFiles(r, n) = NsFiles(ix, n) \cup (IF n = c.ns /\ ~c.inNs THEN {f} ELSE {})
  BY <1>3, <1>4 DEF NsFiles
<1>8. ASSUME NEW n \in Nss, n \notin S
      PROVE  /\ r.namespaces[n] \in GoodSlots(r, n)
             /\ MetaHeld(ix, n) /\ Twins(NsFiles(r, n)) => MetaHeld(r, n)
  <2>1. CASE n # c.ns
    <3>1. r.namespaces[n] = ix.namespaces[n]
      BY <1>2, <2>1 DEF Inserted
    <3> QED BY <1>6, <1>7, <1>8, <2>1, <3>1 DEF MetaHeld
  <2>2. CASE n = c.ns
    <3> PICK slot, m, new : /\ slot = ix.namespaces[n]
                            /\ m = [file |-> f, inNs |-> c.inNs]
                            /\ new = RankInsert(slot, m, MetaRanks(r))
      OBVIOUS
    <3>1. m \in Metas /\ m.file = f /\ m.inNs = c.inNs
      BY <1>3 DEF Metas
    <3>2. r.namespaces[n] = new
      BY <1>2, <2>2 DEF Inserted
    <3>3. slot \in Slots(Metas) /\ ShapedBy(slot, MetaRanks(r)) /\ MetaOwned(r, n, slot)
      BY <1>6, <1>8 DEF GoodSlots
    <3>4. new \in Slots(Metas) /\ In(new) \subseteq In(slot) \cup {m}
      BY <1>3, <3>1, <3>3, RankInsertIsSlot
    <3>5. ShapedBy(new, MetaRanks(r))
      BY <1>3, <3>1, <3>3, MetaRankIs, InsertShapedBy
    <3>6. MetaOwned(r, n, new)
      BY <1>3, <1>4, <2>2, <3>1, <3>3, <3>4 DEF MetaOwned
    <3>7. new \in GoodSlots(r, n)
      BY <3>4, <3>5, <3>6 DEF GoodSlots
    <3>8. \A x \in In(slot) : x \in Metas
      BY <3>3 DEF In, Slots
    <3>9. \A x \in In(slot) : MetaRanks(r)[x] <= 2 => x.file \in NsFiles(ix, n)
      <4> SUFFICES ASSUME NEW x \in In(slot), MetaRanks(r)[x] <= 2 PROVE x.file \in NsFiles(ix, n)
        OBVIOUS
      <4>1. x \in Metas /\ ~x.inNs /\ r.occurrences[x.file] # None
        BY <3>8, MetaRankIs DEF IsProjectPath
      <4>2. x.file \in Files /\ r.files[x.file] # None
        BY <1>5, <4>1 DEF ProjectKnown, Metas
      <4>3. r.files[x.file].ns = n /\ r.files[x.file].inNs = x.inNs
        BY <3>3, <4>2 DEF MetaOwned
      <4>4. x.file # f
        BY <1>8
      <4> QED BY <1>3, <1>4, <4>1, <4>2, <4>3, <4>4 DEF NsFiles
    <3>10. \A g \in NsFiles(ix, n) : \A x \in In(slot) : x.file = g /\ ~x.inNs => MetaRanks(r)[x] <= 2
      <4> SUFFICES ASSUME NEW g \in NsFiles(ix, n), NEW x \in In(slot), x.file = g, ~x.inNs
                   PROVE  MetaRanks(r)[x] <= 2
        OBVIOUS
      <4>1. ix.files[g] # None /\ g \in Files /\ g # f
        BY DEF NsFiles
      <4>2. r.occurrences[g] # None
        BY <1>3, <1>4, <4>1 DEF Sound, OwnNames
      <4> QED BY <3>8, <4>2, MetaRankIs DEF IsProjectPath
    <3>11. ASSUME MetaHeld(ix, n), Twins(NsFiles(r, n))
           PROVE  MetaHeld(r, n)
      <4>1. CASE c.inNs
        <5>1. ~(MetaRanks(r)[m] <= 2) /\ MetaRanks(r)[m] \in 0..6
          BY <3>1, <4>1, MetaRankIs
        <5>2. \A x \in In(slot) : MetaRanks(r)[x] <= 2 => x \in In(new)
          BY <1>3, <3>1, <3>3, <5>1, MetaRankIs, OthersLeaveOwn
        <5> QED BY <1>7, <3>2, <3>10, <3>11, <4>1, <5>2 DEF MetaHeld
      <4>2. CASE ~c.inNs
        <5>1. MetaRanks(r)[m] <= 2
          BY <1>3, <1>4, <3>1, <4>2, MetaRankIs DEF IsProjectPath
        <5>2. \A x \in In(slot) : MetaRanks(r)[x] <= 2 =>
                 IsCljsRank(MetaRanks(r)[x]) # IsCljsRank(MetaRanks(r)[m])
          <6> SUFFICES ASSUME NEW x \in In(slot), MetaRanks(r)[x] <= 2
                       PROVE  IsCljsRank(MetaRanks(r)[x]) # IsCljsRank(MetaRanks(r)[m])
            OBVIOUS
          <6>1. x.file \in NsFiles(r, n) /\ f \in NsFiles(r, n) /\ x.file # f
            BY <1>7, <1>8, <2>2, <3>9, <4>2
          <6>2. Cljs(x.file) # Cljs(f)
            BY <3>11, <6>1 DEF Twins
          <6>3. /\ IsCljsRank(MetaRanks(r)[x]) <=> Cljs(x.file)
                /\ IsCljsRank(MetaRanks(r)[m]) <=> Cljs(f)
            BY <3>1, <3>8, <5>1, MetaRankIs
          <6> QED BY <6>2, <6>3 DEF Cljs, IsCljsRank
        <5>3. /\ m \in In(new)
              /\ \A x \in In(slot) : MetaRanks(r)[x] <= 2 => x \in In(new)
          BY <1>3, <3>1, <3>3, <5>1, <5>2, MetaRankIs, OwnEnters
        <5> QED BY <1>7, <2>2, <3>1, <3>2, <3>10, <3>11, <4>2, <5>3 DEF MetaHeld
      <4> QED BY <4>1, <4>2
    <3> QED BY <3>2, <3>7, <3>11
  <2> QED BY <2>1, <2>2
<1> QED BY <1>5, <1>8 DEF MetaSound

\* insert_edn_file keeps the metadata sound and every ns form held.
LEMMA InsertEdnMetas ==
  ASSUME NEW ix, NEW R, Sound(ix, R), NEW S, MetaSound(ix, S), NEW f \in EdnFiles, NEW uses \in 0..MaxUses,
         NEW r, r = InsertEdnFile(ix, f, uses)
  PROVE  /\ MetaSound(r, S)
         /\ \A n \in Nss : MetaHeld(ix, n) => MetaHeld(r, n)
<1>1. ix \in Indexes
  BY DEF Sound
<1>2. /\ r.files = ix.files /\ r.namespaces = ix.namespaces
      /\ r.occurrences = [ix.occurrences EXCEPT ![f] = uses]
      /\ r.file_to_ns = [ix.file_to_ns EXCEPT ![f] = EdnNs]
  BY <1>1 DEF InsertEdnFile, ReplaceOccurrences, Indexes
<1>3. \A h \in Sources : r.occurrences[h] = ix.occurrences[h] /\ r.file_to_ns[h] = ix.file_to_ns[h]
  BY <1>1, <1>2, IndexFields, IndexAssumption DEF Paths
<1>4. ProjectKnown(r) /\ Registered(r, S)
  BY <1>2, <1>3 DEF MetaSound, ProjectKnown, Registered, Sources
<1>5. ASSUME NEW n \in Nss, n \notin S
      PROVE  r.namespaces[n] \in GoodSlots(r, n)
  <2> PICK slot : slot = ix.namespaces[n]
    OBVIOUS
  <2>1. slot \in GoodSlots(ix, n)
    BY <1>5 DEF MetaSound
  <2>2. /\ slot \in Slots(Metas) /\ ShapedBy(slot, MetaRanks(ix)) /\ MetaOwned(ix, n, slot)
        /\ \A m \in In(slot) : m.file \in Sources
    BY <2>1 DEF GoodSlots, In, Slots, Metas
  <2>3. ShapedBy(slot, MetaRanks(r))
    BY <1>3, <2>2, SameRanks DEF IsProjectPath
  <2>4. MetaOwned(r, n, slot)
    BY <1>2, <1>3, <2>2 DEF MetaOwned
  <2> QED BY <1>2, <2>2, <2>3, <2>4 DEF GoodSlots
<1>6. \A n \in Nss : MetaHeld(ix, n) => MetaHeld(r, n)
  BY <1>2 DEF MetaHeld, NsFiles
<1> QED BY <1>4, <1>5, <1>6 DEF MetaSound

\* A file of n is no longer registered under n.
Forgot(ix, n) == \E f \in Files : /\ ix.files[f] # None /\ ix.files[f].ns = n
                                  /\ ix.file_to_ns[f] # n

\* When the ns forms of n are held and there is one, it is a project ns form
\* that has the slot a lookup asks first.
LEMMA HeldIsOwned ==
  ASSUME NEW ix, NEW R, Sound(ix, R), NEW n \in Nss, ix.namespaces[n] \in GoodSlots(ix, n),
         MetaHeld(ix, n), NsFiles(ix, n) # {}
  PROVE  /\ OwnedByProject(ix, n)
         /\ OwnMeta(ix, ix.namespaces[n].primary)
<1> PICK slot : slot = ix.namespaces[n]
  OBVIOUS
<1>1. slot \in Slots(Metas) /\ ShapedBy(slot, MetaRanks(ix))
  BY DEF GoodSlots
<1> PICK f \in NsFiles(ix, n) : TRUE
  OBVIOUS
<1>2. PICK m \in In(slot) : m.file = f /\ ~m.inNs
  BY DEF MetaHeld
<1>3. ix.occurrences[f] # None
  BY DEF NsFiles, Sound, OwnNames
<1>4. m \in Metas /\ None \notin Metas
  BY <1>1, IndexAssumption DEF In, Slots
<1>5. MetaRanks(ix)[m] <= 2
  BY <1>2, <1>3, <1>4, MetaRankIs DEF IsProjectPath
<1>6. slot.primary # None /\ slot.primary \in Metas
  BY <1>1 DEF In, ShapedBy, Slots
<1>7. MetaRanks(ix)[slot.primary] <= 2
  <2>1. \/ m = slot.primary
        \/ m = slot.shadow /\ MetaRanks(ix)[slot.primary] < MetaRanks(ix)[m]
    <3>1. m \in {slot.primary, slot.shadow} /\ m # None
      BY <1>4 DEF In
    <3>2. slot.shadow # None => MetaRanks(ix)[slot.primary] < MetaRanks(ix)[slot.shadow]
      BY <1>1 DEF ShapedBy
    <3> QED BY <3>1, <3>2
  <2>2. MetaRanks(ix)[m] \in 0..6 /\ MetaRanks(ix)[slot.primary] \in 0..6
    BY <1>4, <1>6, MetaRankIs
  <2> QED BY <1>5, <2>1, <2>2
<1>8. ~slot.primary.inNs /\ IsProjectPath(ix, slot.primary.file)
  BY <1>6, <1>7, MetaRankIs
<1> QED BY <1>6, <1>8 DEF OwnedByProject, OwnMeta

\* insert_lib_file keeps the metadata sound but for the namespaces it makes a
\* file stray from, and every ns form held.
LEMMA InsertLibMetas ==
  ASSUME NEW ix, NEW R, Sound(ix, R), NEW S, MetaSound(ix, S),
         NEW f \in LibFiles, NEW c, AContent(c),
         NEW r, r = InsertLibFile(ix, f, c),
         NEW T, S \subseteq T,
         \A n \in Nss : HasStray(r, n) \/ Forgot(r, n) => n \in T
  PROVE  /\ MetaSound(r, T)
         /\ \A n \in Nss : n \notin T /\ MetaHeld(ix, n) => MetaHeld(r, n)
<1>1. ix \in Indexes
  BY DEF Sound
<1>2. CASE r = ix
  BY <1>2 DEF MetaSound, Registered
<1>3. CASE r # ix
  <2>1. ~OwnedByProject(ix, c.ns)
    BY <1>3 DEF InsertLibFile
  <2>2. r \in Indexes /\ InsertedLib(ix, r, f, c)
    BY <1>1, <1>3, InsertLibFileIs
  <2>3. /\ c.ns \in Nss /\ c.inNs \in BOOLEAN /\ f \in Sources /\ Files \subseteq Sources /\ None \notin Metas
    BY IndexAssumption DEF Sources, AContent
  <2>4. r.files = ix.files /\ r.occurrences = ix.occurrences
    BY <2>2 DEF InsertedLib
  <2>5. \A h \in Sources : r.file_to_ns[h] = IF h = f THEN c.ns ELSE ix.file_to_ns[h]
    BY <1>1, <2>2, IndexFields DEF Paths, InsertedLib
  <2>6. ProjectKnown(r)
    BY <2>4 DEF MetaSound, ProjectKnown
  <2>7. Registered(r, T)
    <3> SUFFICES ASSUME NEW h \in Files, r.files[h] # None, r.files[h].ns \notin T
                 PROVE  r.file_to_ns[h] = r.files[h].ns
      BY DEF Registered
    <3>1. r.files[h].ns \in Nss
      BY <2>2, IndexFields DEF Records, Paths, Sources
    <3> QED BY <3>1 DEF Forgot
  <2>8. ASSUME NEW n \in Nss, n \notin T, NEW slot \in Slots(Metas), slot = r.namespaces[n],
               ShapedBy(slot, MetaRanks(ix))
        PROVE  slot \in GoodSlots(r, n)
    <3>1. MetaRanks(r) = MetaRanks(ix)
      BY <2>4 DEF MetaRanks, MetaRank, IsProjectPath
    <3>2. MetaOwned(ix, n, slot) \/ n = c.ns
      <4>1. n # c.ns => slot = ix.namespaces[n]
        BY <2>2, <2>8 DEF InsertedLib
      <4> QED BY <2>8, <4>1 DEF MetaSound, GoodSlots
    <3>3. ASSUME NEW m \in In(slot), m.file \in Files
          PROVE  /\ r.file_to_ns[m.file] = n
                 /\ r.files[m.file] # None => r.files[m.file].ns = n /\ r.files[m.file].inNs = m.inNs
      <4> PICK h \in Files : h = m.file
        BY <3>3
      <4>1. n \in Homes(r, h) /\ m \in MetasOf(r, h, n)
        BY <2>8 DEF Homes, MetasOf, In
      <4>2. Homes(r, h) = {n}
        BY <2>8, <4>1 DEF HasStray
      <4>3. r.files[h] # None => r.files[h].ns = n /\ r.files[h].inNs = m.inNs
        <5> SUFFICES ASSUME r.files[h] # None PROVE r.files[h].ns = n /\ r.files[h].inNs = m.inNs
          OBVIOUS
        <5>1. r.files[h].ns \in Nss
          BY <2>2, IndexFields DEF Records, Paths, Sources
        <5>2. r.files[h].ns \in Homes(r, h)
          BY <5>1 DEF Homes
        <5>3. r.files[h].inNs = m.inNs
          BY <2>8, <4>1 DEF HasStray
        <5> QED BY <4>2, <5>2, <5>3
      <4>4. r.file_to_ns[h] = n
        <5>1. CASE h = f
          <6>1. c.ns \in Homes(r, h)
            BY <2>3, <2>5, <5>1 DEF Homes
          <6> QED BY <2>3, <2>5, <4>2, <5>1, <6>1
        <5>2. CASE h # f
          <6>1. m \in In(ix.namespaces[n])
            <7>1. CASE n # c.ns
              BY <2>2, <2>8, <7>1 DEF InsertedLib
            <7>2. CASE n = c.ns
              <8> PICK v : v = [file |-> f, inNs |-> c.inNs]
                OBVIOUS
              <8>1. v \in Metas /\ v.file = f
                BY <2>3 DEF Metas
              <8>2. slot = RankInsert(ix.namespaces[n], v, MetaRanks(ix)) /\ ix.namespaces[n] \in Slots(Metas)
                BY <1>1, <2>2, <2>8, <7>2, IndexFields DEF InsertedLib
              <8>3. In(slot) \subseteq In(ix.namespaces[n]) \cup {v}
                BY <2>3, <8>1, <8>2, RankInsertIsSlot
              <8> QED BY <5>2, <8>1, <8>3
            <7> QED BY <7>1, <7>2
          <6>2. MetaOwned(ix, n, ix.namespaces[n])
            BY <2>8 DEF MetaSound, GoodSlots
          <6> QED BY <2>3, <2>5, <5>2, <6>1, <6>2 DEF MetaOwned
        <5> QED BY <5>1, <5>2
      <4> QED BY <4>3, <4>4
    <3> QED BY <2>8, <3>1, <3>3 DEF GoodSlots, MetaOwned
  <2>9. ASSUME NEW n \in Nss, n \notin T
        PROVE  /\ r.namespaces[n] \in GoodSlots(r, n)
               /\ MetaHeld(ix, n) => MetaHeld(r, n)
    <3> PICK slot : slot = ix.namespaces[n]
      OBVIOUS
    <3>1. slot \in GoodSlots(ix, n)
      BY <2>9 DEF MetaSound
    <3>2. slot \in Slots(Metas) /\ ShapedBy(slot, MetaRanks(ix))
      BY <3>1 DEF GoodSlots
    <3>3. NsFiles(r, n) = NsFiles(ix, n)
      BY <2>4 DEF NsFiles
    <3>4. CASE n # c.ns
      <4>1. r.namespaces[n] = slot
        BY <2>2, <3>4 DEF InsertedLib
      <4> QED BY <2>8, <2>9, <3>2, <3>3, <4>1 DEF MetaHeld
    <3>5. CASE n = c.ns
      <4> PICK v, new : /\ v = [file |-> f, inNs |-> c.inNs]
                        /\ new = RankInsert(slot, v, MetaRanks(ix))
        OBVIOUS
      <4>1. v \in Metas
        BY <2>3 DEF Metas
      <4>2. r.namespaces[n] = new
        BY <2>2, <3>5 DEF InsertedLib
      <4>3. new \in Slots(Metas) /\ ShapedBy(new, MetaRanks(ix))
        <5>1. MetaRanks(ix) \in [Metas -> 0..6]
          BY MetaRankIs
        <5>2. new \in Slots(Metas)
          BY <2>3, <3>2, <4>1, RankInsertIsSlot
        <5>3. ShapedBy(new, MetaRanks(ix))
          BY <2>3, <3>2, <4>1, <5>1, InsertShapedBy
        <5> QED BY <5>2, <5>3
      <4>4. MetaHeld(ix, n) => NsFiles(ix, n) = {}
        BY <2>1, <3>1, <3>5, HeldIsOwned
      <4> QED BY <2>8, <2>9, <3>3, <4>2, <4>3, <4>4 DEF MetaHeld
    <3> QED BY <3>4, <3>5
  <2> QED BY <2>6, <2>7, <2>9 DEF MetaSound
<1> QED BY <1>2, <1>3

\* clear_libs keeps the metadata sound but for the namespaces whose files it
\* forgets, and every ns form held.
LEMMA ClearLibsMetas ==
  ASSUME NEW ix, NEW R, Sound(ix, R), NEW S, MetaSound(ix, S),
         NEW r, r = ClearLibs(ix),
         NEW T, S \subseteq T,
         \A n \in Nss : Forgot(r, n) => n \in T
  PROVE  /\ MetaSound(r, T)
         /\ \A n \in Nss : n \notin T /\ MetaHeld(ix, n) => MetaHeld(r, n)
<1>1. ix \in Indexes /\ Grouped(ix) /\ OwnNames(ix) /\ SlotsShaped(ix) /\ None \notin Nss
  BY IndexAssumption DEF Sound
<1>2. r \in Indexes /\ Cleared(ix, r)
  BY <1>1, ClearLibsIs
<1>3. r.files = ix.files /\ r.ns_files = ix.ns_files /\ r.occurrences = ix.occurrences
  BY <1>2 DEF Cleared
<1>4. ProjectKnown(r)
  BY <1>3 DEF MetaSound, ProjectKnown
<1>5. Registered(r, T)
  <2> SUFFICES ASSUME NEW h \in Files, r.files[h] # None, r.files[h].ns \notin T
               PROVE  r.file_to_ns[h] = r.files[h].ns
    BY DEF Registered
  <2>1. r.files[h].ns \in Nss
    BY <1>2, IndexFields DEF Records, Paths, Sources
  <2> QED BY <2>1 DEF Forgot
<1>6. MetaRanks(r) = MetaRanks(ix)
  BY <1>3 DEF MetaRanks, MetaRank, IsProjectPath
<1>7. ASSUME NEW n \in Nss, n \notin T
      PROVE  /\ r.namespaces[n] \in GoodSlots(r, n)
             /\ MetaHeld(ix, n) => MetaHeld(r, n)
  <2> PICK slot, p, s : /\ slot = ix.namespaces[n]
                        /\ p = KeepIf(StaysIn(ix, n), slot.primary)
                        /\ s = KeepIf(OwnMeta(ix, slot.shadow), slot.shadow)
    OBVIOUS
  <2> PICK k : k = [primary |-> p, shadow |-> s]
    OBVIOUS
  <2>1. slot \in GoodSlots(ix, n)
    BY <1>7 DEF MetaSound
  <2>2. /\ slot \in Slots(Metas) /\ ShapedBy(slot, MetaRanks(ix)) /\ MetaOwned(ix, n, slot)
        /\ \A m \in In(slot) : m \in Metas /\ m.file \in Sources
    BY <2>1 DEF GoodSlots, In, Slots, Metas
  <2>3. Refilled(ix, k, r.namespaces[n], n)
    BY <1>2 DEF Cleared
  <2>4. \A m \in In(slot) : OwnMeta(ix, m) => r.namespaces[n].primary # None
    <3> SUFFICES ASSUME NEW m \in In(slot), OwnMeta(ix, m) PROVE r.namespaces[n].primary # None
      OBVIOUS
    <3>1. m.file \in Files /\ ix.files[m.file] # None
      BY <2>2 DEF MetaSound, ProjectKnown, OwnMeta, IsProjectPath
    <3>2. ix.files[m.file].ns = n /\ ix.file_to_ns[m.file] = n
      BY <2>2, <3>1 DEF MetaOwned
    <3>3. r.file_to_ns[m.file] = n
      BY <1>3, <1>7, <3>1, <3>2 DEF Forgot
    <3> QED BY <1>1, <1>2, <3>1, <3>3 DEF Cleared, Paths, Sources
  <2>5. \A m \in In(slot) : MetaRanks(ix)[m] <= 2 => OwnMeta(ix, m)
    BY <2>2, MetaRankIs DEF OwnMeta, In
  <2>6. ASSUME slot.primary # None, ~OwnMeta(ix, slot.primary) PROVE s = None
    <3> SUFFICES ASSUME slot.shadow # None, OwnMeta(ix, slot.shadow) PROVE FALSE
      BY DEF KeepIf
    <3>1. slot.shadow \in In(slot) /\ slot.primary \in In(slot)
      BY <2>6 DEF In
    <3> PICK a, b : a = slot.primary /\ b = slot.shadow
      OBVIOUS
    <3>2. a \in Metas /\ b \in Metas /\ MetaRank(ix, a) < MetaRank(ix, b) /\ IsCljsRank(MetaRank(ix, b))
      BY <2>2, <2>6, <3>1, MetaRankIs DEF ShapedBy
    <3>3. ~IsProjectPath(ix, a.file) /\ IsProjectPath(ix, b.file)
      BY <2>6 DEF OwnMeta
    <3> QED BY <3>2, <3>3, IndexAssumption DEF MetaRank, SlotRank, InNsRank, IsCljsRank, Metas
  <2>7. ASSUME NEW new \in Slots(Metas), In(new) \subseteq In(slot), ShapedBy(new, MetaRanks(ix)),
               new = r.namespaces[n]
        PROVE  r.namespaces[n] \in GoodSlots(r, n)
    <3>1. ASSUME NEW m \in In(new), m.file \in Files
          PROVE  r.file_to_ns[m.file] = n
      <4>1. ix.file_to_ns[m.file] = n
        BY <2>2, <2>7, <3>1 DEF MetaOwned
      <4>2. r.namespaces[n].primary # None
        BY <2>7, <3>1 DEF In, ShapedBy
      <4> QED BY <1>2, <3>1, <4>1, <4>2 DEF Cleared, Paths, Sources
    <3>2. MetaOwned(r, n, new)
      BY <1>3, <2>2, <2>7, <3>1 DEF MetaOwned
    <3> QED BY <1>6, <2>7, <3>2 DEF GoodSlots
  <2>8. CASE p # None /\ ~OwnMeta(ix, p)
    <3>1. p = slot.primary /\ s = None
      BY <2>6, <2>8 DEF KeepIf
    <3>2. PICK e \in Indexes : /\ e.files = ix.files /\ e.ns_files = ix.ns_files /\ e.occurrences = ix.occurrences
                               /\ e.file_to_ns = ix.file_to_ns
                               /\ e.namespaces[n] = [primary |-> None, shadow |-> None]
                               /\ r.namespaces[n] = RefilledSlot(e, n)
      BY <2>3, <2>8, <3>1 DEF Refilled
    <3>3. Grouped(e) /\ Registered(e, S) /\ GoodSlots(e, n) = GoodSlots(ix, n)
      BY <1>1, <3>2 DEF Grouped, MetaSound, Registered, GoodSlots, MetaRanks, MetaRank, IsProjectPath, MetaOwned
    <3>4. e.namespaces[n] \in GoodSlots(e, n)
      <4>1. In(e.namespaces[n]) = {}
        BY <3>2 DEF In
      <4> QED BY <3>2, <4>1 DEF GoodSlots, Slots, ShapedBy, MetaOwned
    <3>5. r.namespaces[n] \in GoodSlots(ix, n)
      BY <1>7, <3>2, <3>3, <3>4, RefilledIsGood
    <3>6. r.namespaces[n] \in GoodSlots(r, n)
      <4> PICK new : new = r.namespaces[n]
        OBVIOUS
      <4>1. new \in Slots(Metas) /\ ShapedBy(new, MetaRanks(ix)) /\ MetaOwned(ix, n, new)
        BY <3>5 DEF GoodSlots
      <4>2. ASSUME NEW m \in In(new), m.file \in Files PROVE r.file_to_ns[m.file] = n
        <5>1. ix.file_to_ns[m.file] = n
          BY <4>1, <4>2 DEF MetaOwned
        <5>2. r.namespaces[n].primary # None
          BY <4>1 DEF In, ShapedBy
        <5> QED BY <1>2, <4>2, <5>1, <5>2 DEF Cleared, Paths, Sources
      <4>3. MetaOwned(r, n, new)
        BY <1>3, <4>1, <4>2 DEF MetaOwned
      <4> QED BY <1>6, <4>1, <4>3 DEF GoodSlots
    <3>7. MetaHeld(ix, n) => NsFiles(ix, n) = {}
      BY <2>1, <2>8, <3>1, HeldIsOwned
    <3> QED BY <1>3, <3>6, <3>7 DEF MetaHeld, NsFiles
  <2>9. CASE ~(p # None /\ ~OwnMeta(ix, p))
    <3>1. r.namespaces[n] = k
      BY <2>3, <2>9 DEF Refilled
    <3>2. k \in Slots(Metas) /\ In(k) \subseteq In(slot)
      BY <2>2 DEF Slots, In, KeepIf
    <3>3. s # None => p # None
      <4> SUFFICES ASSUME s # None PROVE p # None
        OBVIOUS
      <4>1. s = slot.shadow /\ OwnMeta(ix, s) /\ s \in In(slot)
        BY DEF KeepIf, In
      <4> QED BY <2>4, <3>1, <4>1
    <3>4. p # None => p = slot.primary
      BY DEF KeepIf
    <3>5. s # None => s = slot.shadow
      BY DEF KeepIf
    <3>6. ShapedBy(k, MetaRanks(ix))
      BY <2>2, <3>3, <3>4, <3>5 DEF ShapedBy
    <3>7. r.namespaces[n] \in GoodSlots(r, n)
      BY <2>7, <3>1, <3>2, <3>6
    <3>8. ASSUME MetaHeld(ix, n) PROVE MetaHeld(r, n)
      <4> SUFFICES ASSUME NEW f \in NsFiles(r, n)
                   PROVE  \E m \in In(r.namespaces[n]) : m.file = f /\ ~m.inNs
        BY DEF MetaHeld
      <4>1. f \in NsFiles(ix, n)
        BY <1>3 DEF NsFiles
      <4>2. PICK m \in In(slot) : m.file = f /\ ~m.inNs
        BY <3>8, <4>1 DEF MetaHeld
      <4>3. ix.occurrences[f] # None
        BY <1>1, <4>1 DEF OwnNames, NsFiles
      <4>4. OwnMeta(ix, m)
        BY <4>2, <4>3 DEF OwnMeta, IsProjectPath, In
      <4>5. p # None
        BY <2>4, <3>1, <4>4
      <4>6. m \in In(k)
        BY <3>4, <4>4, <4>5 DEF In, KeepIf
      <4> QED BY <3>1, <4>2, <4>6
    <3> QED BY <3>7, <3>8
  <2> QED BY <2>8, <2>9
<1> QED BY <1>4, <1>5, <1>7 DEF MetaSound

-----------------------------------------------------------------------------
(* The steps. *)

\* remove_file leaves every definition of the other files held.
LEMMA HeldAfterRemoval ==
  ASSUME NEW ix, NEW S, Sound(ix, S), NEW f \in Files \cup EdnFiles
  PROVE  /\ RemoveFile(ix, f).files[f] = None
         /\ \A q \in Fqns : Held(ix, q) => Held(RemoveFile(ix, f), q)
<1> PICK r : r = RemoveFile(ix, f)
  OBVIOUS
<1>1. ix \in Indexes /\ Grouped(ix) /\ EdnsBare(ix) /\ f \in Paths
  BY DEF Sound, Paths, Sources
<1>2. r.files = [ix.files EXCEPT ![f] = None]
  BY <1>1, RemoveFileIs
<1>3. \A q \in Fqns : \A s \in In(ix.symbols[q]) :
        s.project /\ s.file # f => s \in In(r.symbols[q])
  BY RemoveFileSound
<1>4. \A h \in Files : h \in Paths /\ r.files[h] = IF h = f THEN None ELSE ix.files[h]
  BY <1>1, <1>2, IndexFields DEF Paths, Sources
<1>5. \A q \in Fqns : \A h \in Definers(r, q) : h \in Definers(ix, q) /\ h # f
  BY <1>4 DEF Definers
<1>6. r.files[f] = None
  BY <1>1, <1>2, IndexFields
<1> QED BY <1>3, <1>5, <1>6 DEF Held

\* insert_file keeps the tables sound when the file has a record too, which it
\* first removes.
LEMMA InsertedSound ==
  ASSUME NEW ix, NEW S, Sound(ix, S), Counted(ix), NEW f \in Files, NEW c, AContent(c)
  PROVE  /\ Sound(InsertFile(ix, f, c), S) /\ Counted(InsertFile(ix, f, c))
         /\ \A q \in Fqns : q[1] \notin S /\ Held(ix, q) /\ Twins(Definers(InsertFile(ix, f, c), q))
                              => Held(InsertFile(ix, f, c), q)
<1>1. CASE ix.files[f] = None
  BY <1>1, InsertFileSound, InsertFileCounted DEF Sound
<1>2. CASE ix.files[f] # None
  <2> PICK clean : clean = RemoveFile(ix, f)
    OBVIOUS
  <2>1. Sound(clean, S) /\ clean.files[f] = None /\ \A q \in Fqns : Held(ix, q) => Held(clean, q)
    BY RemoveFileSound, HeldAfterRemoval
  <2>2. Counted(clean)
    BY RemoveFileCounted DEF Sound
  <2>3. InsertFile(ix, f, c) = InsertFile(clean, f, c)
    BY <1>2, <2>1 DEF InsertFile
  <2>4. Counted(InsertFile(clean, f, c))
    BY <2>1, <2>2, InsertFileCounted DEF Sound
  <2> QED BY <2>1, <2>3, <2>4, InsertFileSound
<1> QED BY <1>1, <1>2

\* From ix to jx: the metadata stays sound but for S, and no ns form is lost but
\* to another of its dialect.
MetasStay(ix, jx, S) ==
  /\ MetaSound(jx, S)
  /\ \A n \in Nss : n \notin S /\ MetaHeld(ix, n) /\ Twins(NsFiles(jx, n)) => MetaHeld(jx, n)

\* What holds but for S holds but for more.
LEMMA MetasStayLater ==
  ASSUME NEW ix, NEW jx, NEW S, MetasStay(ix, jx, S), NEW T, S \subseteq T
  PROVE  MetasStay(ix, jx, T)
BY DEF MetasStay, MetaSound, Registered

\* insert_file keeps the metadata when the file has a record too.
LEMMA InsertedMetas ==
  ASSUME NEW ix, NEW R, Sound(ix, R), NEW S, MetaSound(ix, S), NEW f \in Files, NEW c, AContent(c),
         ix.files[f] # None \/ \A n \in Nss : n \notin S => \A m \in In(ix.namespaces[n]) : m.file # f
  PROVE  MetasStay(ix, InsertFile(ix, f, c), S)
<1>1. CASE ix.files[f] = None
  BY <1>1, InsertFileMetas DEF MetasStay
<1>2. CASE ix.files[f] # None
  <2> PICK clean : clean = RemoveFile(ix, f)
    OBVIOUS
  <2>1. /\ Sound(clean, R) /\ clean.files[f] = None
        /\ MetaSound(clean, S)
        /\ \A n \in Nss : n \notin S /\ MetaHeld(ix, n) => MetaHeld(clean, n)
        /\ \A n \in Nss : n \notin S => \A m \in In(clean.namespaces[n]) : m.file # f
    BY RemoveFileSound, HeldAfterRemoval, RemoveFileMetas
  <2>2. InsertFile(ix, f, c) = InsertFile(clean, f, c)
    BY <1>2, <2>1 DEF InsertFile
  <2>3. MetasStay(clean, InsertFile(clean, f, c), S)
    BY <2>1, InsertFileMetas DEF MetasStay
  <2> QED BY <2>1, <2>2, <2>3 DEF MetasStay
<1> QED BY <1>1, <1>2

\* The invariant of an index, given the namespaces strayed from, those with a
\* forgotten file, and the names and namespaces fought over.
ContentsOf(st, fo, co, ix) ==
  /\ Sound(ix, st) /\ Counted(ix) /\ MetaSound(ix, st \cup fo)
  /\ \A n \in Nss : n \notin co => /\ Twins(NsFiles(ix, n))
                                   /\ n \notin st \cup fo => MetaHeld(ix, n)
  /\ \A q \in Fqns : q \notin co => /\ Twins(Definers(ix, q))
                                    /\ q[1] \notin st => Held(ix, q)

\* The inductive invariant.
IInv == /\ ContentsOf(strayed, forgotten, collided, index)
        /\ collided \subseteq Fqns \cup Nss /\ forgotten \subseteq Nss /\ strayed \subseteq Nss

\* An operation that keeps its parts keeps the invariant, whatever it adds to
\* the histories.
LEMMA BecomesKeeps ==
  ASSUME IInv, NEW jx, Becomes(jx), Sound(jx, strayed'), Counted(jx),
         \A q \in Fqns : q[1] \notin strayed' /\ Held(index, q) /\ Twins(Definers(jx, q)) => Held(jx, q),
         MetasStay(index, jx, strayed' \cup forgotten')
  PROVE  IInv'
<1>1. index' = jx
  BY DEF Becomes
<1>2. collided' \subseteq Fqns \cup Nss /\ forgotten' \subseteq Nss /\ strayed' \subseteq Nss
      /\ strayed \subseteq strayed' /\ forgotten \subseteq forgotten'
  BY DEF Becomes, IInv
<1>3. \A q \in Fqns : Claimants(jx, q) = Definers(jx, q)
  BY IndexAssumption DEF Claimants
<1>4. \A q \in Fqns : q \notin collided' =>
        \/ Definers(jx, q) = {}
        \/ q \notin collided /\ Twins(Definers(jx, q))
  BY <1>3 DEF Becomes
<1>5. \A n \in Nss : n \notin collided' =>
        \/ NsFiles(jx, n) = {}
        \/ n \notin collided /\ Twins(NsFiles(jx, n))
  BY DEF Becomes, Claimants
<1>6. ASSUME NEW q \in Fqns, q \notin collided'
      PROVE  Twins(Definers(jx, q)) /\ (q[1] \notin strayed' => Held(jx, q))
  <2>1. CASE Definers(jx, q) = {}
    BY <2>1 DEF Twins, Held
  <2>2. CASE q \notin collided /\ Twins(Definers(jx, q))
    BY <1>2, <2>2 DEF IInv, ContentsOf
  <2> QED BY <1>4, <1>6, <2>1, <2>2
<1>7. ASSUME NEW n \in Nss, n \notin collided'
      PROVE  Twins(NsFiles(jx, n)) /\ (n \notin strayed' \cup forgotten' => MetaHeld(jx, n))
  <2>1. CASE NsFiles(jx, n) = {}
    BY <2>1 DEF Twins, MetaHeld
  <2>2. CASE n \notin collided /\ Twins(NsFiles(jx, n))
    BY <1>2, <2>2 DEF IInv, ContentsOf, MetasStay
  <2> QED BY <1>5, <1>7, <2>1, <2>2
<1>8. ContentsOf(strayed', forgotten', collided', jx)
  BY <1>6, <1>7 DEF ContentsOf, MetasStay
<1> QED BY <1>1, <1>2, <1>8 DEF IInv

\* The tables are sound but for more namespaces when they are but for fewer.
LEMMA SoundGrows ==
  ASSUME NEW ix, NEW S, Sound(ix, S), NEW T, S \subseteq T
  PROVE  Sound(ix, T)
BY DEF Sound, OwnersKnown

\* The empty index.
LEMMA InitHolds ==
  ASSUME Init
  PROVE  IInv
<1>1. index \in Indexes
  BY IndexAssumption DEF Init, Indexes, EmptySlot, Slots
<1>2. /\ \A q \in Fqns : index.symbols[q] = EmptySlot
      /\ \A f \in Paths : index.files[f] = None
      /\ \A n \in Nss : index.ns_files[n] = <<>>
      /\ \A f \in Files : f \in Paths
  BY DEF Init, Paths, Sources
<1>3. EdnsBare(index) /\ OwnNames(index) /\ NsKnown(index)
  BY <1>2 DEF EdnsBare, OwnNames, NsKnown
<1>4. Grouped(index)
  BY <1>2 DEF Grouped, RangeOf, OnceEach
<1>5. SlotsShaped(index) /\ NamesListed(index)
  BY <1>2 DEF SlotsShaped, Shaped, EmptySlot, NamesListed
<1>6. \A q \in Fqns : In(index.symbols[q]) = {} /\ Definers(index, q) = {}
  BY <1>2 DEF In, EmptySlot, Definers
<1>7. Sound(index, strayed)
  BY <1>1, <1>3, <1>4, <1>5, <1>6 DEF Sound, OwnersKnown
<1>8. Counted(index)
  <2> PICK u : u = UsesOf(index)
    OBVIOUS
  <2>1. \A f \in Paths : u[f] = 0
    BY DEF Init, UsesOf, Uses
  <2>2. u \in [Paths -> Nat] /\ IsFiniteSet(Paths) /\ index.keyword_count = 0
    BY <2>1, IndexAssumption DEF UsesOf, Init
  <2> SUFFICES ASSUME NEW r, IsSum(r, u, Paths) PROVE r[Paths] = 0
    BY <2>2 DEF Counted
  <2> QED BY <2>1, <2>2, SumOfZeros
<1>9. MetaSound(index, strayed \cup forgotten)
  <2>1. \A f \in Sources : f \in Paths /\ index.occurrences[f] = None
    BY DEF Init, Paths
  <2>2. \A n \in Nss : index.namespaces[n] = EmptySlot /\ In(EmptySlot) = {}
    BY DEF Init, In, EmptySlot
  <2>3. \A n \in Nss : index.namespaces[n] \in GoodSlots(index, n)
    BY <2>2 DEF GoodSlots, ShapedBy, MetaOwned, Slots, EmptySlot
  <2> QED BY <1>2, <2>1, <2>3 DEF MetaSound, ProjectKnown, Registered
<1>10. \A n \in Nss : NsFiles(index, n) = {}
  BY <1>2 DEF NsFiles
<1> QED BY <1>6, <1>7, <1>8, <1>9, <1>10 DEF IInv, ContentsOf, Twins, Held, MetaHeld, Init

\* The step that inserts a file into an index that has lost no definition.
LEMMA InsertKeeps ==
  ASSUME IInv, NEW f \in Files, NEW c \in Contents[f], NEW ix, Sound(ix, strayed), Counted(ix),
         \A q \in Fqns : Held(index, q) => Held(ix, q), Becomes(InsertFile(ix, f, c)),
         NEW S, S = strayed \cup forgotten, MetaSound(ix, S),
         \A n \in Nss : n \notin S /\ MetaHeld(index, n) => MetaHeld(ix, n),
         ix.files[f] # None \/ \A n \in Nss : n \notin S => \A m \in In(ix.namespaces[n]) : m.file # f
  PROVE  IInv'
<1> PICK jx : jx = InsertFile(ix, f, c)
  OBVIOUS
<1>1. AContent(c)
  BY ContentTyped DEF Sources
<1>2. /\ Sound(jx, strayed)
      /\ Counted(jx)
      /\ \A q \in Fqns : q[1] \notin strayed /\ Held(ix, q) /\ Twins(Definers(jx, q)) => Held(jx, q)
  BY <1>1, InsertedSound
<1>3. strayed \subseteq strayed'
  BY DEF Becomes
<1>4. Sound(jx, strayed')
  BY <1>2, <1>3, SoundGrows
<1>5. \A q \in Fqns : q[1] \notin strayed' /\ Held(index, q) /\ Twins(Definers(jx, q)) => Held(jx, q)
  BY <1>2, <1>3
<1>6. Becomes(jx)
  OBVIOUS
<1>7. MetasStay(index, jx, S)
  BY <1>1, InsertedMetas DEF MetasStay
<1>8. S \subseteq strayed' \cup forgotten'
  BY DEF Becomes
<1>9. MetasStay(index, jx, strayed' \cup forgotten')
  BY <1>7, <1>8, MetasStayLater
<1> QED BY <1>2, <1>4, <1>5, <1>6, <1>9, BecomesKeeps

\* Every step keeps the invariant.
LEMMA NextKeeps ==
  ASSUME IInv, Next
  PROVE  IInv'
<1> PICK ix : ix = index
  OBVIOUS
<1> PICK S : S = strayed \cup forgotten
  OBVIOUS
<1>1. Sound(ix, strayed) /\ Counted(ix) /\ MetaSound(ix, S)
  BY DEF IInv, ContentsOf
<1>2. ASSUME NEW f \in Files \cup EdnFiles
      PROVE  /\ Sound(RemoveFile(ix, f), strayed) /\ Counted(RemoveFile(ix, f))
             /\ \A q \in Fqns : Held(ix, q) => Held(RemoveFile(ix, f), q)
             /\ MetaSound(RemoveFile(ix, f), S)
             /\ \A n \in Nss : n \notin S /\ MetaHeld(ix, n) => MetaHeld(RemoveFile(ix, f), n)
             /\ \A n \in Nss : n \notin S =>
                   \A m \in In(RemoveFile(ix, f).namespaces[n]) : m.file # f
  <2>1. Counted(RemoveFile(ix, f))
    BY <1>1, RemoveFileCounted DEF Sound
  <2> QED BY <1>1, <2>1, RemoveFileSound, HeldAfterRemoval, RemoveFileMetas
<1>3. ASSUME NEW jx, Becomes(jx), Sound(jx, strayed), Counted(jx), \A q \in Fqns : Held(ix, q) => Held(jx, q),
             MetasStay(ix, jx, S)
      PROVE  IInv'
  <2>1. strayed \subseteq strayed'
    BY <1>3 DEF Becomes
  <2>2. Sound(jx, strayed')
    BY <1>3, <2>1, SoundGrows
  <2>3. S \subseteq strayed' \cup forgotten'
    BY <1>3 DEF Becomes
  <2>4. MetasStay(index, jx, strayed' \cup forgotten')
    BY <1>3, <2>3, MetasStayLater
  <2> QED BY <1>3, <2>2, <2>4, BecomesKeeps
<1>4. ASSUME NEW f \in Files, NEW c \in Contents[f], OpenFile(f, c) PROVE IInv'
  <2>1. Becomes(InsertFile(ix, f, c))
    BY <1>4 DEF OpenFile
  <2>2. \A n \in Nss : n \notin S => \A m \in In(ix.namespaces[n]) : m.file # f
    BY <1>1, <1>4, IndexAssumption DEF OpenFile, MetaSound, GoodSlots, MetaOwned
  <2> QED BY <1>1, <2>1, <2>2, InsertKeeps
<1>5. ASSUME NEW f \in Files, NEW c \in Contents[f], ReindexFile(f, c) PROVE IInv'
  <2> PICK rx : rx = RemoveFile(ix, f)
    OBVIOUS
  <2>1. Becomes(InsertFile(rx, f, c))
    BY <1>5 DEF ReindexFile
  <2>2. /\ Sound(rx, strayed) /\ Counted(rx) /\ \A q \in Fqns : Held(index, q) => Held(rx, q)
        /\ MetaSound(rx, S)
        /\ \A n \in Nss : n \notin S /\ MetaHeld(index, n) => MetaHeld(rx, n)
        /\ \A n \in Nss : n \notin S => \A m \in In(rx.namespaces[n]) : m.file # f
    BY <1>2
  <2> QED BY <2>1, <2>2, InsertKeeps
<1>6. ASSUME NEW f \in Files \cup EdnFiles, ForgetFile(f) PROVE IInv'
  <2> PICK rx : rx = RemoveFile(ix, f)
    OBVIOUS
  <2>1. Becomes(rx)
    BY <1>6 DEF ForgetFile
  <2>2. MetasStay(ix, rx, S)
    BY <1>2 DEF MetasStay
  <2> QED BY <1>2, <1>3, <2>1, <2>2
<1>7. ASSUME NEW f \in EdnFiles, NEW uses \in 0..MaxUses, OpenEdn(f, uses) PROVE IInv'
  <2> PICK rx : rx = InsertEdnFile(ix, f, uses)
    OBVIOUS
  <2>1. Becomes(rx)
    BY <1>7 DEF OpenEdn
  <2>2. Sound(rx, strayed) /\ \A q \in Fqns : Held(ix, q) => Held(rx, q)
    BY <1>1, InsertEdnSound
  <2>3. Counted(rx)
    BY <1>1, <2>2, InsertEdnCounted DEF Sound
  <2>4. MetasStay(ix, rx, S)
    BY <1>1, InsertEdnMetas DEF MetasStay
  <2> QED BY <1>3, <2>1, <2>2, <2>3, <2>4
<1>8. ASSUME NEW f \in EdnFiles, NEW uses \in 0..MaxUses, ReindexEdn(f, uses) PROVE IInv'
  <2> PICK cx : cx = RemoveFile(ix, f)
    OBVIOUS
  <2> PICK rx : rx = InsertEdnFile(cx, f, uses)
    OBVIOUS
  <2>1. Becomes(rx)
    BY <1>8 DEF ReindexEdn
  <2>2. /\ Sound(cx, strayed) /\ Counted(cx) /\ \A q \in Fqns : Held(ix, q) => Held(cx, q)
        /\ MetaSound(cx, S) /\ \A n \in Nss : n \notin S /\ MetaHeld(ix, n) => MetaHeld(cx, n)
    BY <1>2
  <2>3. Sound(rx, strayed) /\ \A q \in Fqns : Held(cx, q) => Held(rx, q)
    BY <2>2, InsertEdnSound
  <2>4. Counted(rx)
    BY <2>2, <2>3, InsertEdnCounted DEF Sound
  <2>5. MetasStay(ix, rx, S)
    BY <2>2, InsertEdnMetas DEF MetasStay
  <2> QED BY <1>3, <2>1, <2>2, <2>3, <2>4, <2>5
<1>9. ASSUME NEW f \in LibFiles, NEW c \in Contents[f], IndexLib(f, c) PROVE IInv'
  <2> PICK rx : rx = InsertLibFile(ix, f, c)
    OBVIOUS
  <2>1. Becomes(rx)
    BY <1>9 DEF IndexLib
  <2>2. AContent(c)
    BY ContentTyped DEF Sources
  <2> PICK T : T = strayed'
    OBVIOUS
  <2>3. strayed \subseteq T /\ {n \in Nss : HasStray(rx, n)} \subseteq T
    BY <2>1 DEF Becomes
  <2>4. /\ Sound(rx, T)
        /\ \A q \in Fqns : Definers(rx, q) = Definers(ix, q) /\ (Held(ix, q) => Held(rx, q))
    BY <1>1, <2>2, <2>3, InsertLibFileSound
  <2>5. Counted(rx)
    BY <1>1, InsertLibCounted DEF Sound
  <2> PICK U : U = strayed' \cup forgotten'
    OBVIOUS
  <2>6. S \subseteq U /\ \A n \in Nss : HasStray(rx, n) \/ Forgot(rx, n) => n \in U
    BY <2>1 DEF Becomes, Forgot
  <2>7. MetasStay(ix, rx, U)
    BY <1>1, <2>2, <2>6, InsertLibMetas DEF MetasStay
  <2> QED BY <2>1, <2>4, <2>5, <2>7, BecomesKeeps
<1>10. ASSUME RebuildLibs PROVE IInv'
  <2> PICK rx : rx = ClearLibs(ix)
    OBVIOUS
  <2>1. Becomes(rx)
    BY <1>10 DEF RebuildLibs
  <2>2. Counted(rx)
    BY <1>1, ClearLibsCounted DEF Sound
  <2>3. strayed \subseteq strayed'
    BY <2>1 DEF Becomes
  <2>4. /\ Sound(rx, strayed)
        /\ \A q \in Fqns : Held(ix, q) => Held(rx, q)
    BY <1>1, ClearLibsSound
  <2>5. Sound(rx, strayed')
    BY <2>3, <2>4, SoundGrows
  <2> PICK U : U = strayed' \cup forgotten'
    OBVIOUS
  <2>6. S \subseteq U /\ \A n \in Nss : Forgot(rx, n) => n \in U
    BY <2>1 DEF Becomes, Forgot
  <2>7. MetasStay(ix, rx, U)
    BY <1>1, <2>6, ClearLibsMetas DEF MetasStay
  <2> QED BY <2>1, <2>2, <2>4, <2>5, <2>7, BecomesKeeps
<1> QED BY <1>4, <1>5, <1>6, <1>7, <1>8, <1>9, <1>10 DEF Next

\* So does a step that changes nothing.
LEMMA StutterKeeps ==
  ASSUME IInv, UNCHANGED vars
  PROVE  IInv'
BY DEF IInv, vars

-----------------------------------------------------------------------------
(* What holds of every behaviour. *)

\* Every state of the index is described by IInv.
THEOREM IndexInvariant == Spec => []IInv
<1>1. Init => IInv
  BY InitHolds
<1>2. IInv /\ [Next]_vars => IInv'
  BY NextKeeps, StutterKeeps
<1> QED BY <1>1, <1>2, PTL DEF Spec

\* Every map of the index holds what it is meant to, and the counter of keyword
\* uses never goes below zero.
THEOREM TypeCorrect == Spec => []TypeOK
<1>1. IInv => TypeOK
  BY DEF IInv, ContentsOf, Sound, TypeOK
<1> QED BY <1>1, IndexInvariant, PTL

\* The slot a lookup asks first is filled when the other is, and no slot holds a
\* project definition that its file no longer makes, but for names of a namespace
\* a file has strayed from. (Of what the files define, DefinitionsStayFound.)
THEOREM SlotsStayTrue == Spec => []SlotsAreTrue
<1>1. ASSUME IInv PROVE ShadowHasPrimary
  BY <1>1 DEF IInv, ContentsOf, Sound, SlotsShaped, Shaped, ShadowHasPrimary
<1>2. ASSUME IInv PROVE NoGhosts
  BY <1>2 DEF IInv, ContentsOf, Sound, OwnersKnown, NoGhosts, LookupAll, In
<1> QED BY <1>1, <1>2, IndexInvariant, PTL DEF SlotsAreTrue

\* References and rename see every definition of an undisputed name, after any
\* sequence of opens, saves, removals and rebuilds of the libraries.
THEOREM DefinitionsStayFound == Spec => []EveryDefinitionFound
<1>1. ASSUME IInv PROVE EveryDefinitionFound
  <2> SUFFICES ASSUME NEW q \in Undisputed, NEW f \in Definers(index, q)
               PROVE  \E s \in LookupAll(index, q) : s.file = f
    BY DEF EveryDefinitionFound
  <2>1. Held(index, q)
    BY <1>1 DEF IInv, ContentsOf, Undisputed
  <2> QED BY <2>1 DEF Held, LookupAll, In
<1> QED BY <1>1, IndexInvariant, PTL

\* lookup_for on a pair that holds the definitions of D: it answers with one of
\* them, and with that of the asker's dialect if D has one.
LEMMA AskedSlot ==
  ASSUME NEW slot \in Slots(Symbols), Shaped(slot), NEW D, D # {}, Twins(D),
         \A f \in D : \E s \in In(slot) : s.project /\ s.file = f,
         \A s \in In(slot) : s.project => s.file \in D,
         NEW cljs \in BOOLEAN,
         NEW s, s = IF ~cljs \/ slot.shadow = None THEN slot.primary
                    ELSE IF slot.primary # None /\ slot.primary.project /\ ~slot.shadow.project
                         THEN slot.primary ELSE slot.shadow
  PROVE  s.project /\ \A f \in D : Cljs(f) = cljs => s.file = f
<1>1. slot.primary # None /\ slot.primary \in Symbols
  BY DEF In, Shaped, Slots
<1>2. slot.primary.project
  BY <1>1, IndexAssumption DEF In, Shaped, Slots, Symbols, SymbolRank, SlotRank
<1>3. ASSUME slot.shadow # None, slot.shadow.project, NEW f \in D, Cljs(f)
      PROVE  slot.shadow.file = f
  BY <1>1, <1>2, <1>3 DEF In, Shaped, Twins
<1>4. ASSUME NEW f \in D, ~Cljs(f)
      PROVE  slot.primary.file = f
  BY <1>4 DEF In, Shaped
<1>5. ASSUME NEW f \in D, slot.shadow = None \/ ~slot.shadow.project
      PROVE  slot.primary.file = f
  BY <1>5 DEF In
<1>6. \A f : Cljs(f) \in BOOLEAN
  BY DEF Cljs, IsCljsRank
<1> QED BY <1>1, <1>2, <1>3, <1>4, <1>5, <1>6

\* An asker of either dialect gets a project definition when there is one, and
\* the one of its own dialect when there is that.
THEOREM AskersGetTheirOwn == Spec => []EachAskerGetsItsOwn
<1>1. ASSUME IInv PROVE EachAskerGetsItsOwn
  <2> SUFFICES ASSUME NEW q \in Undisputed, NEW cljs \in BOOLEAN, Definers(index, q) # {},
                      NEW s, s = LookupFor(index, q, cljs)
               PROVE  s.project /\ \A f \in Definers(index, q) : Cljs(f) = cljs => s.file = f
    BY DEF EachAskerGetsItsOwn
  <2> PICK slot, D : slot = index.symbols[q] /\ D = Definers(index, q)
    OBVIOUS
  <2>1. q \in Fqns /\ q \notin collided /\ q[1] \notin strayed
    BY DEF Undisputed
  <2>2. Sound(index, strayed) /\ Twins(D) /\ Held(index, q)
    BY <1>1, <2>1 DEF IInv, ContentsOf
  <2>3. slot \in Slots(Symbols) /\ Shaped(slot)
    BY <2>1, <2>2, IndexFields DEF Sound, SlotsShaped
  <2>4. \A f \in D : \E x \in In(slot) : x.project /\ x.file = f
    BY <2>2 DEF Held
  <2>5. \A x \in In(slot) : x.project => x.file \in D
    BY <2>1, <2>2 DEF Sound, OwnersKnown
  <2>6. s = IF ~cljs \/ slot.shadow = None THEN slot.primary
            ELSE IF slot.primary # None /\ slot.primary.project /\ ~slot.shadow.project
                 THEN slot.primary ELSE slot.shadow
    BY DEF LookupFor
  <2> QED BY <2>2, <2>3, <2>4, <2>5, <2>6, AskedSlot
<1> QED BY <1>1, IndexInvariant, PTL

\* Names and their lists, files and their groups, keyword uses and their count
\* agree.
THEOREM TablesStayAgreeing == Spec => []TablesAgree
<1>1. ASSUME IInv PROVE EverySymbolListed
  BY <1>1 DEF IInv, ContentsOf, Sound, NamesListed, EverySymbolListed
<1>2. ASSUME IInv PROVE FilesGrouped
  BY <1>2 DEF IInv, ContentsOf, Sound, Grouped, RangeOf, OnceEach, FilesGrouped
<1>3. ASSUME IInv PROVE CountsAgree
  <2>1. Counted(index)
    BY <1>3 DEF IInv, ContentsOf
  <2>2. index.keyword_count = Total(index)
    BY <2>1, TotalIs
  <2> QED BY <2>2 DEF CountsAgree, Total
<1> QED BY <1>1, <1>2, <1>3, IndexInvariant, PTL DEF TablesAgree

\* A namespace in which the project defines a name survives clear_libs: such a
\* name is listed, so the namespace stays, and its file is registered there, so
\* there is metadata to keep or to refill the slot with.
LEMMA NamesKeepTheirNs ==
  ASSUME IInv, RebuildLibs, NEW n \in Nss, HasProjectName(index, n)
  PROVE  NsSurvives(n)
<1> PICK ix, S : ix = index /\ S = strayed
  OBVIOUS
<1> PICK rx : rx = ClearLibs(ix)
  OBVIOUS
<1>1. index' = rx
  BY DEF RebuildLibs, Becomes
<1>2. Sound(ix, S)
  BY DEF IInv, ContentsOf
<1>3. PICK q \in Fqns : q[1] = n /\ \E s \in In(ix.symbols[q]) : s.project
  BY DEF HasProjectName, LookupAll, In
<1>4. PICK s \in In(ix.symbols[q]) : s.project
  BY <1>3
<1>5. StaysIn(ix, n)
  BY <1>2, <1>3, <1>4, ClearLibsSound
<1>6. /\ OwnMeta(ix, ix.namespaces[n].primary) => rx.namespaces[n].primary = ix.namespaces[n].primary
      /\ /\ ix.namespaces[n].primary # None
         /\ \E f \in Files : ix.files[f] # None /\ ix.files[f].ns = n
         => OwnMeta(rx, rx.namespaces[n].primary)
  BY <1>2, <1>5, StayingSurvives
<1>7. ASSUME n \notin S
      PROVE  /\ ix.namespaces[n].primary # None
             /\ \E f \in Files : ix.files[f] # None /\ ix.files[f].ns = n
  <2>1. s.file \in Definers(ix, q) /\ ix.file_to_ns[s.file] = n
    BY <1>2, <1>3, <1>4, <1>7 DEF Sound, OwnersKnown
  <2>2. s.file \in Files /\ ix.files[s.file] # None /\ q \in ix.files[s.file].fqns
    BY <2>1 DEF Definers
  <2>3. ix.files[s.file].ns = n
    BY <1>2, <1>3, <2>2 DEF Sound, OwnNames
  <2> QED BY <1>2, <2>1, <2>2, <2>3 DEF Sound, NsKnown
<1> QED BY <1>1, <1>6, <1>7 DEF NsSurvives

\* clear_libs takes every library definition and no project one, and all metadata
\* of files the project does not have; a namespace in which the project defines a
\* name goes on with the project's metadata.
THEOREM LibrariesLeave == Spec => LibsLeave
<1> DEFINE Leaves == /\ \A q \in Fqns : LookupAll(index', q) = {s \in LookupAll(index, q) : s.project}
                     /\ \A n \in Nss : \A m \in {index'.namespaces[n].primary, index'.namespaces[n].shadow} :
                          m # None => IsProjectPath(index', m.file)
                     /\ \A n \in Nss : HasProjectName(index, n) => NsSurvives(n)
<1>1. ASSUME IInv, RebuildLibs
      PROVE  Leaves
  <2> PICK ix, S : ix = index /\ S = strayed
    OBVIOUS
  <2> PICK rx : rx = ClearLibs(ix)
    OBVIOUS
  <2>1. index' = rx
    BY <1>1 DEF RebuildLibs, Becomes
  <2>2. /\ \A q \in Fqns : In(rx.symbols[q]) = {s \in In(ix.symbols[q]) : s.project}
        /\ \A n \in Nss : \A m \in In(rx.namespaces[n]) : rx.occurrences[m.file] # None
    BY <1>1, ClearLibsSound DEF IInv, ContentsOf
  <2>3. \A n \in Nss : HasProjectName(index, n) => NsSurvives(n)
    BY <1>1, NamesKeepTheirNs
  <2> QED BY <2>1, <2>2, <2>3 DEF LookupAll, In, IsProjectPath
<1>2. IInv /\ [Next]_vars => [RebuildLibs => Leaves]_vars
  BY <1>1
<1> QED BY <1>2, IndexInvariant, PTL DEF LibsLeave, Spec

\* The metadata a lookup finds for a namespace is that of a project file with an
\* ns form when there is one, unless two such files of one dialect fought over
\* it, a library had another copy of one, or clear_libs forgot one.
THEOREM NsFormsHoldTheSlots == Spec => []NsFormHoldsTheSlot
<1>1. ASSUME IInv PROVE NsFormHoldsTheSlot
  <2> SUFFICES ASSUME NEW n \in Nss, n \notin collided \cup forgotten \cup strayed, NsFiles(index, n) # {}
               PROVE  OwnedByProject(index, n)
    BY DEF NsFormHoldsTheSlot
  <2>1. /\ Sound(index, strayed) /\ index.namespaces[n] \in GoodSlots(index, n)
        /\ MetaHeld(index, n)
    BY <1>1 DEF IInv, ContentsOf, MetaSound
  <2> QED BY <2>1, HeldIsOwned
<1> QED BY <1>1, IndexInvariant, PTL
=============================================================================
