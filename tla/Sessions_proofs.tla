-------------------------- MODULE Sessions_proofs ---------------------------
(***************************************************************************)
(* Proofs about two parts of a server that outlive a request: the handlers *)
(* that give new files their ns form, for any batches, paths and projects, *)
(* and the cache of a JAR, for any servers and contents.                   *)
(***************************************************************************)
EXTENDS NewFiles, JarCache, TLAPS, WellFoundedInduction, NaturalsInduction,
        SequenceTheorems

-----------------------------------------------------------------------------
(* Prefixes and the longest of them. *)

\* Every non-empty set of numbers has a least element.
LEMMA LeastNat ==
  ASSUME NEW T, T \subseteq Nat, T # {}
  PROVE  \E x \in T : \A y \in T : ~(y < x)
<1>1. IsWellFoundedOn(OpToRel(<,Nat), Nat)
  BY NatLessThanWellFounded
<1>2. \E x \in T : \A y \in T : ~ (<<y, x>> \in OpToRel(<,Nat))
  BY <1>1, WFMin
<1> QED BY <1>2 DEF OpToRel

\* Among things whose size is bounded, one is the largest.
LEMMA Largest ==
  ASSUME NEW T, T # {}, NEW n \in Nat, NEW Size, \A x \in T : Size[x] \in 0..n
  PROVE  \E x \in T : \A y \in T : Size[y] <= Size[x]
<1> DEFINE D == {n - Size[x] : x \in T}
<1>1. D \subseteq Nat /\ D # {}
  OBVIOUS
<1>2. PICK d \in D : \A c \in D : ~(c < d)
  <2> HIDE DEF D
  <2> QED BY <1>1, LeastNat
<1>3. PICK x \in T : d = n - Size[x]
  BY <1>2
<1>4. \A y \in T : Size[y] <= Size[x]
  <2> TAKE y \in T
  <2>1. n - Size[y] \in D
    OBVIOUS
  <2>2. ~(n - Size[y] < n - Size[x])
    <3> HIDE DEF D
    <3> QED BY <1>2, <1>3, <2>1
  <2>3. Size[x] \in 0..n /\ Size[y] \in 0..n
    OBVIOUS
  <2> QED BY <2>2, <2>3
<1> QED BY <1>4

\* A prefix agrees with the whole as far as it goes.
LEMMA HoldsIs ==
  ASSUME NEW C, NEW s \in Seq(C), NEW t \in Seq(C)
  PROVE  Holds(s, t) <=> Len(s) <= Len(t) /\ \A i \in 1..Len(s) : s[i] = t[i]
<1>1. ASSUME Len(s) <= Len(t)
      PROVE  SubSeq(s, 1, Len(s)) = SubSeq(t, 1, Len(s)) <=> \A i \in 1..Len(s) : s[i] = t[i]
  <2>1. PICK a, b : a = SubSeq(s, 1, Len(s)) /\ b = SubSeq(t, 1, Len(s))
    OBVIOUS
  <2>2. /\ a \in Seq(C) /\ Len(a) = Len(s) /\ \A i \in 1..Len(s) : a[i] = s[i]
        /\ b \in Seq(C) /\ Len(b) = Len(s) /\ \A i \in 1..Len(s) : b[i] = t[i]
    BY <1>1, <2>1
  <2>3. (\A i \in 1..Len(s) : s[i] = t[i]) => a = b
    BY <2>2
  <2>4. a = b => \A i \in 1..Len(s) : s[i] = t[i]
    BY <2>2
  <2> QED BY <2>1, <2>3, <2>4
<1> QED BY <1>1 DEF Holds, IsPrefix

LEMMA SamePrefix ==
  ASSUME NEW C, NEW s \in Seq(C), NEW u \in Seq(C), NEW t \in Seq(C),
         Holds(s, t), Holds(u, t), Len(s) = Len(u)
  PROVE  s = u
<1>1. \A i \in 1..Len(s) : s[i] = u[i]
  BY HoldsIs
<1> QED BY <1>1

LEMMA PrefixOfPrefix ==
  ASSUME NEW C, NEW s \in Seq(C), NEW u \in Seq(C), NEW t \in Seq(C), Holds(s \o u, t)
  PROVE  Holds(s, t)
<1>1. s \o u \in Seq(C) /\ Len(s \o u) = Len(s) + Len(u) /\ \A i \in 1..Len(s) : (s \o u)[i] = s[i]
  OBVIOUS
<1>2. Len(s) + Len(u) <= Len(t) /\ \A i \in 1..(Len(s) + Len(u)) : (s \o u)[i] = t[i]
  <2> PICK v : v = s \o u
    OBVIOUS
  <2>1. v \in Seq(C) /\ Holds(v, t) /\ Len(v) = Len(s) + Len(u)
    BY <1>1
  <2>2. Len(v) <= Len(t) /\ \A i \in 1..Len(v) : v[i] = t[i]
    BY ONLY <2>1, HoldsIs, t \in Seq(C)
  <2> QED BY <2>1, <2>2
<1>3. Len(s) <= Len(t) /\ \A i \in 1..Len(s) : i \in 1..(Len(s) + Len(u))
  BY <1>2
<1> QED BY <1>1, <1>2, <1>3, HoldsIs

-----------------------------------------------------------------------------
(* The namespace of a path. *)

\* A list that a handler can have taken.
ProjectList(ps) == ps = <<>> \/ ps \in ProjectLists

LEMMA ProjectListIs ==
  ASSUME NEW ps, ProjectList(ps)
  PROVE  /\ \A p \in ToSet(ps) : p.dir \in Seq(Components) /\ p.declared \subseteq Seq(Components)
         /\ \A p, q \in ToSet(ps) : p.dir = q.dir => p = q
<1>1. CASE ps = <<>>
  BY <1>1 DEF ToSet
<1>2. CASE ps \in ProjectLists
  <2>1. ps \in Seq(Project) /\ \A p, q \in ToSet(ps) : p.dir = q.dir => p = q
    BY <1>2, NewFilesAssumption
  <2>2. \A p \in ToSet(ps) : p \in Project
    BY <2>1 DEF ToSet
  <2> QED BY <2>1, <2>2 DEF Project
<1> QED BY <1>1, <1>2 DEF ProjectList

LEMMA RootsAre ==
  ASSUME NEW p, p.dir \in Seq(Components), p.declared \subseteq Seq(Components),
         NEW path \in Seq(Components)
  PROVE  /\ SourcePaths(p) \subseteq Seq(Components)
         /\ \A r \in SourcePaths(p) : Holds(r, path) => Holds(p.dir, path)
<1>1. <<"src">> \in Seq(Components) /\ <<"test">> \in Seq(Components)
  BY NewFilesAssumption
<1>2. \A r \in SourcePaths(p) : \E root \in Seq(Components) : r = p.dir \o root
  BY <1>1 DEF SourcePaths
<1>3. \A root \in Seq(Components) : p.dir \o root \in Seq(Components)
  OBVIOUS
<1> QED BY <1>2, <1>3, PrefixOfPrefix

\* The project that owns a path is one of those that hold it, and the innermost.
LEMMA OwnerIs ==
  ASSUME NEW ps, ProjectList(ps), NEW path \in Seq(Components), Owned(ps, path)
  PROVE  /\ Owner(ps, path) \in ToSet(ps) /\ Holds(Owner(ps, path).dir, path)
         /\ \A q \in ToSet(ps) : Holds(q.dir, path) => Len(q.dir) <= Len(Owner(ps, path).dir)
<1> DEFINE owners == {p \in ToSet(ps) : Holds(p.dir, path)}
<1> DEFINE Size == [p \in owners |-> Len(p.dir)]
<1>1. owners # {} /\ Len(path) \in Nat
  BY DEF Owned
<1>2. \A p \in owners : Len(p.dir) \in 0..Len(path)
  BY ProjectListIs, HoldsIs
<1>3. \E p \in owners : \A q \in owners : Size[q] <= Size[p]
  <2>1. \A p \in owners : Size[p] \in 0..Len(path)
    BY <1>2
  <2> HIDE DEF owners, Size
  <2> QED BY <1>1, <2>1, Largest
<1>4. \E p \in owners : \A q \in owners : Len(q.dir) <= Len(p.dir)
  BY <1>3
<1>5. Owner(ps, path) \in owners /\ \A q \in owners : Len(q.dir) <= Len(Owner(ps, path).dir)
  <2> HIDE DEF owners
  <2> QED BY <1>4 DEF Owner, owners
<1> QED BY <1>5

LEMMA Below ==
  ASSUME NEW path \in Seq(Components), NEW k \in 0..Len(path)
  PROVE  /\ SubSeq(path, k + 1, Len(path)) \in Seq(Components)
         /\ Len(SubSeq(path, k + 1, Len(path))) = Len(path) - k
         /\ \A i \in 1..(Len(path) - k) : SubSeq(path, k + 1, Len(path))[i] = path[k + i]
         /\ DOMAIN SubSeq(path, k + 1, Len(path)) = 1..(Len(path) - k)
OBVIOUS

\* The longest root is one of those that hold the path.
LEMMA LongestIs ==
  ASSUME NEW path \in Seq(Components), NEW holding, holding # {}, holding \subseteq Seq(Components),
         \A r \in holding : Holds(r, path)
  PROVE  Longest(holding) \in holding /\ \A r \in holding : Len(r) <= Len(Longest(holding))
<1> DEFINE Size == [r \in holding |-> Len(r)]
<1>1. \A r \in holding : Len(r) \in 0..Len(path)
  BY HoldsIs
<1>2. \E r \in holding : \A q \in holding : Size[q] <= Size[r]
  <2>1. Len(path) \in Nat /\ \A r \in holding : Size[r] \in 0..Len(path)
    BY <1>1
  <2> HIDE DEF Size
  <2> QED BY <2>1, Largest
<1>3. \E r \in holding : \A q \in holding : Len(q) <= Len(r)
  BY <1>2
<1> QED BY <1>3 DEF Longest

\* What is below the longest root, spelled as segments.
Segments(path, root) == [i \in 1..(Len(path) - Len(root)) |-> NsSegment[path[Len(root) + i]]]

LEMMA NsForPathIs ==
  ASSUME NEW path \in Seq(Components), NEW roots, roots \subseteq Seq(Components),
         NEW root, root \in roots, Holds(root, path), \A r \in roots : Holds(r, path) => Len(r) <= Len(root)
  PROVE  NsForPath(path, roots) =
           IF \/ Len(path) = Len(root) \/ \E i \in DOMAIN Segments(path, root) : Segments(path, root)[i] = NoSegment
              \/ Segments(path, root) \in Literals
           THEN <<>> ELSE Segments(path, root)
<1> DEFINE holding == {r \in roots : Holds(r, path)}
<1>1. holding # {} /\ holding \subseteq Seq(Components) /\ root \in holding
  OBVIOUS
<1> PICK longest : longest = Longest(holding)
  OBVIOUS
<1>2. longest \in holding /\ \A r \in holding : Len(r) <= Len(longest)
  <2>1. \A r \in holding : Holds(r, path)
    OBVIOUS
  <2> HIDE DEF holding
  <2> QED BY <1>1, <2>1, LongestIs
<1>3. Len(longest) = Len(root) /\ Len(root) \in Nat /\ Len(root) <= Len(path)
  <2>1. longest \in Seq(Components) /\ root \in Seq(Components)
    <3> HIDE DEF holding
    <3> QED BY <1>1, <1>2
  <2>2. Len(longest) <= Len(root) /\ Len(root) <= Len(longest)
    BY <1>1, <1>2
  <2> QED BY <2>1, <2>2, HoldsIs
<1> PICK below : below = SubSeq(path, Len(longest) + 1, Len(path))
  OBVIOUS
<1>4. /\ below \in Seq(Components) /\ Len(below) = Len(path) - Len(root)
      /\ \A i \in 1..(Len(path) - Len(root)) : below[i] = path[Len(root) + i]
      /\ DOMAIN below = 1..(Len(path) - Len(root))
  <2>1. below = SubSeq(path, Len(root) + 1, Len(path))
    BY <1>3
  <2>2. Len(root) \in 0..Len(path)
    BY ONLY <1>3, path \in Seq(Components)
  <2> QED BY <2>1, <2>2, Below
<1> DEFINE segments == [i \in DOMAIN below |-> NsSegment[below[i]]]
<1>5. segments = Segments(path, root)
  <2>1. \A i \in 1..(Len(path) - Len(root)) : NsSegment[below[i]] = NsSegment[path[Len(root) + i]]
    BY <1>4
  <2> QED BY <1>4, <2>1 DEF Segments
<1>6. below = <<>> <=> Len(path) = Len(root)
  <2>1. below = <<>> => Len(below) = 0
    OBVIOUS
  <2>2. Len(below) = 0 => below = <<>>
    BY ONLY <1>4
  <2> QED BY <1>3, <1>4, <2>1, <2>2
<1>7. NoSegment \in ToSet(segments) <=> \E i \in DOMAIN segments : segments[i] = NoSegment
  BY DEF ToSet
<1>8. NsForPath(path, roots) =
        IF below = <<>> \/ NoSegment \in ToSet(segments) \/ segments \in Literals THEN <<>> ELSE segments
  <2> HIDE <1>7
  <2> QED BY <1>1 DEF NsForPath
<1> HIDE DEF segments
<1> QED BY <1>5, <1>6, <1>7, <1>8

Spelled == {NsSegment[c] : c \in Components}

LEMMA SegmentsAre ==
  ASSUME NEW path \in Seq(Components), NEW root \in Seq(Components), Len(root) <= Len(path)
  PROVE  /\ Segments(path, root) \in Seq(Spelled) /\ Len(Segments(path, root)) = Len(path) - Len(root)
         /\ DOMAIN Segments(path, root) = 1..(Len(path) - Len(root))
<1>1. \A i \in 1..(Len(path) - Len(root)) : NsSegment[path[Len(root) + i]] \in Spelled
  BY DEF Spelled
<1>2. Len(path) - Len(root) \in Nat
  OBVIOUS
<1> QED BY <1>1, <1>2 DEF Segments

\* The namespace of an owned path, as ns_for_path has it.
NsOf(ps, path) == NsForPath(path, SourcePaths(Owner(ps, path)))

\* It is the one that the convention names.
LEMMA NsIsNamed ==
  ASSUME NEW ps, ProjectList(ps), NEW path \in Seq(Components), Owned(ps, path), NsOf(ps, path) # <<>>
  PROVE  NsOf(ps, path) \in Seq(Spelled) /\ Names(NsOf(ps, path), path, ps)
<1> PICK p : p = Owner(ps, path)
  OBVIOUS
<1>1. /\ p \in ToSet(ps) /\ Holds(p.dir, path)
      /\ \A q \in ToSet(ps) : Holds(q.dir, path) => Len(q.dir) <= Len(p.dir)
  BY OwnerIs
<1>2. SourcePaths(p) \subseteq Seq(Components)
  BY <1>1, ProjectListIs, RootsAre
<1> DEFINE holding == {r \in SourcePaths(p) : Holds(r, path)}
<1>3. holding # {}
  BY DEF NsOf, NsForPath
<1> PICK root : root = Longest(holding)
  OBVIOUS
<1>4. root \in holding /\ \A r \in holding : Len(r) <= Len(root)
  <2>1. holding \subseteq Seq(Components) /\ \A r \in holding : Holds(r, path)
    BY <1>2
  <2> HIDE DEF holding
  <2> QED BY <1>3, <2>1, LongestIs
<1>5. root \in SourcePaths(p) /\ root \in Seq(Components) /\ Holds(root, path)
      /\ \A r \in SourcePaths(p) : Holds(r, path) => Len(r) <= Len(root)
  BY <1>2, <1>4
<1> HIDE DEF holding
<1> PICK ns : ns = Segments(path, root)
  OBVIOUS
<1>6. /\ NsOf(ps, path) = ns /\ Len(path) # Len(root) /\ ns \notin Literals
      /\ \A i \in DOMAIN ns : ns[i] # NoSegment
  <2>1. NsForPath(path, SourcePaths(p)) =
          IF \/ Len(path) = Len(root) \/ \E i \in DOMAIN Segments(path, root) : Segments(path, root)[i] = NoSegment
             \/ Segments(path, root) \in Literals
          THEN <<>> ELSE Segments(path, root)
    BY <1>2, <1>5, NsForPathIs
  <2> QED BY <2>1 DEF NsOf
<1>7. Len(root) <= Len(path)
  BY <1>5, HoldsIs
<1>8. ns \in Seq(Spelled) /\ Len(ns) = Len(path) - Len(root) /\ DOMAIN ns = 1..(Len(path) - Len(root))
  BY <1>5, <1>7, SegmentsAre
<1>9. Len(path) = Len(root) + Len(ns)
  BY <1>5, <1>8
<1>10. \A i \in DOMAIN ns : ns[i] # NoSegment /\ ns[i] = NsSegment[path[Len(root) + i]]
  BY <1>6, <1>8 DEF Segments
<1>11. Names(ns, path, ps)
  BY <1>1, <1>5, <1>6, <1>9, <1>10 DEF Names, NamesBelow
<1> QED BY <1>6, <1>8, <1>11

\* A path that the convention names a namespace for is owned, and ns_for_path
\* finds one.
LEMMA NamedIsFound ==
  ASSUME NEW ps, ProjectList(ps), NEW path \in Seq(Components),
         NEW root \in Seq(Components), NEW n \in 1..Len(path), Len(root) + n = Len(path),
         Names([i \in 1..n |-> NsSegment[path[Len(root) + i]]], path, ps)
  PROVE  Owned(ps, path) /\ NsOf(ps, path) # <<>>
<1> PICK ns : ns = [i \in 1..n |-> NsSegment[path[Len(root) + i]]]
  OBVIOUS
<1>0. PICK p \in ToSet(ps) : \E r \in SourcePaths(p) : NamesBelow(ns, path, ps, p, r)
  BY DEF Names
<1>1. PICK r \in SourcePaths(p) :
        /\ Len(path) = Len(r) + Len(ns) /\ Holds(r, path)
        /\ \A i \in DOMAIN ns : ns[i] # NoSegment /\ ns[i] = NsSegment[path[Len(r) + i]]
        /\ ns \notin Literals
        /\ \A q \in ToSet(ps) : Holds(q.dir, path) => Len(q.dir) <= Len(p.dir)
        /\ \A other \in SourcePaths(p) : Holds(other, path) => Len(other) <= Len(r)
  BY <1>0 DEF NamesBelow
<1>2. p.dir \in Seq(Components) /\ p.declared \subseteq Seq(Components)
  BY <1>1, ProjectListIs
<1>3. SourcePaths(p) \subseteq Seq(Components) /\ r \in Seq(Components) /\ Holds(p.dir, path)
  BY <1>1, <1>2, RootsAre
<1>4. Owned(ps, path)
  BY <1>1, <1>3 DEF Owned
<1>5. Owner(ps, path) = p
  <2> PICK o : o = Owner(ps, path)
    OBVIOUS
  <2>1. /\ o \in ToSet(ps) /\ Holds(o.dir, path)
        /\ \A q \in ToSet(ps) : Holds(q.dir, path) => Len(q.dir) <= Len(o.dir)
    BY <1>4, OwnerIs
  <2>2. o.dir \in Seq(Components)
    BY <2>1, ProjectListIs
  <2>3. Len(o.dir) = Len(p.dir)
    BY <1>1, <1>2, <1>3, <2>1, <2>2
  <2>4. o.dir = p.dir
    BY <1>2, <1>3, <2>1, <2>2, <2>3, SamePrefix
  <2> QED BY <1>1, <2>1, <2>4, ProjectListIs
<1>6. Len(r) = Len(root) /\ Len(r) <= Len(path) /\ Len(path) # Len(r) /\ Len(path) - Len(r) = n /\ Len(ns) = n
  <2>1. n \in Nat /\ \A i \in 1..n : path[Len(root) + i] \in Components
    OBVIOUS
  <2>2. \A i \in 1..n : NsSegment[path[Len(root) + i]] \in Spelled
    BY <2>1 DEF Spelled
  <2>3. ns \in Seq(Spelled) /\ Len(ns) = n
    BY <2>1, <2>2
  <2> QED BY <1>1, <1>3, <2>3
<1>7. Segments(path, r) = ns /\ DOMAIN ns = 1..n
  BY <1>6 DEF Segments
<1>8. NsForPath(path, SourcePaths(p)) =
        IF \/ Len(path) = Len(r) \/ \E i \in DOMAIN Segments(path, r) : Segments(path, r)[i] = NoSegment
           \/ Segments(path, r) \in Literals
        THEN <<>> ELSE Segments(path, r)
  BY <1>1, <1>3, NsForPathIs
<1>9. NsForPath(path, SourcePaths(p)) = ns /\ ns # <<>>
  <2>1. Len(<<>>) = 0
    OBVIOUS
  <2>2. ns # <<>>
    <3>1. n # 0
      OBVIOUS
    <3> QED BY ONLY <1>6, <2>1, <3>1
  <2>3. ~(\E i \in DOMAIN ns : ns[i] = NoSegment) /\ ns \notin Literals
    BY <1>1
  <2> QED BY <1>6, <1>7, <1>8, <2>2, <2>3
<1> QED BY <1>4, <1>5, <1>9 DEF NsOf

-----------------------------------------------------------------------------
(* The handlers. NewFilesGetTheirNs is not inductive: what is missing is how *)
(* far a handler is in its batch, that it has asked for every file it left   *)
(* behind that wants a namespace, and that a file nobody has touched is      *)
(* still empty when its turn comes.                                          *)

Edits  == [file : DOMAIN Path, ns : Seq(Spelled), onto : {"empty"}]
Phases == {"told", "wait", "next", "asked", "done"}

NewFilesType ==
  /\ phase \in [DOMAIN Batches -> Phases]
  /\ remaining \in [DOMAIN Batches -> Seq(DOMAIN Path)]
  /\ list \in [DOMAIN Batches -> ProjectLists \cup {<<>>}]
  /\ sent \in [DOMAIN Batches -> Seq(Edits)]
  /\ disk \in [NewFileNames -> {"empty", "text"}]
  /\ buffer \in [NewFileNames -> {"empty", "text", "closed"}]
  /\ projects \in ProjectLists \cup {<<>>}
  /\ ready => projects # <<>>

\* How many files of its batch a handler is done with, and how many it may have
\* asked for.
Looked(h) == Len(Batches[h]) - Len(remaining[h])
Reached(h) == IF phase[h] = "asked" THEN Looked(h) + 1 ELSE Looked(h)

\* What remains of a batch is its end.
RemainsTheEnd(h) ==
  /\ Len(remaining[h]) <= Len(Batches[h])
  /\ \A i \in 1..Len(remaining[h]) : remaining[h][i] = Batches[h][Looked(h) + i]

\* Every edit is of a file reached, by the name the convention gives it.
AskedRightly(h) ==
  /\ InOrder(h)
  /\ \A e \in ToSet(sent[h]) :
       /\ Names(e.ns, Path[e.file], list[h])
       /\ \E a \in 1..Reached(h) : Batches[h][a] = e.file

\* Nobody is left out.
LeftNoneBehind(h) ==
  /\ \A a \in 1..Looked(h) : Wants(h, Batches[h][a]) => Batches[h][a] \in FilesOf(h)
  /\ phase[h] = "asked" => remaining[h] # <<>> /\ Batches[h][Looked(h) + 1] \in FilesOf(h)

InItsPhase(h) ==
  /\ phase[h] \in {"told", "wait"} => sent[h] = <<>> /\ Looked(h) = 0
  /\ phase[h] \in {"next", "asked", "done"} /\ rooted /\ h \notin early => list[h] # <<>>
  /\ phase[h] = "done" /\ rooted => Looked(h) = Len(Batches[h])

HandlerInv(h) == RemainsTheEnd(h) /\ AskedRightly(h) /\ LeftNoneBehind(h) /\ InItsPhase(h)

\* A file that nobody typed into or was asked to edit is empty.
Untouched ==
  \A f \in NewFileNames \ typed :
    (\A h \in DOMAIN Batches : f \notin FilesOf(h)) => disk[f] = "empty" /\ buffer[f] \in {"closed", "empty"}

NInv == NewFilesType /\ (\A h \in DOMAIN Batches : HandlerInv(h)) /\ Untouched

LEMMA BatchesAre ==
  /\ \A h \in DOMAIN Batches : Batches[h] \in Seq(DOMAIN Path) /\ Len(Batches[h]) \in Nat
  /\ \A h \in DOMAIN Batches : \A a \in 1..Len(Batches[h]) : Batches[h][a] \in NewFileNames
  /\ NewFileNames \subseteq DOMAIN Path
  /\ \A h \in DOMAIN Batches : \A a, b \in 1..Len(Batches[h]) : Batches[h][a] = Batches[h][b] => a = b
  /\ \A g, h \in DOMAIN Batches : \A f : f \in ToSet(Batches[g]) /\ f \in ToSet(Batches[h]) => g = h
<1>1. \A h \in DOMAIN Batches : Batches[h] \in Seq(DOMAIN Path) /\ Len(Batches[h]) \in Nat
  BY NewFilesAssumption
<1>2. \A h \in DOMAIN Batches : DOMAIN Batches[h] = 1..Len(Batches[h])
  BY <1>1
<1>3. \A h \in DOMAIN Batches : \A a \in 1..Len(Batches[h]) : Batches[h][a] \in NewFileNames
  BY <1>2 DEF NewFileNames, ToSet
<1>4. NewFileNames \subseteq DOMAIN Path
  BY <1>1, <1>2 DEF NewFileNames, ToSet
<1>5. \A h \in DOMAIN Batches : \A a, b \in 1..Len(Batches[h]) : Batches[h][a] = Batches[h][b] => a = b
  BY <1>2, NewFilesAssumption DEF IsInjective
<1>6. \A g, h \in DOMAIN Batches : \A f : f \in ToSet(Batches[g]) /\ f \in ToSet(Batches[h]) => g = h
  BY NewFilesAssumption
<1> QED BY <1>1, <1>3, <1>4, <1>5, <1>6

LEMMA InitNInv == NewFilesInit => NInv
<1> SUFFICES ASSUME NewFilesInit PROVE NInv
  OBVIOUS
<1>1. NewFilesType
  <2>1. phase \in [DOMAIN Batches -> Phases]
    BY DEF NewFilesInit, Phases
  <2>2. remaining \in [DOMAIN Batches -> Seq(DOMAIN Path)]
    BY NewFilesAssumption DEF NewFilesInit
  <2>3. list \in [DOMAIN Batches -> ProjectLists \cup {<<>>}] /\ sent \in [DOMAIN Batches -> Seq(Edits)]
    BY DEF NewFilesInit
  <2>4. disk \in [NewFileNames -> {"empty", "text"}] /\ buffer \in [NewFileNames -> {"empty", "text", "closed"}]
    BY DEF NewFilesInit
  <2>5. projects \in ProjectLists \cup {<<>>} /\ (ready => projects # <<>>)
    BY DEF NewFilesInit
  <2> QED BY <2>1, <2>2, <2>3, <2>4, <2>5 DEF NewFilesType
<1>2. ASSUME NEW h \in DOMAIN Batches PROVE HandlerInv(h)
  <2>1. /\ phase[h] = "told" /\ remaining[h] = Batches[h] /\ sent[h] = <<>> /\ Len(Batches[h]) \in Nat
        /\ Looked(h) = 0
    BY BatchesAre DEF NewFilesInit, Looked
  <2>2. ToSet(sent[h]) = {} /\ FilesOf(h) = {} /\ DOMAIN sent[h] = {}
    BY <2>1 DEF ToSet, FilesOf
  <2>3. RemainsTheEnd(h)
    BY <2>1 DEF RemainsTheEnd
  <2>4. AskedRightly(h)
    BY <2>2 DEF AskedRightly, InOrder
  <2>5. LeftNoneBehind(h) /\ InItsPhase(h)
    BY <2>1 DEF LeftNoneBehind, InItsPhase
  <2> QED BY <2>3, <2>4, <2>5 DEF HandlerInv
<1>3. Untouched
  BY DEF NewFilesInit, Untouched
<1> QED BY <1>1, <1>2, <1>3 DEF NInv

\* A handler does not mind what others do, and what the user types.
LEMMA OthersInv ==
  ASSUME NEW h, HandlerInv(h),
         phase'[h] = phase[h], remaining'[h] = remaining[h], list'[h] = list[h], sent'[h] = sent[h],
         rooted' = rooted, typed \subseteq typed', early \subseteq early'
  PROVE  HandlerInv(h)'
<1>1. Looked(h)' = Looked(h) /\ FilesOf(h)' = FilesOf(h) /\ Reached(h)' = Reached(h)
  BY DEF Looked, FilesOf, Reached
<1>2. \A f : Wants(h, f)' => Wants(h, f)
  BY DEF Wants
<1>3. RemainsTheEnd(h)'
  BY <1>1 DEF HandlerInv, RemainsTheEnd
<1>4. AskedRightly(h)'
  BY <1>1 DEF HandlerInv, AskedRightly, InOrder
<1>5. LeftNoneBehind(h)'
  BY <1>1, <1>2 DEF HandlerInv, LeftNoneBehind
<1>6. InItsPhase(h)'
  BY <1>1 DEF HandlerInv, InItsPhase
<1> QED BY <1>3, <1>4, <1>5, <1>6 DEF HandlerInv

\* The list changes only before the handler has asked for anything.
ListIsSettled(h) == list'[h] = list[h] \/ (sent[h] = <<>> /\ Looked(h) = 0)

\* The handler of a step that only moves it from one phase to the next.
LEMMA MovesInv ==
  ASSUME NEW h, HandlerInv(h), remaining'[h] = remaining[h], sent'[h] = sent[h],
         typed' = typed, ListIsSettled(h),
         phase[h] # "asked", phase'[h] # "asked", InItsPhase(h)'
  PROVE  HandlerInv(h)'
<1>1. Looked(h)' = Looked(h) /\ FilesOf(h)' = FilesOf(h) /\ Reached(h)' = Reached(h)
  BY DEF Looked, FilesOf, Reached
<1>2. RemainsTheEnd(h)'
  BY <1>1 DEF HandlerInv, RemainsTheEnd
<1>3. CASE list'[h] = list[h]
  <2>1. \A f : Wants(h, f)' => Wants(h, f)
    BY <1>3 DEF Wants
  <2>2. AskedRightly(h)'
    BY <1>1, <1>3 DEF HandlerInv, AskedRightly, InOrder
  <2>3. LeftNoneBehind(h)'
    BY <1>1, <2>1 DEF HandlerInv, LeftNoneBehind
  <2> QED BY <1>2, <2>2, <2>3 DEF HandlerInv
<1>4. CASE sent[h] = <<>> /\ Looked(h) = 0
  <2>1. ToSet(sent'[h]) = {} /\ FilesOf(h)' = {} /\ DOMAIN sent'[h] = {}
    BY <1>4 DEF ToSet, FilesOf
  <2>2. AskedRightly(h)'
    BY <2>1 DEF AskedRightly, InOrder
  <2>3. LeftNoneBehind(h)'
    BY <1>1, <1>4 DEF LeftNoneBehind
  <2> QED BY <1>2, <2>2, <2>3 DEF HandlerInv
<1> QED BY <1>3, <1>4 DEF ListIsSettled

\* The head of what remains is the first file not looked at.
LEMMA HeadIs ==
  ASSUME NewFilesType, NEW h \in DOMAIN Batches, RemainsTheEnd(h), remaining[h] # <<>>
  PROVE  /\ Looked(h) \in Nat /\ Looked(h) + 1 \in 1..Len(Batches[h])
         /\ Head(remaining[h]) = Batches[h][Looked(h) + 1]
         /\ Tail(remaining[h]) \in Seq(DOMAIN Path) /\ Len(Tail(remaining[h])) = Len(remaining[h]) - 1
         /\ \A i \in 1..Len(Tail(remaining[h])) : Tail(remaining[h])[i] = remaining[h][i + 1]
<1>1. remaining[h] \in Seq(DOMAIN Path) /\ Len(Batches[h]) \in Nat
  BY BatchesAre DEF NewFilesType
<1>2. Len(remaining[h]) \in Nat /\ Len(remaining[h]) >= 1 /\ Head(remaining[h]) = remaining[h][1]
  BY <1>1
<1>3. Tail(remaining[h]) \in Seq(DOMAIN Path) /\ Len(Tail(remaining[h])) = Len(remaining[h]) - 1
      /\ \A i \in 1..Len(Tail(remaining[h])) : Tail(remaining[h])[i] = remaining[h][i + 1]
  BY <1>1, HeadTailProperties
<1>4. 1 \in 1..Len(remaining[h])
  BY <1>2
<1>5. Looked(h) \in Nat /\ Looked(h) + 1 \in 1..Len(Batches[h])
  BY <1>1, <1>2 DEF RemainsTheEnd, Looked
<1>6. Head(remaining[h]) = Batches[h][Looked(h) + 1]
  BY <1>2, <1>4 DEF RemainsTheEnd
<1> QED BY <1>3, <1>5, <1>6

\* A handler that is done with its file goes on to the next.
LEMMA AdvancesInv ==
  ASSUME NewFilesType, NEW h \in DOMAIN Batches, HandlerInv(h), remaining[h] # <<>>,
         phase[h] \in {"next", "asked"}, phase'[h] = "next", remaining'[h] = Tail(remaining[h]),
         sent'[h] = sent[h], list'[h] = list[h], typed' = typed, rooted' = rooted, early' = early,
         Wants(h, Batches[h][Looked(h) + 1]) => Batches[h][Looked(h) + 1] \in FilesOf(h)
  PROVE  HandlerInv(h)'
<1>1. /\ Looked(h) \in Nat /\ Looked(h) + 1 \in 1..Len(Batches[h])
      /\ Len(remaining'[h]) = Len(remaining[h]) - 1 /\ Len(remaining'[h]) \in Nat
      /\ \A i \in 1..Len(remaining'[h]) : remaining'[h][i] = remaining[h][i + 1]
  BY HeadIs DEF HandlerInv
<1>2. Looked(h)' = Looked(h) + 1 /\ FilesOf(h)' = FilesOf(h) /\ Reached(h)' = Looked(h) + 1
  <2>1. Len(remaining[h]) \in Nat /\ Len(Batches[h]) \in Nat
    BY BatchesAre DEF NewFilesType
  <2>2. Looked(h)' = Looked(h) + 1
    <3> PICK b, r : b = Len(Batches[h]) /\ r = Len(remaining[h])
      OBVIOUS
    <3>1. b - (r - 1) = (b - r) + 1
      BY <2>1
    <3>2. Len(remaining'[h]) = r - 1
      BY <1>1
    <3> QED BY ONLY <3>1, <3>2, b = Len(Batches[h]), r = Len(remaining[h]) DEF Looked
  <2> QED BY <2>2 DEF FilesOf, Reached
<1>3. \A f : Wants(h, f)' => Wants(h, f)
  BY DEF Wants
<1>4. RemainsTheEnd(h)'
  <2>1. Len(remaining[h]) \in Nat /\ Len(Batches[h]) \in Nat
    BY BatchesAre DEF NewFilesType
  <2>2. \A i \in 1..Len(remaining'[h]) : remaining'[h][i] = Batches[h][(Looked(h) + 1) + i]
    <3> TAKE i \in 1..Len(remaining'[h])
    <3>1. i + 1 \in 1..Len(remaining[h]) /\ Looked(h) + (i + 1) = (Looked(h) + 1) + i
      BY <1>1, <2>1
    <3> QED BY <1>1, <3>1 DEF HandlerInv, RemainsTheEnd
  <2> QED BY <1>1, <1>2, <2>1, <2>2 DEF HandlerInv, RemainsTheEnd
<1>5. AskedRightly(h)'
  <2>1. \A a \in 1..Reached(h) : a \in 1..Reached(h)'
    BY <1>1, <1>2 DEF Reached
  <2> QED BY <1>2, <2>1 DEF HandlerInv, AskedRightly, InOrder
<1>6. LeftNoneBehind(h)'
  <2>1. \A a \in 1..(Looked(h) + 1) : a \in 1..Looked(h) \/ a = Looked(h) + 1
    BY <1>1
  <2> QED BY <1>2, <1>3, <2>1 DEF HandlerInv, LeftNoneBehind
<1>7. InItsPhase(h)'
  BY DEF HandlerInv, InItsPhase
<1> QED BY <1>4, <1>5, <1>6, <1>7 DEF HandlerInv

\* A handler that asks for an edit asks for the file at hand.
LEMMA AsksInv ==
  ASSUME NewFilesType, NEW h \in DOMAIN Batches, HandlerInv(h), remaining[h] # <<>>,
         NEW e \in Edits, e.file = Head(remaining[h]), Names(e.ns, Path[e.file], list[h]),
         phase[h] = "next", phase'[h] = "asked", remaining'[h] = remaining[h],
         sent'[h] = Append(sent[h], e), list'[h] = list[h], typed' = typed, rooted' = rooted, early' = early
  PROVE  HandlerInv(h)'
<1>1. /\ Looked(h) \in Nat /\ Looked(h) + 1 \in 1..Len(Batches[h])
      /\ e.file = Batches[h][Looked(h) + 1]
  BY HeadIs DEF HandlerInv
<1> PICK s, n : s = sent[h] /\ n = Len(sent[h])
  OBVIOUS
<1>2. s \in Seq(Edits) /\ n \in Nat /\ n = Len(s) /\ DOMAIN s = 1..n
  BY DEF NewFilesType
<1>3. /\ DOMAIN sent'[h] = 1..(n + 1) /\ sent'[h][n + 1] = e
      /\ \A i \in 1..n : sent'[h][i] = s[i]
  BY <1>2
<1>4. ToSet(sent'[h]) = ToSet(s) \cup {e}
  BY <1>2, <1>3 DEF ToSet
<1>5. Looked(h)' = Looked(h) /\ Reached(h)' = Looked(h) + 1 /\ FilesOf(h)' = FilesOf(h) \cup {e.file}
  BY <1>4 DEF Looked, Reached, FilesOf
<1>6. RemainsTheEnd(h)'
  BY <1>5 DEF HandlerInv, RemainsTheEnd
<1>7. \A i \in 1..n : s[i] \in ToSet(s) /\ \E a \in 1..Looked(h) : Batches[h][a] = s[i].file
  <2>1. \A i \in 1..n : s[i] \in ToSet(s)
    BY <1>2 DEF ToSet
  <2> QED BY <2>1 DEF HandlerInv, AskedRightly, Reached
<1>8. DOMAIN Batches[h] = 1..Len(Batches[h])
  BY BatchesAre
<1>9. InOrder(h)'
  <2>1. FilesOf(h)' \subseteq ToSet(Batches[h])
    BY <1>1, <1>5, <1>8 DEF HandlerInv, AskedRightly, InOrder, ToSet
  <2>2. ASSUME NEW i \in 1..(n + 1), NEW j \in 1..(n + 1), i < j
        PROVE  \E a, b \in DOMAIN Batches[h] :
                 a < b /\ Batches[h][a] = sent'[h][i].file /\ Batches[h][b] = sent'[h][j].file
    <3>1. i \in 1..n
      BY <1>2, <2>2
    <3>2. CASE j \in 1..n
      BY <1>2, <1>3, <2>2, <3>1, <3>2 DEF HandlerInv, AskedRightly, InOrder
    <3>3. CASE j = n + 1
      <4>1. PICK a \in 1..Looked(h) : Batches[h][a] = s[i].file
        BY <1>7, <3>1
      <4>2. a \in DOMAIN Batches[h] /\ Looked(h) + 1 \in DOMAIN Batches[h] /\ a < Looked(h) + 1
        BY <1>1, <1>8, <4>1
      <4> QED BY <1>1, <1>3, <3>1, <3>3, <4>1, <4>2
    <3> QED BY <1>2, <3>2, <3>3
  <2> QED BY <1>3, <2>1, <2>2 DEF InOrder
<1>10. AskedRightly(h)'
  <2>1. \A x \in ToSet(s) : Names(x.ns, Path[x.file], list[h]) /\ \E a \in 1..(Looked(h) + 1) : Batches[h][a] = x.file
    <3>1. \A a \in 1..Looked(h) : a \in 1..(Looked(h) + 1)
      BY <1>1
    <3> QED BY <3>1 DEF HandlerInv, AskedRightly, Reached
  <2>2. Looked(h) + 1 \in 1..(Looked(h) + 1)
    BY <1>1
  <2>3. \A x \in ToSet(sent'[h]) :
          Names(x.ns, Path[x.file], list[h]) /\ \E a \in 1..(Looked(h) + 1) : Batches[h][a] = x.file
    BY <1>1, <1>4, <2>1, <2>2
  <2>4. \A ns, path : Names(ns, path, list[h]) => Names(ns, path, list[h])'
    BY DEF Names, NamesBelow
  <2> QED BY <1>5, <1>9, <2>3, <2>4 DEF AskedRightly
<1>11. LeftNoneBehind(h)'
  <2>1. \A f : Wants(h, f)' => Wants(h, f)
    BY DEF Wants
  <2> QED BY <1>1, <1>5, <2>1 DEF HandlerInv, LeftNoneBehind
<1>12. InItsPhase(h)'
  BY DEF HandlerInv, InItsPhase
<1> QED BY <1>6, <1>10, <1>11, <1>12 DEF HandlerInv

\* A file at hand that wants a namespace is one that ns_for_new_file finds one
\* for: nobody else asks for it, and nobody typed into it.
LEMMA WantedIsFound ==
  ASSUME NInv, NEW h \in DOMAIN Batches, phase[h] = "next", remaining[h] # <<>>,
         Wants(h, Head(remaining[h]))
  PROVE  NsForNewFile(list[h], Head(remaining[h])) # <<>>
<1> PICK f : f = Head(remaining[h])
  OBVIOUS
<1>1. /\ Looked(h) \in Nat /\ Looked(h) + 1 \in 1..Len(Batches[h]) /\ f = Batches[h][Looked(h) + 1]
  BY HeadIs DEF NInv, HandlerInv
<1>2. DOMAIN Batches[h] = 1..Len(Batches[h]) /\ f \in NewFileNames /\ f \in ToSet(Batches[h])
      /\ Path[f] \in Seq(Components)
  BY <1>1, BatchesAre, NewFilesAssumption DEF ToSet
<1>3. \A g \in DOMAIN Batches : f \notin FilesOf(g)
  <2> SUFFICES ASSUME NEW g \in DOMAIN Batches, f \in FilesOf(g) PROVE FALSE
    OBVIOUS
  <2>1. f \in ToSet(Batches[g])
    BY DEF NInv, HandlerInv, AskedRightly, InOrder
  <2>2. g = h
    BY <1>2, <2>1, BatchesAre
  <2>3. PICK a \in 1..Looked(h) : Batches[h][a] = f
    BY <2>2 DEF NInv, HandlerInv, AskedRightly, Reached, FilesOf
  <2>4. a \in 1..Len(Batches[h]) /\ a # Looked(h) + 1
    BY <1>1, BatchesAre
  <2> QED BY <1>1, <2>3, <2>4, BatchesAre
<1>4. f \in Clojure /\ f \notin typed
  BY DEF Wants
<1>5. TextOf(f) = "empty"
  BY <1>2, <1>3, <1>4 DEF NInv, Untouched, TextOf
<1>6. ProjectList(list[h])
  BY DEF NInv, NewFilesType, ProjectList
<1>7. PICK p \in ToSet(list[h]) : \E root \in SourcePaths(p) : \E n \in 1..Len(Path[f]) :
        /\ Len(root) + n = Len(Path[f])
        /\ Names([i \in 1..n |-> NsSegment[Path[f][Len(root) + i]]], Path[f], list[h])
  BY DEF Wants
<1>8. SourcePaths(p) \subseteq Seq(Components)
  BY <1>2, <1>6, ProjectListIs, RootsAre
<1>9. Owned(list[h], Path[f]) /\ NsOf(list[h], Path[f]) # <<>>
  BY <1>2, <1>6, <1>7, <1>8, NamedIsFound
<1> QED BY <1>4, <1>5, <1>9 DEF NsForNewFile, NsOf

\* What ns_for_new_file finds is the name that the convention gives an empty file.
LEMMA FoundIsNamed ==
  ASSUME NInv, NEW h \in DOMAIN Batches, NEW f \in NewFileNames, NsForNewFile(list[h], f) # <<>>
  PROVE  /\ NsForNewFile(list[h], f) \in Seq(Spelled) /\ TextOf(f) = "empty"
         /\ Names(NsForNewFile(list[h], f), Path[f], list[h])
<1>1. TextOf(f) = "empty" /\ Owned(list[h], Path[f]) /\ NsForNewFile(list[h], f) = NsOf(list[h], Path[f])
  BY DEF NsForNewFile, NsOf
<1>2. ProjectList(list[h]) /\ Path[f] \in Seq(Components)
  BY BatchesAre, NewFilesAssumption DEF NInv, NewFilesType, ProjectList
<1> QED BY <1>1, <1>2, NsIsNamed

\* Neither a handler nor the editor gives a file that nobody has touched a text.
UntouchedStays ==
  typed \subseteq typed' /\ disk' = disk /\ buffer' = buffer
  /\ \A h \in DOMAIN Batches : FilesOf(h) \subseteq FilesOf(h)'

LEMMA UntouchedInv == Untouched /\ UntouchedStays => Untouched'
BY DEF Untouched, UntouchedStays

LEMMA HandlerKeeps ==
  ASSUME NInv, NEW h \in DOMAIN Batches,
         DidCreateFiles(h) \/ TakeList(h) \/ TimeOut(h) \/ NextFile(h) \/ EditAnswered(h) \/ Done(h)
  PROVE  NInv'
<1>1. NewFilesType /\ HandlerInv(h) /\ Untouched /\ rooted' = rooted /\ typed' = typed
      /\ early \subseteq early' /\ disk' = disk /\ projects' = projects /\ ready' = ready
  BY DEF NInv, DidCreateFiles, TakeList, TimeOut, NextFile, EditAnswered, Done
<1>2. phase[h] \in Phases /\ remaining[h] \in Seq(DOMAIN Path) /\ sent[h] \in Seq(Edits)
  BY <1>1 DEF NewFilesType
<1>3. CASE DidCreateFiles(h)
  <2>1. NewFilesType'
    BY <1>1, <1>3 DEF DidCreateFiles, Step, NewFilesType, Phases
  <2>2. InItsPhase(h)'
    BY <1>1, <1>3 DEF DidCreateFiles, Step, InItsPhase, HandlerInv, NewFilesType, Looked
  <2>3. HandlerInv(h)'
    <3>1. /\ phase[h] # "asked" /\ phase'[h] # "asked" /\ list'[h] = list[h]
          /\ remaining'[h] = remaining[h] /\ sent'[h] = sent[h]
      BY <1>1, <1>3 DEF DidCreateFiles, Step, NewFilesType
    <3>2. ListIsSettled(h) /\ HandlerInv(h) /\ typed' = typed
      BY <1>1, <3>1 DEF ListIsSettled
    <3> QED BY <2>2, <3>1, <3>2, MovesInv
  <2>4. \A g \in DOMAIN Batches \ {h} : HandlerInv(g)'
    BY <1>1, <1>3, OthersInv DEF DidCreateFiles, Step, NInv
  <2>5. Untouched'
    BY <1>1, <1>3, UntouchedInv DEF DidCreateFiles, UntouchedStays, FilesOf
  <2> QED BY <2>1, <2>3, <2>4, <2>5 DEF NInv
<1>4. CASE TakeList(h) \/ TimeOut(h)
  <2>1. /\ phase[h] = "wait" /\ phase' = [phase EXCEPT ![h] = "next"]
        /\ list' = [list EXCEPT ![h] = projects] /\ buffer' = buffer
        /\ remaining' = remaining /\ sent' = sent /\ (ready \/ h \in early')
    BY <1>4 DEF TakeList, TimeOut, Step, WaitOver
  <2>2. NewFilesType'
    BY <1>1, <2>1 DEF NewFilesType, Phases
  <2>3. sent[h] = <<>> /\ Looked(h) = 0 /\ phase'[h] = "next" /\ list'[h] = projects
    BY <1>1, <2>1 DEF HandlerInv, InItsPhase, NewFilesType
  <2>4. InItsPhase(h)'
    BY <1>1, <2>1, <2>3 DEF InItsPhase, NewFilesType
  <2>5. HandlerInv(h)'
    <3>1. ListIsSettled(h) /\ HandlerInv(h) /\ typed' = typed /\ sent'[h] = sent[h] /\ remaining'[h] = remaining[h]
      BY <1>1, <2>1, <2>3 DEF ListIsSettled
    <3> QED BY <2>1, <2>3, <2>4, <3>1, MovesInv
  <2>6. \A g \in DOMAIN Batches \ {h} : HandlerInv(g)'
    BY <1>1, <2>1, OthersInv DEF NInv
  <2>7. Untouched'
    BY <1>1, <2>1, UntouchedInv DEF UntouchedStays, FilesOf
  <2> QED BY <2>2, <2>5, <2>6, <2>7 DEF NInv
<1>5. CASE NextFile(h)
  <2> PICK f, ns : f = Head(remaining[h]) /\ ns = NsForNewFile(list[h], f)
    OBVIOUS
  <2>1. /\ phase[h] = "next" /\ remaining[h] # <<>> /\ list' = list /\ early' = early /\ buffer' = buffer
    BY <1>5 DEF NextFile
  <2>2. /\ Looked(h) + 1 \in 1..Len(Batches[h]) /\ f = Batches[h][Looked(h) + 1] /\ f \in NewFileNames
        /\ Tail(remaining[h]) \in Seq(DOMAIN Path)
    BY <1>1, <2>1, HeadIs, BatchesAre DEF HandlerInv
  <2>3. CASE ns = <<>>
    <3>1. remaining' = [remaining EXCEPT ![h] = Tail(remaining[h])] /\ phase' = phase /\ sent' = sent
      BY <1>5, <2>3 DEF NextFile
    <3>2. ~Wants(h, f)
      BY <2>1, <2>3, WantedIsFound
    <3>3. NewFilesType'
      BY <1>1, <2>1, <2>2, <3>1 DEF NewFilesType
    <3>4. HandlerInv(h)'
      BY <1>1, <2>1, <2>2, <3>1, <3>2, AdvancesInv DEF NewFilesType
    <3>5. \A g \in DOMAIN Batches \ {h} : HandlerInv(g)'
      BY <1>1, <2>1, <3>1, OthersInv DEF NInv, NewFilesType
    <3>6. Untouched'
      BY <1>1, <2>1, <3>1, UntouchedInv DEF UntouchedStays, FilesOf
    <3> QED BY <3>3, <3>4, <3>5, <3>6 DEF NInv
  <2>4. CASE ns # <<>>
    <3> PICK e : e = [file |-> f, ns |-> ns, onto |-> TextOf(f)]
      OBVIOUS
    <3>1. /\ sent' = [sent EXCEPT ![h] = Append(sent[h], e)]
          /\ phase' = [phase EXCEPT ![h] = "asked"] /\ remaining' = remaining
      BY <1>5, <2>4 DEF NextFile, Step
    <3>2. e \in Edits /\ e.file = f /\ Names(e.ns, Path[f], list[h])
      BY <2>2, <2>4, FoundIsNamed, BatchesAre DEF Edits
    <3>3. NewFilesType'
      <4>1. Append(sent[h], e) \in Seq(Edits)
        BY <1>2, <3>2
      <4> QED BY <1>1, <2>1, <3>1, <4>1 DEF NewFilesType, Phases
    <3>4. HandlerInv(h)'
      <4>1. phase'[h] = "asked" /\ sent'[h] = Append(sent[h], e)
        BY <1>1, <3>1 DEF NewFilesType
      <4> QED BY <1>1, <2>1, <3>1, <3>2, <4>1, AsksInv
    <3>5. \A g \in DOMAIN Batches \ {h} : HandlerInv(g)'
      BY <1>1, <2>1, <3>1, OthersInv DEF NInv
    <3>6. Untouched'
      <4>1. \A g \in DOMAIN Batches : ToSet(sent[g]) \subseteq ToSet(sent'[g])
        <5>1. ToSet(sent[h]) \subseteq ToSet(Append(sent[h], e))
          BY <1>2 DEF ToSet
        <5> QED BY <1>1, <3>1, <5>1 DEF NewFilesType
      <4> QED BY <1>1, <2>1, <4>1, UntouchedInv DEF UntouchedStays, FilesOf
    <3> QED BY <3>3, <3>4, <3>5, <3>6 DEF NInv
  <2> QED BY <2>3, <2>4
<1>6. CASE EditAnswered(h)
  <2> PICK f : f = Head(remaining[h])
    OBVIOUS
  <2>1. /\ phase[h] = "asked" /\ phase' = [phase EXCEPT ![h] = "next"] /\ list' = list /\ early' = early
        /\ remaining' = [remaining EXCEPT ![h] = Tail(remaining[h])] /\ sent' = sent
        /\ (buffer' = buffer \/ buffer' = [buffer EXCEPT ![f] = "text"])
    BY <1>6 DEF EditAnswered, Step
  <2>2. remaining[h] # <<>> /\ Batches[h][Looked(h) + 1] \in FilesOf(h)
    BY <1>1, <2>1 DEF HandlerInv, LeftNoneBehind
  <2>3. f = Batches[h][Looked(h) + 1] /\ f \in NewFileNames /\ Tail(remaining[h]) \in Seq(DOMAIN Path)
    BY <1>1, <2>2, HeadIs, BatchesAre DEF HandlerInv
  <2>4. NewFilesType'
    BY <1>1, <2>1, <2>3 DEF NewFilesType, Phases
  <2>5. HandlerInv(h)'
    BY <1>1, <2>1, <2>2, AdvancesInv DEF NewFilesType
  <2>6. \A g \in DOMAIN Batches \ {h} : HandlerInv(g)'
    BY <1>1, <2>1, OthersInv DEF NInv, NewFilesType
  <2>7. Untouched'
    BY <1>1, <2>1, <2>2, <2>3 DEF Untouched, FilesOf, NewFilesType
  <2> QED BY <2>4, <2>5, <2>6, <2>7 DEF NInv
<1>7. CASE Done(h)
  <2>1. /\ phase[h] = "next" /\ remaining[h] = <<>> /\ phase' = [phase EXCEPT ![h] = "done"]
        /\ list' = list /\ early' = early /\ remaining' = remaining /\ sent' = sent /\ buffer' = buffer
    BY <1>7 DEF Done, Step
  <2>2. NewFilesType'
    BY <1>1, <2>1 DEF NewFilesType, Phases
  <2>3. Looked(h)' = Len(Batches[h]) /\ phase'[h] = "done"
    BY <1>1, <2>1, BatchesAre DEF Looked, NewFilesType
  <2>4. InItsPhase(h)'
    BY <1>1, <2>1, <2>3 DEF HandlerInv, InItsPhase
  <2>5. HandlerInv(h)'
    <3>1. /\ phase[h] # "asked" /\ phase'[h] # "asked" /\ list'[h] = list[h]
          /\ remaining'[h] = remaining[h] /\ sent'[h] = sent[h]
      BY <2>1, <2>3
    <3>2. ListIsSettled(h) /\ HandlerInv(h) /\ typed' = typed
      BY <1>1, <3>1 DEF ListIsSettled
    <3> QED BY <2>4, <3>1, <3>2, MovesInv
  <2>6. \A g \in DOMAIN Batches \ {h} : HandlerInv(g)'
    BY <1>1, <2>1, OthersInv DEF NInv, NewFilesType
  <2>7. Untouched'
    BY <1>1, <2>1, UntouchedInv DEF UntouchedStays, FilesOf
  <2> QED BY <2>2, <2>5, <2>6, <2>7 DEF NInv
<1> QED BY <1>3, <1>4, <1>5, <1>6, <1>7

LEMMA NextNInv == NInv /\ [NewFilesNext]_newFileVars => NInv'
<1> SUFFICES ASSUME NInv, [NewFilesNext]_newFileVars PROVE NInv'
  OBVIOUS
<1>1. ASSUME NEW h \in DOMAIN Batches,
             DidCreateFiles(h) \/ TakeList(h) \/ TimeOut(h) \/ NextFile(h) \/ EditAnswered(h) \/ Done(h)
      PROVE  NInv'
  BY <1>1, HandlerKeeps
<1>2. ASSUME UNCHANGED <<rooted, phase, remaining, list, sent, early>>, typed \subseteq typed',
             NewFilesType', Untouched'
      PROVE  NInv'
  BY <1>2, OthersInv DEF NInv
<1>3. CASE Detect \/ SendReady \/ Reconfigure \/ UNCHANGED newFileVars
  <2>1. /\ UNCHANGED <<rooted, phase, remaining, list, sent, early, typed, disk, buffer>>
        /\ projects' \in ProjectLists \cup {<<>>}
        /\ (ready' => projects' # <<>>)
    BY <1>3, NewFilesAssumption DEF Detect, SendReady, Reconfigure, newFileVars, NInv, NewFilesType
  <2>2. NewFilesType'
    BY <2>1 DEF NInv, NewFilesType
  <2>3. Untouched'
    BY <2>1, UntouchedInv DEF NInv, UntouchedStays, FilesOf
  <2> QED BY <1>2, <2>1, <2>2, <2>3
<1>4. ASSUME NEW f \in NewFileNames, OpenNew(f) \/ TypeInto(f) \/ SaveNew(f) \/ CloseNew(f) PROVE NInv'
  <2>1. UNCHANGED <<rooted, projects, ready, phase, remaining, list, sent, early>> /\ typed \subseteq typed'
    BY <1>4 DEF OpenNew, TypeInto, SaveNew, CloseNew, UserStep
  <2>2. NewFilesType /\ Untouched /\ \A h : FilesOf(h)' = FilesOf(h)
    BY <2>1 DEF NInv, FilesOf
  <2>3. CASE OpenNew(f)
    <3>1. NewFilesType' /\ Untouched'
      BY <2>1, <2>2, <2>3 DEF OpenNew, NewFilesType, Untouched
    <3> QED BY <1>2, <2>1, <3>1
  <2>4. CASE TypeInto(f)
    <3>1. NewFilesType' /\ Untouched'
      BY <2>1, <2>2, <2>4 DEF TypeInto, NewFilesType, Untouched
    <3> QED BY <1>2, <2>1, <3>1
  <2>5. CASE SaveNew(f)
    <3>1. NewFilesType' /\ Untouched'
      BY <2>1, <2>2, <2>5 DEF SaveNew, NewFilesType, Untouched
    <3> QED BY <1>2, <2>1, <3>1
  <2>6. CASE CloseNew(f)
    <3>1. NewFilesType' /\ Untouched'
      BY <2>1, <2>2, <2>6 DEF CloseNew, NewFilesType, Untouched
    <3> QED BY <1>2, <2>1, <3>1
  <2> QED BY <1>4, <2>3, <2>4, <2>5, <2>6
<1> QED BY <1>1, <1>3, <1>4 DEF NewFilesNext

\* Every new file that stays empty gets the ns form its path asks for, once and
\* in the client's order; one with a text gets none (did_create_files in
\* server.rs and ns_for_path in handlers/new_file.rs).
THEOREM NewFilesAreNamed == NewFilesSpec => []NewFilesGetTheirNs
<1>1. NInv => NewFilesGetTheirNs
  <2> SUFFICES ASSUME NInv, NEW h \in DOMAIN Batches
               PROVE  /\ InOrder(h)
                      /\ \A e \in ToSet(sent[h]) : e.onto = "empty" /\ Names(e.ns, Path[e.file], list[h])
                      /\ phase[h] = "done" /\ rooted /\ h \notin early =>
                           /\ list[h] # <<>>
                           /\ \A f \in ToSet(Batches[h]) : Wants(h, f) => f \in FilesOf(h)
    BY DEF NewFilesGetTheirNs
  <2>1. HandlerInv(h)
    BY DEF NInv
  <2>2. \A e \in ToSet(sent[h]) : e.onto = "empty" /\ Names(e.ns, Path[e.file], list[h])
    <3>1. \A e \in ToSet(sent[h]) : e \in Edits
      BY DEF NInv, NewFilesType, ToSet
    <3> QED BY <2>1, <3>1 DEF HandlerInv, AskedRightly, Edits
  <2>3. InOrder(h)
    BY <2>1 DEF HandlerInv, AskedRightly
  <2>4. ASSUME phase[h] = "done", rooted, h \notin early
        PROVE  list[h] # <<>> /\ \A f \in ToSet(Batches[h]) : Wants(h, f) => f \in FilesOf(h)
    <3>1. list[h] # <<>> /\ Looked(h) = Len(Batches[h])
      BY <2>1, <2>4 DEF HandlerInv, InItsPhase
    <3>2. \A f \in ToSet(Batches[h]) : \E a \in 1..Looked(h) : Batches[h][a] = f
      <4>1. DOMAIN Batches[h] = 1..Len(Batches[h])
        BY BatchesAre
      <4> QED BY <3>1, <4>1 DEF ToSet
    <3> QED BY <2>1, <3>1, <3>2 DEF HandlerInv, LeftNoneBehind
  <2> QED BY <2>2, <2>3, <2>4
<1> QED BY <1>1, InitNInv, NextNInv, PTL DEF NewFilesSpec

-----------------------------------------------------------------------------
(***************************************************************************)
(* The cache of a JAR.  HitIsMiss says that a start from the cache answers *)
(* like one without it.  The proof has two halves.  The protocol: what a   *)
(* hit hands out is the JAR as it is, read by this version, flattened and  *)
(* grouped again.  And the data: the insertions that the index makes of    *)
(* the lists, flattened and grouped, leave the same slots as those it      *)
(* makes of the lists as they were read.                                   *)
(***************************************************************************)
(* Flattened sequences. *)

\* Induction up to n, of a set in place of a predicate.
LEMMA UpTo ==
  ASSUME NEW n \in Nat, NEW T, 0 \in T, \A i \in 0..n : i \in T /\ i + 1 \in 0..n => i + 1 \in T
  PROVE  \A i \in 0..n : i \in T
<1> DEFINE Missing == {i \in 0..n : i \notin T}
<1>1. SUFFICES ASSUME Missing # {} PROVE FALSE
  OBVIOUS
<1>2. Missing \subseteq Nat
  OBVIOUS
<1>3. PICK i \in Missing : \A j \in Missing : ~(j < i)
  <2> HIDE DEF Missing
  <2> QED BY <1>1, <1>2, LeastNat
<1>4. i \in 0..n /\ i \notin T /\ i # 0
  BY <1>3
<1>5. i - 1 \in 0..n /\ i - 1 < i /\ (i - 1) + 1 = i
  BY <1>4
<1>6. i - 1 \in T
  BY <1>3, <1>5
<1> QED BY <1>4, <1>5, <1>6

-----------------------------------------------------------------------------
(* What FlattenSeq makes of a sequence of sequences. *)

\* f is the function FlattenSeq chooses, as far as k.
IsFlat(f, p, k) == f = [i \in 1..k |-> IF i = 1 THEN p[i] ELSE f[i - 1] \o p[i]]

LEMMA FlatExists ==
  ASSUME NEW p, NEW n \in Nat
  PROVE  \E f : IsFlat(f, p, n)
<1> DEFINE T == {k \in 0..n : \E f : IsFlat(f, p, k)}
<1>1. 0 \in T
  <2>1. IsFlat([i \in 1..0 |-> p[i]], p, 0)
    BY DEF IsFlat
  <2> QED BY <2>1
<1>2. ASSUME NEW k \in 0..n, k \in T, k + 1 \in 0..n PROVE k + 1 \in T
  <2>1. PICK f : IsFlat(f, p, k)
    BY <1>2
  <2> DEFINE g == [i \in 1..(k + 1) |-> IF i = 1 THEN p[i] ELSE IF i = k + 1 THEN f[k] \o p[i] ELSE f[i]]
  <2>2. \A i \in 1..k : f[i] = IF i = 1 THEN p[i] ELSE f[i - 1] \o p[i]
    BY <2>1 DEF IsFlat
  <2>3. \A i \in 1..k : g[i] = f[i]
    BY <2>2
  <2>4. \A i \in 1..(k + 1) : g[i] = IF i = 1 THEN p[i] ELSE g[i - 1] \o p[i]
    <3> TAKE i \in 1..(k + 1)
    <3>1. CASE i = 1
      BY <3>1
    <3>2. CASE i # 1 /\ i = k + 1
      <4>1. k \in 1..k /\ i - 1 = k
        BY <3>2
      <4> QED BY <2>3, <3>2, <4>1
    <3>3. CASE i # 1 /\ i # k + 1
      <4>1. i \in 1..k /\ i - 1 \in 1..k
        BY <3>3
      <4> HIDE DEF g
      <4> QED BY <2>2, <2>3, <3>3, <4>1
    <3> QED BY <3>1, <3>2, <3>3
  <2>5. IsFlat(g, p, k + 1)
    <3>1. g = [i \in 1..(k + 1) |-> g[i]]
      OBVIOUS
    <3> HIDE DEF g
    <3> QED BY <2>4, <3>1 DEF IsFlat
  <2> QED BY <1>2, <2>5
<1>3. \A i \in 0..n : i \in T
  <2> HIDE DEF T
  <2> QED BY <1>1, <1>2, UpTo
<1> QED BY <1>3

LEMMA FlatIs ==
  ASSUME NEW S, NEW p \in Seq(Seq(S)), p # <<>>
  PROVE  \E f : /\ FlattenSeq(p) = f[Len(p)] /\ f[1] = p[1]
                /\ \A i \in 1..Len(p) : f[i] \in Seq(S)
                /\ \A i \in 2..Len(p) : f[i] = f[i - 1] \o p[i]
<1> PICK n : n = Len(p)
  OBVIOUS
<1>1. n \in Nat /\ n # 0 /\ \A i \in 1..n : p[i] \in Seq(S)
  OBVIOUS
<1> DEFINE f == CHOOSE g : g = [i \in 1..Len(p) |-> IF i = 1 THEN p[i] ELSE g[i - 1] \o p[i]]
<1>2. FlattenSeq(p) = f[Len(p)]
  BY <1>1 DEF FlattenSeq
<1>3. f = CHOOSE g : IsFlat(g, p, n)
  BY DEF IsFlat
<1>4. IsFlat(f, p, n)
  <2> HIDE DEF f
  <2> QED BY <1>1, <1>3, FlatExists
<1> HIDE DEF f
<1>5. \A i \in 1..n : f[i] = IF i = 1 THEN p[i] ELSE f[i - 1] \o p[i]
  BY <1>4 DEF IsFlat
<1> DEFINE T == {k \in 0..n : k # 0 => f[k] \in Seq(S)}
<1>6. \A i \in 0..n : i \in T
  <2>1. ASSUME NEW k \in 0..n, k \in T, k + 1 \in 0..n PROVE k + 1 \in T
    <3>1. CASE k = 0
      BY <1>1, <1>5, <2>1, <3>1
    <3>2. CASE k # 0
      <4>1. k + 1 \in 1..n /\ k + 1 # 1 /\ (k + 1) - 1 = k
        BY <1>1, <2>1, <3>2
      <4>2. f[k + 1] = f[k] \o p[k + 1] /\ p[k + 1] \in Seq(S) /\ f[k] \in Seq(S)
        BY <1>1, <1>5, <2>1, <3>2, <4>1
      <4> QED BY <2>1, <4>2, ConcatProperties
    <3> QED BY <3>1, <3>2
  <2>2. 0 \in T
    BY <1>1
  <2> HIDE DEF T
  <2> QED BY <1>1, <2>1, <2>2, UpTo
<1>7. \A i \in 1..n : f[i] \in Seq(S)
  BY <1>6
<1>8. f[1] = p[1] /\ \A i \in 2..n : f[i] = f[i - 1] \o p[i]
  <2>1. 1 \in 1..n /\ \A i \in 2..n : i \in 1..n /\ i # 1
    BY <1>1
  <2> QED BY <1>5, <2>1
<1> QED BY <1>2, <1>7, <1>8

\* Flattening as far as i.
Upto(p, i) == FlattenSeq(SubSeq(p, 1, i))

LEMMA FlatEmpty == FlattenSeq(<<>>) = <<>>
BY DEF FlattenSeq

LEMMA FlatType ==
  ASSUME NEW S, NEW p \in Seq(Seq(S))
  PROVE  FlattenSeq(p) \in Seq(S)
<1>1. CASE p = <<>>
  BY <1>1, FlatEmpty, EmptySeq
<1>2. CASE p # <<>>
  <2>1. Len(p) \in 1..Len(p)
    BY <1>2
  <2> QED BY <1>2, <2>1, FlatIs
<1> QED BY <1>1, <1>2

LEMMA FlatAppend ==
  ASSUME NEW S, NEW p \in Seq(Seq(S)), NEW x \in Seq(S)
  PROVE  FlattenSeq(Append(p, x)) = FlattenSeq(p) \o x
<1> PICK n, q : n = Len(p) /\ q = Append(p, x)
  OBVIOUS
<1>1. /\ n \in Nat /\ q \in Seq(Seq(S)) /\ Len(q) = n + 1 /\ q[n + 1] = x /\ q # <<>>
      /\ \A i \in 1..n : q[i] = p[i]
  OBVIOUS
<1>2. PICK g : /\ FlattenSeq(q) = g[n + 1] /\ g[1] = q[1]
               /\ \A i \in 1..(n + 1) : g[i] \in Seq(S)
               /\ \A i \in 2..(n + 1) : g[i] = g[i - 1] \o q[i]
  <2>1. \E f : /\ FlattenSeq(q) = f[Len(q)] /\ f[1] = q[1]
               /\ \A i \in 1..Len(q) : f[i] \in Seq(S)
               /\ \A i \in 2..Len(q) : f[i] = f[i - 1] \o q[i]
    <3>1. q \in Seq(Seq(S)) /\ q # <<>>
      BY <1>1
    <3> QED BY <3>1, FlatIs
  <2>2. Len(q) = n + 1
    BY <1>1
  <2> QED BY ONLY <2>1, <2>2
<1>3. CASE n = 0
  <2>1. p = <<>> /\ FlattenSeq(p) = <<>>
    BY <1>3, FlatEmpty, EmptySeq
  <2>2. <<>> \o x = x
    BY ConcatEmptySeq
  <2> QED BY <1>1, <1>2, <1>3, <2>1, <2>2
<1>4. CASE n # 0
  <2>1. PICK f : /\ FlattenSeq(p) = f[n] /\ f[1] = p[1]
                 /\ \A i \in 1..n : f[i] \in Seq(S)
                 /\ \A i \in 2..n : f[i] = f[i - 1] \o p[i]
    <3>1. p # <<>>
      BY <1>4
    <3>2. \E f : /\ FlattenSeq(p) = f[Len(p)] /\ f[1] = p[1]
                 /\ \A i \in 1..Len(p) : f[i] \in Seq(S)
                 /\ \A i \in 2..Len(p) : f[i] = f[i - 1] \o p[i]
      BY <3>1, FlatIs
    <3>3. Len(p) = n
      OBVIOUS
    <3> QED BY ONLY <3>2, <3>3
  <2> DEFINE T == {k \in 0..n : k # 0 => f[k] = g[k]}
  <2>2. ASSUME NEW k \in 0..n, k \in T, k + 1 \in 0..n PROVE k + 1 \in T
    <3>1. CASE k = 0
      BY <1>1, <1>2, <1>4, <2>1, <3>1
    <3>2. CASE k # 0
      <4>1. k + 1 \in 2..n /\ k + 1 \in 2..(n + 1) /\ k + 1 \in 1..n /\ (k + 1) - 1 = k
        BY <1>1, <2>2, <3>2
      <4>2. f[k + 1] = f[k] \o p[k + 1] /\ g[k + 1] = g[k] \o q[k + 1]
        BY <1>2, <2>1, <4>1
      <4> QED BY <1>1, <2>2, <3>2, <4>1, <4>2
    <3> QED BY <3>1, <3>2
  <2>3. \A k \in 0..n : k \in T
    <3>1. 0 \in T
      BY <1>1
    <3> HIDE DEF T
    <3> QED BY <1>1, <2>2, <3>1, UpTo
  <2>4. f[n] = g[n]
    BY <1>1, <1>4, <2>3
  <2>5. n + 1 \in 2..(n + 1) /\ (n + 1) - 1 = n
    BY <1>1, <1>4
  <2>6. g[n + 1] = g[n] \o x
    BY <1>1, <1>2, <2>5
  <2> QED BY <1>1, <1>2, <2>1, <2>4, <2>6
<1> QED BY <1>3, <1>4

\* Part after part.
LEMMA UptoIs ==
  ASSUME NEW S, NEW p \in Seq(Seq(S))
  PROVE  /\ Upto(p, 0) = <<>> /\ Upto(p, Len(p)) = FlattenSeq(p)
         /\ \A i \in 0..Len(p) : Upto(p, i) \in Seq(S)
         /\ \A i \in 0..Len(p) : i + 1 <= Len(p) => Upto(p, i + 1) = Upto(p, i) \o p[i + 1]
<1>0. Len(p) \in Nat
  OBVIOUS
<1>1. Upto(p, 0) = <<>>
  <2>1. SubSeq(p, 1, 0) = <<>>
    BY SubSeqEmpty
  <2> QED BY <2>1, FlatEmpty DEF Upto
<1>2. Upto(p, Len(p)) = FlattenSeq(p)
  BY SubSeqFull DEF Upto
<1>3. \A i \in 0..Len(p) : SubSeq(p, 1, i) \in Seq(Seq(S))
  <2> TAKE i \in 0..Len(p)
  <2>1. \A j \in 1..i : p[j] \in Seq(S)
    BY <1>0
  <2> QED BY <2>1, SubSeqProperties
<1>4. \A i \in 0..Len(p) : Upto(p, i) \in Seq(S)
  BY <1>3, FlatType DEF Upto
<1>5. ASSUME NEW i \in 0..Len(p), i + 1 <= Len(p) PROVE Upto(p, i + 1) = Upto(p, i) \o p[i + 1]
  <2> PICK u : u = SubSeq(p, 1, i)
    OBVIOUS
  <2>1. u \in Seq(Seq(S)) /\ p[i + 1] \in Seq(S)
    BY <1>3, <1>5
  <2>2. SubSeq(p, 1, i + 1) = Append(u, p[i + 1])
    <3>1. i + 1 \in 1..Len(p) /\ 1 \in 1..Len(p) /\ i + 1 \in 1..Len(p) /\ (i + 1) - 1 = i
      BY <1>5
    <3>2. SubSeq(p, 1, i + 1) = u \o <<p[i + 1]>>
      BY <3>1, SubSeqRecursiveSecond
    <3>3. u \o <<p[i + 1]>> = Append(u, p[i + 1])
      BY <2>1
    <3> QED BY <3>2, <3>3
  <2> QED BY <2>1, <2>2, FlatAppend DEF Upto
<1> QED BY <1>1, <1>2, <1>4, <1>5

LEMMA UptoStep ==
  ASSUME NEW S, NEW p \in Seq(Seq(S)), NEW n, n = Len(p), NEW i \in 0..n, i + 1 \in 0..n
  PROVE  /\ Upto(p, i + 1) = Upto(p, i) \o p[i + 1]
         /\ Upto(p, i) \in Seq(S) /\ p[i + 1] \in Seq(S)
<1>1. i \in 0..Len(p) /\ i + 1 <= Len(p) /\ i + 1 \in 1..Len(p)
  OBVIOUS
<1>2. p[i + 1] \in Seq(S)
  BY <1>1
<1> QED BY <1>1, <1>2, UptoIs

LEMMA FlatNone ==
  ASSUME NEW S, NEW p \in Seq(Seq(S)), \A i \in 1..Len(p) : p[i] = <<>>
  PROVE  FlattenSeq(p) = <<>>
<1> DEFINE T == {i \in 0..Len(p) : Upto(p, i) = <<>>}
<1>1. Len(p) \in Nat /\ 0 \in T
  BY UptoIs
<1>2. ASSUME NEW i \in 0..Len(p), i \in T, i + 1 \in 0..Len(p) PROVE i + 1 \in T
  <2>1. Upto(p, i + 1) = Upto(p, i) \o p[i + 1]
    BY <1>2, UptoIs
  <2>2. p[i + 1] = <<>>
    BY <1>2
  <2> QED BY <1>2, <2>1, <2>2, EmptySeq, ConcatEmptySeq
<1>3. \A i \in 0..Len(p) : i \in T
  <2> HIDE DEF T
  <2> QED BY <1>1, <1>2, UpTo
<1>4. Upto(p, Len(p)) = <<>>
  BY <1>1, <1>3
<1> QED BY <1>4, UptoIs

LEMMA FlatOne ==
  ASSUME NEW S, NEW p \in Seq(Seq(S)), NEW a \in 1..Len(p), \A i \in 1..Len(p) : i # a => p[i] = <<>>
  PROVE  FlattenSeq(p) = p[a]
<1>0. Len(p) \in Nat /\ a \in 1..Len(p) /\ p[a] \in Seq(S) /\ a \in Nat /\ a # 0
  OBVIOUS
<1> DEFINE T == {i \in 0..Len(p) : Upto(p, i) = IF i < a THEN <<>> ELSE p[a]}
<1>1. 0 \in T
  BY <1>0, UptoIs
<1>2. ASSUME NEW i \in 0..Len(p), i \in T, i + 1 \in 0..Len(p) PROVE i + 1 \in T
  <2>1. Upto(p, i + 1) = Upto(p, i) \o p[i + 1]
    BY <1>2, UptoIs
  <2>2. CASE i + 1 = a
    <3>1. Upto(p, i) = <<>>
      BY <1>0, <1>2, <2>2
    <3>2. Upto(p, i + 1) = p[a]
      BY <1>0, <2>1, <2>2, <3>1, ConcatEmptySeq
    <3> QED BY <1>0, <1>2, <2>2, <3>2
  <2>3. CASE i + 1 # a
    <3>1. p[i + 1] = <<>>
      BY <1>2, <2>3
    <3>2. Upto(p, i) \in Seq(S)
      BY UptoIs
    <3>3. Upto(p, i + 1) = Upto(p, i)
      BY <2>1, <3>1, <3>2, ConcatEmptySeq
    <3>4. (i + 1 < a) = (i < a)
      BY <1>0, <1>2, <2>3
    <3> QED BY <1>2, <3>3, <3>4
  <2> QED BY <2>2, <2>3
<1>3. \A i \in 0..Len(p) : i \in T
  <2> HIDE DEF T
  <2> QED BY <1>0, <1>1, <1>2, UpTo
<1>4. Upto(p, Len(p)) = p[a]
  BY <1>0, <1>3
<1> QED BY <1>4, UptoIs

LEMMA FlatTwo ==
  ASSUME NEW S, NEW p \in Seq(Seq(S)), NEW a \in 1..Len(p), NEW b \in 1..Len(p), a < b,
         \A i \in 1..Len(p) : i # a /\ i # b => p[i] = <<>>
  PROVE  FlattenSeq(p) = p[a] \o p[b]
<1>0. /\ Len(p) \in Nat /\ p[a] \in Seq(S) /\ p[b] \in Seq(S)
      /\ a \in Nat /\ b \in Nat /\ a # 0 /\ b <= Len(p)
  OBVIOUS
<1> DEFINE T == {i \in 0..Len(p) : Upto(p, i) = IF i < a THEN <<>> ELSE IF i < b THEN p[a] ELSE p[a] \o p[b]}
<1>1. 0 \in T
  <2>1. Upto(p, 0) = <<>>
    BY UptoIs
  <2>2. 0 < a /\ 0 \in 0..Len(p)
    BY <1>0
  <2> QED BY <2>1, <2>2
<1>2. ASSUME NEW i \in 0..Len(p), i \in T, i + 1 \in 0..Len(p) PROVE i + 1 \in T
  <2>1. Upto(p, i + 1) = Upto(p, i) \o p[i + 1]
    <3> HIDE DEF T
    <3> QED BY <1>2, UptoStep
  <2>0. Upto(p, i) = IF i < a THEN <<>> ELSE IF i < b THEN p[a] ELSE p[a] \o p[b]
    BY <1>2
  <2>2. CASE i + 1 = a
    <3>0. i < a /\ i + 1 < b
      BY <1>0, <1>2, <2>2
    <3>1. Upto(p, i) = <<>> /\ i + 1 < b
      BY <2>0, <3>0
    <3>2. Upto(p, i + 1) = p[a]
      BY <1>0, <2>1, <2>2, <3>1, ConcatEmptySeq
    <3> QED BY <1>0, <1>2, <2>2, <3>1, <3>2
  <2>3. CASE i + 1 = b
    <3>0. ~(i < a) /\ i < b
      BY <1>0, <1>2, <2>3
    <3>1. Upto(p, i) = p[a]
      BY <2>0, <3>0
    <3>2. ~(i + 1 < a) /\ ~(i + 1 < b)
      BY <1>0, <2>3
    <3> QED BY <1>2, <2>1, <2>3, <3>1, <3>2
  <2>4. CASE i + 1 # a /\ i + 1 # b
    <3>1. p[i + 1] = <<>>
      BY <1>2, <2>4
    <3>2. Upto(p, i) \in Seq(S)
      BY UptoIs
    <3>3. Upto(p, i + 1) = Upto(p, i)
      BY <2>1, <3>1, <3>2, ConcatEmptySeq
    <3>4. (i + 1 < a) = (i < a) /\ (i + 1 < b) = (i < b)
      BY <1>0, <1>2, <2>4
    <3> QED BY <1>2, <3>3, <3>4
  <2> QED BY <2>2, <2>3, <2>4
<1>3. \A i \in 0..Len(p) : i \in T
  <2> HIDE DEF T
  <2> QED BY <1>0, <1>1, <1>2, UpTo
<1>4. Upto(p, Len(p)) = p[a] \o p[b]
  <2>1. Len(p) \in 0..Len(p)
    BY <1>0
  <2>2. Len(p) \in T
    <3> HIDE DEF T
    <3> QED BY <1>3, <2>1
  <2>3. ~(Len(p) < a) /\ ~(Len(p) < b)
    <3> PICK n : n = Len(p)
      OBVIOUS
    <3>1. n \in Nat /\ a \in Nat /\ b \in Nat /\ a < b /\ b <= n
      BY <1>0
    <3>2. ~(n < a) /\ ~(n < b)
      BY ONLY <3>1
    <3> QED BY <3>2
  <2> QED BY <2>2, <2>3
<1> QED BY <1>4, UptoIs

Spread(p, a, b) ==
  /\ a \in 1..Len(p) /\ b \in 1..Len(p) /\ a < b
  /\ \A i \in 1..Len(p) : i # a /\ i # b => p[i] = <<>>
LEMMA FlatSpread ==
  ASSUME NEW S, NEW p \in Seq(Seq(S)), NEW a, NEW b, Spread(p, a, b)
  PROVE  FlattenSeq(p) = p[a] \o p[b]
BY FlatTwo DEF Spread

\* An element of the whole is an element of a part.
In(x, s) == \E j \in 1..Len(s) : s[j] = x

LEMMA FlatElements ==
  ASSUME NEW S, NEW p \in Seq(Seq(S))
  PROVE  \A x : In(x, FlattenSeq(p)) <=> \E i \in 1..Len(p) : In(x, p[i])
<1>0. Len(p) \in Nat
  OBVIOUS
<1>1. ASSUME NEW s \in Seq(S), NEW t \in Seq(S), NEW x PROVE In(x, s \o t) <=> In(x, s) \/ In(x, t)
  <2>1. Len(s) \in Nat /\ Len(t) \in Nat /\ Len(s \o t) = Len(s) + Len(t)
    OBVIOUS
  <2>2. \A j \in 1..Len(s) : (s \o t)[j] = s[j]
    BY <2>1
  <2>3. \A j \in 1..Len(t) : (s \o t)[Len(s) + j] = t[j]
    BY <2>1
  <2>4. \A j \in 1..Len(s \o t) : j \in 1..Len(s) \/ (j - Len(s) \in 1..Len(t) /\ Len(s) + (j - Len(s)) = j)
    BY <2>1
  <2>5. \A j \in 1..Len(s) : j \in 1..Len(s \o t)
    BY <2>1
  <2>6. \A j \in 1..Len(t) : Len(s) + j \in 1..Len(s \o t)
    BY <2>1
  <2>7. ASSUME In(x, s \o t) PROVE In(x, s) \/ In(x, t)
    <3>1. PICK j \in 1..Len(s \o t) : (s \o t)[j] = x
      BY <2>7 DEF In
    <3>2. CASE j \in 1..Len(s)
      BY <2>2, <3>1, <3>2 DEF In
    <3>3. CASE j - Len(s) \in 1..Len(t) /\ Len(s) + (j - Len(s)) = j
      <4>1. t[j - Len(s)] = x
        BY <2>3, <3>1, <3>3
      <4> QED BY <3>3, <4>1 DEF In
    <3> QED BY <2>4, <3>2, <3>3
  <2>8. In(x, s) => In(x, s \o t)
    BY <2>2, <2>5 DEF In
  <2>9. In(x, t) => In(x, s \o t)
    BY <2>3, <2>6 DEF In
  <2> QED BY <2>7, <2>8, <2>9
<1> DEFINE T == {i \in 0..Len(p) : \A x : In(x, Upto(p, i)) <=> \E k \in 1..i : In(x, p[k])}
<1>2. 0 \in T
  <2>1. Upto(p, 0) = <<>>
    BY UptoIs
  <2>2. \A x : ~In(x, <<>>)
    BY DEF In
  <2> QED BY <1>0, <2>1, <2>2
<1>3. ASSUME NEW i \in 0..Len(p), i \in T, i + 1 \in 0..Len(p) PROVE i + 1 \in T
  <2>1. Upto(p, i + 1) = Upto(p, i) \o p[i + 1] /\ Upto(p, i) \in Seq(S) /\ p[i + 1] \in Seq(S)
    BY <1>3, UptoIs
  <2>2. \A k : k \in 1..(i + 1) <=> k \in 1..i \/ k = i + 1
    BY <1>3
  <2>3. \A x : In(x, Upto(p, i + 1)) <=> In(x, Upto(p, i)) \/ In(x, p[i + 1])
    <3> HIDE DEF T
    <3>1. PICK u, v : u = Upto(p, i) /\ v = p[i + 1]
      OBVIOUS
    <3>2. u \in Seq(S) /\ v \in Seq(S)
      BY <2>1, <3>1
    <3>3. \A x : In(x, u \o v) <=> In(x, u) \/ In(x, v)
      BY <1>1, <3>2
    <3> QED BY <2>1, <3>1, <3>3
  <2>4. \A x : In(x, Upto(p, i)) <=> \E k \in 1..i : In(x, p[k])
    BY <1>3
  <2>5. \A x : In(x, Upto(p, i + 1)) <=> \E k \in 1..(i + 1) : In(x, p[k])
    BY <2>2, <2>3, <2>4
  <2> QED BY <1>3, <2>5
<1>4. \A i \in 0..Len(p) : i \in T
  <2> HIDE DEF T
  <2> QED BY <1>0, <1>2, <1>3, UpTo
<1>5. \A x : In(x, Upto(p, Len(p))) <=> \E k \in 1..Len(p) : In(x, p[k])
  <2>1. Len(p) \in T
    BY <1>0, <1>4
  <2> QED BY <2>1
<1> QED BY <1>5, UptoIs

-----------------------------------------------------------------------------
(* What is made of each element, one after the other. *)
Maps(G, A, B) == G \in [A -> Seq(B)]
Mapped(G, s) == FlattenSeq([j \in DOMAIN s |-> G[s[j]]])

Parts(p, s, G, B) ==
  /\ p \in Seq(Seq(B)) /\ Len(p) = Len(s) /\ FlattenSeq(p) = Mapped(G, s)
  /\ \A j \in 1..Len(s) : p[j] = G[s[j]]

LEMMA MappedParts ==
  ASSUME NEW A, NEW B, NEW G, Maps(G, A, B), NEW s \in Seq(A)
  PROVE  Parts([j \in DOMAIN s |-> G[s[j]]], s, G, B) /\ Mapped(G, s) \in Seq(B)
<1>1. DOMAIN s = 1..Len(s) /\ Len(s) \in Nat /\ \A j \in 1..Len(s) : G[s[j]] \in Seq(B)
  BY DEF Maps
<1>2. /\ [j \in DOMAIN s |-> G[s[j]]] \in Seq(Seq(B))
      /\ Len([j \in DOMAIN s |-> G[s[j]]]) = Len(s)
  BY <1>1
<1>3. \A j \in 1..Len(s) : [i \in DOMAIN s |-> G[s[i]]][j] = G[s[j]]
  BY <1>1
<1> QED BY <1>2, <1>3, FlatType DEF Mapped, Parts

LEMMA MappedConcat ==
  ASSUME NEW A, NEW B, NEW G, Maps(G, A, B), NEW s \in Seq(A), NEW t \in Seq(A)
  PROVE  Mapped(G, s \o t) = Mapped(G, s) \o Mapped(G, t)
<1> PICK u : u = s \o t
  OBVIOUS
<1> PICK p, q, r : /\ p = [j \in DOMAIN s |-> G[s[j]]] /\ q = [j \in DOMAIN t |-> G[t[j]]]
                   /\ r = [j \in DOMAIN u |-> G[u[j]]]
  OBVIOUS
<1> PICK m, n : m = Len(s) /\ n = Len(t)
  OBVIOUS
<1>1. /\ m \in Nat /\ n \in Nat /\ u \in Seq(A) /\ Len(u) = m + n
      /\ \A j \in 1..m : u[j] = s[j]
      /\ \A j \in 1..n : u[m + j] = t[j]
  OBVIOUS
<1>2. /\ p \in Seq(Seq(B)) /\ Len(p) = m /\ FlattenSeq(p) = Mapped(G, s)
      /\ \A j \in 1..m : p[j] = G[s[j]]
  <2>1. Parts(p, s, G, B)
    BY MappedParts
  <2> QED BY <2>1 DEF Parts
<1>3. /\ q \in Seq(Seq(B)) /\ Len(q) = n /\ FlattenSeq(q) = Mapped(G, t)
      /\ \A j \in 1..n : q[j] = G[t[j]]
  <2>1. Parts(q, t, G, B)
    BY MappedParts
  <2> QED BY <2>1 DEF Parts
<1>4. /\ r \in Seq(Seq(B)) /\ Len(r) = m + n /\ FlattenSeq(r) = Mapped(G, u)
      /\ \A j \in 1..(m + n) : r[j] = G[u[j]]
  <2>1. Parts(r, u, G, B)
    BY <1>1, MappedParts
  <2> QED BY <1>1, <2>1 DEF Parts
<1>5. \A j \in 1..m : r[j] = p[j]
  BY <1>1, <1>2, <1>4
<1>6. \A j \in 1..n : r[m + j] = q[j]
  <2> TAKE j \in 1..n
  <2>1. m + j \in 1..(m + n)
    BY <1>1
  <2> QED BY <1>1, <1>3, <1>4, <2>1
<1>7. Upto(r, m) = FlattenSeq(p)
  <2>1. SubSeq(r, 1, m) \in Seq(Seq(B)) /\ Len(SubSeq(r, 1, m)) = m /\ \A j \in 1..m : SubSeq(r, 1, m)[j] = r[j]
    <3>1. \A j \in 1..m : p[j] \in Seq(B)
      BY ONLY <1>1, <1>2
    <3>2. \A j \in 1..m : r[j] \in Seq(B)
      BY ONLY <1>5, <3>1
    <3> QED BY ONLY <1>1, <3>2, SubSeqProperties
  <2>2. SubSeq(r, 1, m) = p
    BY <1>1, <1>2, <1>5, <2>1, SeqEqual
  <2> QED BY <2>2 DEF Upto
<1> DEFINE T == {i \in 0..n : Upto(r, m + i) = FlattenSeq(p) \o Upto(q, i)}
<1>8. 0 \in T
  <2>1. FlattenSeq(p) \in Seq(B)
    BY <1>2, FlatType
  <2>2. FlattenSeq(p) \o <<>> = FlattenSeq(p)
    BY <2>1, ConcatEmptySeq
  <2>3. Upto(q, 0) = <<>>
    BY <1>3, UptoIs
  <2>4. m + 0 = m /\ 0 \in 0..n
    BY <1>1
  <2>5. Upto(r, m + 0) = FlattenSeq(p) \o Upto(q, 0)
    BY <1>7, <2>2, <2>3, <2>4
  <2> QED BY <2>4, <2>5
<1>9. ASSUME NEW i \in 0..n, i \in T, i + 1 \in 0..n PROVE i + 1 \in T
  <2>1. /\ m + i \in 0..(m + n) /\ (m + i) + 1 <= m + n /\ (m + i) + 1 = m + (i + 1)
        /\ i + 1 \in 1..n /\ i + 1 <= n
    BY <1>1, <1>9
  <2>2. Upto(r, m + (i + 1)) = Upto(r, m + i) \o r[m + (i + 1)]
    <3> HIDE DEF T
    <3>1. PICK k : k = m + i
      OBVIOUS
    <3>2. k \in 0..(m + n) /\ k + 1 \in 0..(m + n) /\ k + 1 = m + (i + 1)
      BY <1>1, <2>1, <3>1
    <3>3. PICK l : l = m + n
      OBVIOUS
    <3>4. r \in Seq(Seq(B)) /\ l = Len(r) /\ k \in 0..l /\ k + 1 \in 0..l
      BY <1>4, <3>2, <3>3
    <3>5. Upto(r, k + 1) = Upto(r, k) \o r[k + 1]
      BY ONLY <3>4, UptoStep
    <3> QED BY <3>1, <3>2, <3>5
  <2>3. Upto(q, i + 1) = Upto(q, i) \o q[i + 1] /\ Upto(q, i) \in Seq(B) /\ q[i + 1] \in Seq(B)
    <3> HIDE DEF T
    <3>1. i + 1 \in 0..n
      BY <1>9
    <3> QED BY <1>3, <3>1, UptoStep
  <2>4. r[m + (i + 1)] = q[i + 1]
    BY <1>6, <2>1
  <2>5. FlattenSeq(p) \in Seq(B)
    BY <1>2, FlatType
  <2>6. Upto(r, m + i) = FlattenSeq(p) \o Upto(q, i)
    BY <1>9
  <2>7. (FlattenSeq(p) \o Upto(q, i)) \o q[i + 1] = FlattenSeq(p) \o (Upto(q, i) \o q[i + 1])
    <3> HIDE DEF T
    <3> PICK x, y, z : x = FlattenSeq(p) /\ y = Upto(q, i) /\ z = q[i + 1]
      OBVIOUS
    <3>1. x \in Seq(B) /\ y \in Seq(B) /\ z \in Seq(B)
      BY <2>3, <2>5
    <3>2. (x \o y) \o z = x \o (y \o z)
      BY ONLY <3>1, ConcatAssociative
    <3> QED BY <3>2
  <2>8. Upto(r, m + (i + 1)) = FlattenSeq(p) \o Upto(q, i + 1)
    BY <2>2, <2>3, <2>4, <2>6, <2>7
  <2> QED BY <1>9, <2>8
<1>10. \A i \in 0..n : i \in T
  <2> HIDE DEF T
  <2> QED BY <1>1, <1>8, <1>9, UpTo
<1>11. Upto(r, m + n) = FlattenSeq(p) \o Upto(q, n)
  <2>1. n \in 0..n
    BY <1>1
  <2>2. n \in T
    <3> HIDE DEF T
    <3> QED BY <1>10, <2>1
  <2> QED BY <2>2
<1>12. Upto(r, m + n) = FlattenSeq(r) /\ Upto(q, n) = FlattenSeq(q)
  <2>1. Upto(r, Len(r)) = FlattenSeq(r)
    BY <1>4, UptoIs
  <2>2. Upto(q, Len(q)) = FlattenSeq(q)
    BY <1>3, UptoIs
  <2> QED BY <1>3, <1>4, <2>1, <2>2
<1> QED BY <1>2, <1>3, <1>4, <1>11, <1>12

\* Of a flattened sequence, part after part.
Each(G, p) == [i \in DOMAIN p |-> Mapped(G, p[i])]

LEMMA MappedFlat ==
  ASSUME NEW A, NEW B, NEW G, Maps(G, A, B), NEW p \in Seq(Seq(A))
  PROVE  /\ Mapped(G, FlattenSeq(p)) = FlattenSeq(Each(G, p))
         /\ Each(G, p) \in Seq(Seq(B)) /\ Len(Each(G, p)) = Len(p)
         /\ \A i \in 1..Len(p) : Each(G, p)[i] = Mapped(G, p[i])
<1> PICK q, n : q = Each(G, p) /\ n = Len(p)
  OBVIOUS
<1>1. n \in Nat /\ DOMAIN p = 1..n /\ \A i \in 1..n : p[i] \in Seq(A)
  OBVIOUS
<1>2. \A i \in 1..n : Mapped(G, p[i]) \in Seq(B)
  BY <1>1, MappedParts
<1>3. q \in Seq(Seq(B)) /\ Len(q) = n /\ \A i \in 1..n : q[i] = Mapped(G, p[i])
  BY <1>1, <1>2 DEF Each
<1> DEFINE T == {i \in 0..n : Mapped(G, Upto(p, i)) = Upto(q, i)}
<1>4. 0 \in T
  <2>1. Upto(p, 0) = <<>> /\ Upto(q, 0) = <<>>
    BY <1>3, UptoIs
  <2>2. [j \in DOMAIN <<>> |-> G[<<>>[j]]] = <<>>
    OBVIOUS
  <2>3. Mapped(G, <<>>) = <<>>
    BY <2>2, FlatEmpty DEF Mapped
  <2> QED BY <1>1, <2>1, <2>3
<1>5. ASSUME NEW i \in 0..n, i \in T, i + 1 \in 0..n PROVE i + 1 \in T
  <2>1. i + 1 \in 1..n /\ i + 1 <= n
    BY <1>1, <1>5
  <2>2. Upto(p, i + 1) = Upto(p, i) \o p[i + 1] /\ Upto(p, i) \in Seq(A)
    BY <1>1, <1>5, <2>1, UptoIs
  <2>3. Upto(q, i + 1) = Upto(q, i) \o q[i + 1]
    BY <1>3, <1>5, <2>1, UptoIs
  <2>4. Mapped(G, Upto(p, i) \o p[i + 1]) = Mapped(G, Upto(p, i)) \o Mapped(G, p[i + 1])
    <3> PICK x, y : x = Upto(p, i) /\ y = p[i + 1]
      OBVIOUS
    <3>1. Maps(G, A, B) /\ x \in Seq(A) /\ y \in Seq(A)
      BY <1>1, <2>1, <2>2
    <3>2. Mapped(G, x \o y) = Mapped(G, x) \o Mapped(G, y)
      BY ONLY <3>1, MappedConcat
    <3> QED BY <3>2
  <2>5. Mapped(G, Upto(p, i)) = Upto(q, i) /\ q[i + 1] = Mapped(G, p[i + 1])
    BY <1>3, <1>5, <2>1
  <2> QED BY <1>5, <2>2, <2>3, <2>4, <2>5
<1>6. \A i \in 0..n : i \in T
  <2> HIDE DEF T
  <2> QED BY <1>1, <1>4, <1>5, UpTo
<1>7. Mapped(G, Upto(p, n)) = Upto(q, n)
  BY <1>1, <1>6
<1>8. Upto(p, n) = FlattenSeq(p)
  BY UptoIs
<1>9. Upto(q, n) = FlattenSeq(q)
  BY <1>3, UptoIs
<1> QED BY <1>3, <1>7, <1>8, <1>9

LEMMA MappedNone ==
  ASSUME NEW A, NEW B, NEW G, Maps(G, A, B), NEW s \in Seq(A), \A j \in 1..Len(s) : G[s[j]] = <<>>
  PROVE  Mapped(G, s) = <<>>
<1> PICK p : p = [j \in DOMAIN s |-> G[s[j]]]
  OBVIOUS
<1>1. Parts(p, s, G, B)
  BY MappedParts
<1>2. p \in Seq(Seq(B)) /\ \A i \in 1..Len(p) : p[i] = <<>>
  BY <1>1 DEF Parts
<1>3. FlattenSeq(p) = <<>>
  BY <1>2, FlatNone
<1> QED BY <1>1, <1>3 DEF Parts

OnlyAt(a, G, s) == a \in 1..Len(s) /\ \A j \in 1..Len(s) : j # a => G[s[j]] = <<>>

LEMMA MappedOne ==
  ASSUME NEW A, NEW B, NEW G, Maps(G, A, B), NEW s \in Seq(A), NEW a, OnlyAt(a, G, s)
  PROVE  Mapped(G, s) = G[s[a]]
<1> PICK p : p = [j \in DOMAIN s |-> G[s[j]]]
  OBVIOUS
<1>1. Parts(p, s, G, B)
  BY MappedParts
<1>2. p \in Seq(Seq(B)) /\ a \in 1..Len(p) /\ p[a] = G[s[a]] /\ \A i \in 1..Len(p) : i # a => p[i] = <<>>
  BY <1>1 DEF Parts, OnlyAt
<1>3. FlattenSeq(p) = p[a]
  BY <1>2, FlatOne
<1> QED BY <1>1, <1>2, <1>3 DEF Parts

LEMMA MappedElements ==
  ASSUME NEW A, NEW B, NEW G, Maps(G, A, B), NEW s \in Seq(A)
  PROVE  \A x : In(x, Mapped(G, s)) <=> \E j \in 1..Len(s) : In(x, G[s[j]])
<1> PICK p : p = [j \in DOMAIN s |-> G[s[j]]]
  OBVIOUS
<1>1. Parts(p, s, G, B)
  BY MappedParts
<1>2. p \in Seq(Seq(B)) /\ Len(p) = Len(s) /\ FlattenSeq(p) = Mapped(G, s) /\ \A i \in 1..Len(s) : p[i] = G[s[i]]
  BY <1>1 DEF Parts
<1>3. \A x : In(x, FlattenSeq(p)) <=> \E i \in 1..Len(p) : In(x, p[i])
  BY <1>2, FlatElements
<1> QED BY <1>2, <1>3

\* The same function of the elements makes the same of them.
LEMMA MappedAgree ==
  ASSUME NEW G, NEW H, NEW s, \A j \in DOMAIN s : G[s[j]] = H[s[j]]
  PROVE  Mapped(G, s) = Mapped(H, s)
<1>1. [j \in DOMAIN s |-> G[s[j]]] = [j \in DOMAIN s |-> H[s[j]]]
  OBVIOUS
<1> QED BY <1>1 DEF Mapped

-----------------------------------------------------------------------------
(* What the index is given of a name. *)
SymbolOf(fqn, f) == [fqn |-> fqn, ns |-> NamespaceOf[fqn], file |-> f]
Symbols  == {SymbolOf(fqn, f) : fqn \in Fqns, f \in JarFiles}
Inserted == [file : JarFiles, rank : Nat]

Insert(q, r)   == [x \in Symbols |-> IF x.fqn = q THEN <<[file |-> x.file, rank |-> r]>> ELSE <<>>]
Select(ns)     == [x \in Symbols |-> IF x.ns = ns THEN <<x>> ELSE <<>>]

LEMMA SymbolIs ==
  ASSUME NEW x \in Symbols
  PROVE  x.fqn \in Fqns /\ x.file \in JarFiles /\ x.ns = NamespaceOf[x.fqn]
BY DEF Symbols, SymbolOf

LEMMA InsertIs ==
  ASSUME NEW q, NEW r \in Nat
  PROVE  Maps(Insert(q, r), Symbols, Inserted)
<1>1. \A x \in Symbols : (IF x.fqn = q THEN <<[file |-> x.file, rank |-> r]>> ELSE <<>>) \in Seq(Inserted)
  <2> TAKE x \in Symbols
  <2>1. [file |-> x.file, rank |-> r] \in Inserted
    BY SymbolIs DEF Inserted
  <2>2. <<[file |-> x.file, rank |-> r]>> \in Seq(Inserted)
    BY <2>1
  <2>3. <<>> \in Seq(Inserted)
    BY EmptySeq
  <2> QED BY <2>2, <2>3
<1> QED BY <1>1 DEF Insert, Maps

LEMMA SelectIs ==
  ASSUME NEW ns
  PROVE  Maps(Select(ns), Symbols, Symbols)
<1>1. \A x \in Symbols : (IF x.ns = ns THEN <<x>> ELSE <<>>) \in Seq(Symbols)
  <2> TAKE x \in Symbols
  <2>1. <<x>> \in Seq(Symbols) /\ <<>> \in Seq(Symbols)
    BY EmptySeq
  <2> QED BY <2>1
<1> QED BY <1>1 DEF Select, Maps

LEMMA MappedSingle ==
  ASSUME NEW A, NEW B, NEW G, Maps(G, A, B), NEW x \in A
  PROVE  Mapped(G, <<x>>) = G[x]
<1> PICK s : s = <<x>>
  OBVIOUS
<1>1. s \in Seq(A) /\ s[1] = x /\ OnlyAt(1, G, s)
  BY DEF OnlyAt
<1>2. Maps(G, A, B) /\ s \in Seq(A) /\ OnlyAt(1, G, s)
  BY <1>1
<1>3. Mapped(G, s) = G[s[1]]
  BY ONLY <1>2, MappedOne
<1> QED BY <1>1, <1>3

LEMMA MappedEmpty ==
  ASSUME NEW A, NEW B, NEW G, Maps(G, A, B)
  PROVE  Mapped(G, <<>>) = <<>>
<1> PICK s : s = <<>>
  OBVIOUS
<1>1. s \in Seq(A) /\ \A j \in 1..Len(s) : G[s[j]] = <<>>
  BY EmptySeq
<1>2. Mapped(G, s) = <<>>
  BY <1>1, MappedNone
<1> QED BY <1>2

\* A name is given to the pairs of its namespace, and to them whole.
LEMMA GroupedInsert ==
  ASSUME NEW q \in Fqns, NEW r \in Nat, NEW ns, NEW e \in Seq(Symbols)
  PROVE  Mapped(Insert(q, r), Mapped(Select(ns), e)) =
           IF ns = NamespaceOf[q] THEN Mapped(Insert(q, r), e) ELSE <<>>
<1> PICK G, H : G = Insert(q, r) /\ H = Select(ns)
  OBVIOUS
<1>1. Maps(G, Symbols, Inserted) /\ Maps(H, Symbols, Symbols)
  BY InsertIs, SelectIs
<1> PICK p : p = [j \in DOMAIN e |-> H[e[j]]]
  OBVIOUS
<1>2. p \in Seq(Seq(Symbols)) /\ Len(p) = Len(e) /\ FlattenSeq(p) = Mapped(H, e)
      /\ \A j \in 1..Len(e) : p[j] = H[e[j]]
  <2>1. Parts(p, e, H, Symbols)
    BY <1>1, MappedParts
  <2> QED BY <2>1 DEF Parts
<1> PICK t : t = Each(G, p)
  OBVIOUS
<1>3. Mapped(G, Mapped(H, e)) = FlattenSeq(t)
  <2>1. Maps(G, Symbols, Inserted) /\ p \in Seq(Seq(Symbols))
    BY <1>1, <1>2
  <2>2. Mapped(G, FlattenSeq(p)) = FlattenSeq(Each(G, p))
    BY ONLY <2>1, MappedFlat
  <2> QED BY <1>2, <2>2
<1>4. ASSUME NEW j \in 1..Len(e)
      PROVE  t[j] = IF ns = NamespaceOf[q] THEN G[e[j]] ELSE <<>>
  <2> PICK x : x = e[j]
    OBVIOUS
  <2>1. x \in Symbols
    OBVIOUS
  <2>2. t[j] = Mapped(G, H[x])
    <3>1. j \in DOMAIN p /\ p[j] = H[x]
      BY <1>2
    <3> QED BY <3>1 DEF Each
  <2>3. H[x] = (IF x.ns = ns THEN <<x>> ELSE <<>>) /\ G[x] = IF x.fqn = q THEN <<[file |-> x.file, rank |-> r]>> ELSE <<>>
    BY <2>1 DEF Insert, Select
  <2>4. t[j] = IF x.ns = ns THEN G[x] ELSE <<>>
    <3>1. Mapped(G, <<x>>) = G[x] /\ Mapped(G, <<>>) = <<>>
      BY <1>1, <2>1, MappedSingle, MappedEmpty
    <3> QED BY <2>2, <2>3, <3>1
  <2>5. x.ns = NamespaceOf[x.fqn]
    BY <2>1, SymbolIs
  <2>6. CASE x.fqn = q
    BY <2>4, <2>5, <2>6
  <2>7. CASE x.fqn # q
    BY <2>3, <2>4, <2>7
  <2> QED BY <2>6, <2>7
<1>5. DOMAIN p = 1..Len(e) /\ DOMAIN e = 1..Len(e) /\ Len(e) \in Nat
  BY <1>2
<1>6. CASE ns = NamespaceOf[q]
  <2>1. t = [j \in DOMAIN e |-> G[e[j]]]
    BY <1>4, <1>5, <1>6 DEF Each
  <2> QED BY <1>3, <1>6, <2>1 DEF Mapped
<1>7. CASE ns # NamespaceOf[q]
  <2>1. t \in Seq(Seq(Inserted)) /\ \A i \in 1..Len(t) : t[i] = <<>>
    <3>1. \A j \in 1..Len(e) : t[j] = <<>>
      BY <1>4, <1>7
    <3>2. DOMAIN t = 1..Len(e) /\ t = [i \in 1..Len(e) |-> t[i]]
      BY <1>5 DEF Each
    <3>3. <<>> \in Seq(Inserted)
      BY EmptySeq
    <3>4. \A i \in 1..Len(e) : t[i] \in Seq(Inserted)
      BY <3>1, <3>3
    <3>5. t \in Seq(Seq(Inserted)) /\ Len(t) = Len(e)
      BY ONLY <1>5, <3>2, <3>4
    <3> QED BY <3>1, <3>5
  <2>2. FlattenSeq(t) = <<>>
    BY <2>1, FlatNone
  <2> QED BY <1>3, <1>7, <2>2
<1> QED BY <1>6, <1>7

-----------------------------------------------------------------------------
(* The slots that insertions leave. *)
AreSlots(slot, ins, n) ==
  slot = [k \in 0..n |-> IF k = 0 THEN NoSlot ELSE InsertUnder(slot[k - 1], ins[k].file, ins[k].rank)]

LEMMA SlotsExist ==
  ASSUME NEW ins, NEW n \in Nat
  PROVE  \E slot : AreSlots(slot, ins, n)
<1> DEFINE T == {k \in 0..n : \E slot : AreSlots(slot, ins, k)}
<1>1. 0 \in T
  <2>1. AreSlots([i \in 0..0 |-> NoSlot], ins, 0)
    BY DEF AreSlots
  <2> QED BY <2>1
<1>2. ASSUME NEW k \in 0..n, k \in T, k + 1 \in 0..n PROVE k + 1 \in T
  <2>1. PICK f : AreSlots(f, ins, k)
    BY <1>2
  <2> DEFINE Under(i, old) == InsertUnder(old, ins[i].file, ins[i].rank)
  <2> DEFINE g == [i \in 0..(k + 1) |-> IF i = k + 1 THEN Under(k + 1, f[k]) ELSE f[i]]
  <2> HIDE DEF Under
  <2>2. \A i \in 0..k : f[i] = IF i = 0 THEN NoSlot ELSE Under(i, f[i - 1])
    BY <2>1 DEF AreSlots, Under
  <2>3. \A i \in 0..k : g[i] = f[i]
    OBVIOUS
  <2>4. \A i \in 0..(k + 1) : g[i] = IF i = 0 THEN NoSlot ELSE Under(i, g[i - 1])
    <3> TAKE i \in 0..(k + 1)
    <3>1. CASE i = k + 1
      <4>1. k \in 0..k /\ i - 1 = k /\ i # 0 /\ g[i] = Under(i, f[k])
        BY <3>1
      <4> HIDE DEF g
      <4> QED BY <2>3, <3>1, <4>1
    <3>2. CASE i # k + 1
      <4>1. i \in 0..k /\ (i # 0 => i - 1 \in 0..k)
        BY <3>2
      <4> HIDE DEF g
      <4> QED BY <2>2, <2>3, <4>1
    <3> QED BY <3>1, <3>2
  <2>5. AreSlots(g, ins, k + 1)
    <3>1. g = [i \in 0..(k + 1) |-> g[i]]
      OBVIOUS
    <3> HIDE DEF g
    <3> QED BY <2>4, <3>1 DEF AreSlots, Under
  <2> QED BY <1>2, <2>5
<1>3. \A i \in 0..n : i \in T
  <2> HIDE DEF T
  <2> QED BY <1>1, <1>2, UpTo
<1> QED BY <1>3

LEMMA SlotsAre ==
  ASSUME NEW ins, Len(ins) \in Nat
  PROVE  /\ Slots(ins)[0] = NoSlot
         /\ \A i \in 1..Len(ins) : Slots(ins)[i] = InsertUnder(Slots(ins)[i - 1], ins[i].file, ins[i].rank)
<1> PICK n, slot : n = Len(ins) /\ slot = Slots(ins)
  OBVIOUS
<1>1. slot = CHOOSE f : AreSlots(f, ins, n)
  BY DEF Slots, AreSlots
<1>2. AreSlots(slot, ins, n)
  BY <1>1, SlotsExist
<1>3. 0 \in 0..n /\ \A i \in 1..n : i \in 0..n /\ i # 0
  OBVIOUS
<1> QED BY <1>2, <1>3 DEF AreSlots

\* What an insertion makes of a slot that a file of rank old is in.
Under(slot, f, r, old) ==
  IF r <= old
  THEN [primary |-> f, shadow |-> IF slot.primary # NoFile /\ IsCljs(old) /\ ~IsCljs(r)
                                  THEN Keep(slot.shadow, slot.primary, old) ELSE slot.shadow]
  ELSE IF IsCljs(r) THEN [slot EXCEPT !.shadow = Keep(@, f, r)] ELSE slot

LEMMA InsertUnderIs ==
  ASSUME NEW slot, NEW f, NEW r \in Nat
  PROVE  /\ slot.primary = NoFile => InsertUnder(slot, f, r) = [primary |-> f, shadow |-> slot.shadow]
         /\ slot.primary # NoFile /\ FileRank[slot.primary] \in Nat =>
              InsertUnder(slot, f, r) = Under(slot, f, r, FileRank[slot.primary])
<1>1. CASE slot.primary = NoFile
  <2>1. r <= r
    OBVIOUS
  <2> QED BY <1>1, <2>1 DEF InsertUnder
<1>2. CASE slot.primary # NoFile /\ FileRank[slot.primary] \in Nat
  <2> PICK old : old = FileRank[slot.primary]
    OBVIOUS
  <2>1. old \in Nat
    BY <1>2
  <2>2. CASE r <= old
    BY <1>2, <2>1, <2>2 DEF InsertUnder, Under
  <2>3. CASE ~(r <= old)
    <3>1. r > old
      BY <2>1, <2>3
    <3>2. CASE IsCljs(r)
      BY <1>2, <2>3, <3>1, <3>2 DEF InsertUnder, Under
    <3>3. CASE ~IsCljs(r)
      BY <1>2, <2>3, <3>1, <3>3 DEF InsertUnder, Under
    <3> QED BY <3>2, <3>3
  <2> QED BY <2>2, <2>3
<1> QED BY <1>1, <1>2

\* Insertions of one file leave it in the first slot, and it or nothing in the other.
OneFile(f) == [primary : {f}, shadow : {NoFile, f}]
LEMMA OneFileIs ==
  ASSUME NEW ins \in Seq(Inserted), ins # <<>>, NEW f \in JarFiles, f # NoFile, \A i \in 1..Len(ins) : ins[i].file = f
  PROVE  Slots(ins)[Len(ins)] \in OneFile(f)
<1> PICK slot, n : slot = Slots(ins) /\ n = Len(ins)
  OBVIOUS
<1>1. n \in Nat /\ n # 0 /\ slot[0] = NoSlot
      /\ \A i \in 1..n : slot[i] = InsertUnder(slot[i - 1], f, ins[i].rank) /\ ins[i].rank \in Nat
  <2>1. n \in Nat /\ n # 0 /\ Len(ins) \in Nat
    OBVIOUS
  <2>2. \A i \in 1..n : ins[i].file = f /\ ins[i].rank \in Nat
    <3> TAKE i \in 1..n
    <3>1. ins[i] \in Inserted
      OBVIOUS
    <3> QED BY <3>1 DEF Inserted
  <2>3. /\ Slots(ins)[0] = NoSlot
        /\ \A i \in 1..Len(ins) : Slots(ins)[i] = InsertUnder(Slots(ins)[i - 1], ins[i].file, ins[i].rank)
    BY ONLY <2>1, SlotsAre
  <2> QED BY <2>1, <2>2, <2>3
<1>2. ASSUME NEW r \in Nat PROVE InsertUnder(NoSlot, f, r) \in OneFile(f)
  <2>1. NoSlot.primary = NoFile /\ NoSlot.shadow = NoFile
    BY DEF NoSlot
  <2>2. InsertUnder(NoSlot, f, r) = [primary |-> f, shadow |-> NoFile]
    BY <1>2, <2>1, InsertUnderIs
  <2> QED BY <2>2 DEF OneFile
<1>3. ASSUME NEW r \in Nat, NEW old \in OneFile(f) PROVE InsertUnder(old, f, r) \in OneFile(f)
  <2>1. old.primary = f /\ old.shadow \in {NoFile, f} /\ old = [primary |-> f, shadow |-> old.shadow]
    BY <1>3 DEF OneFile
  <2>2. \A k : \A a \in {NoFile, f} : Keep(a, f, k) \in {NoFile, f}
    BY DEF Keep
  <2>3. \A sh \in {NoFile, f} : [primary |-> f, shadow |-> sh] \in OneFile(f) /\ [old EXCEPT !.shadow = sh] \in OneFile(f)
    BY <2>1 DEF OneFile
  <2>4. FileRank[f] \in Nat
    BY JarAssumption
  <2>5. InsertUnder(old, f, r) = Under(old, f, r, FileRank[f])
    BY <1>3, <2>1, <2>4, InsertUnderIs
  <2> QED BY <2>1, <2>2, <2>3, <2>5, <1>3 DEF Under
<1> DEFINE T == {i \in 0..n : i # 0 => slot[i] \in OneFile(f)}
<1>4. 0 \in T
  BY <1>1
<1>5. ASSUME NEW i \in 0..n, i \in T, i + 1 \in 0..n PROVE i + 1 \in T
  <2>1. i + 1 \in 1..n /\ (i + 1) - 1 = i
    BY <1>1, <1>5
  <2>2. slot[i + 1] = InsertUnder(slot[i], f, ins[i + 1].rank) /\ ins[i + 1].rank \in Nat
    BY <1>1, <2>1
  <2>3. slot[i + 1] \in OneFile(f)
    <3>1. CASE i = 0
      BY <1>1, <1>2, <2>2, <3>1
    <3>2. CASE i # 0
      BY <1>3, <1>5, <2>2, <3>2
    <3> QED BY <3>1, <3>2
  <2> QED BY <1>5, <2>3
<1>6. \A i \in 0..n : i \in T
  <2> HIDE DEF T
  <2> QED BY <1>1, <1>4, <1>5, UpTo
<1>7. n \in T
  <2>1. n \in 0..n
    BY <1>1
  <2> HIDE DEF T
  <2> QED BY <1>6, <2>1
<1> QED BY <1>1, <1>7

\* Two dialects, each given once, or each given to both.
Entered(f, r) == [file |-> f, rank |-> r]
LEMMA TwoFilesAre ==
  ASSUME NEW f \in JarFiles, NEW g \in JarFiles,
         NEW once, once = <<Entered(f, FileRank[f]), Entered(g, FileRank[g])>>,
         NEW twice, twice = <<Entered(f, FileRank[f]), Entered(g, FileRank[f]),
                              Entered(f, FileRank[g]), Entered(g, FileRank[g])>>
  PROVE  Slots(twice)[4] = Slots(once)[2]
<1> PICK a, b : a = FileRank[f] /\ b = FileRank[g]
  OBVIOUS
<1>1. a \in Nat /\ b \in Nat /\ f # NoFile /\ g # NoFile
  BY JarAssumption
<1>2. /\ Slots(once)[0] = NoSlot /\ Slots(once)[1] = InsertUnder(Slots(once)[0], f, a)
      /\ Slots(once)[2] = InsertUnder(Slots(once)[1], g, b)
  <2>1. Len(once) = 2 /\ Len(once) \in Nat
    OBVIOUS
  <2>2. once[1].file = f /\ once[1].rank = a /\ once[2].file = g /\ once[2].rank = b
    BY DEF Entered
  <2>3. \A i \in 1..2 : Slots(once)[i] = InsertUnder(Slots(once)[i - 1], once[i].file, once[i].rank)
    BY ONLY <2>1, SlotsAre
  <2>4. Slots(once)[0] = NoSlot
    BY ONLY <2>1, SlotsAre
  <2> QED BY <2>2, <2>3, <2>4
<1>3. /\ Slots(twice)[0] = NoSlot /\ Slots(twice)[1] = InsertUnder(Slots(twice)[0], f, a)
      /\ Slots(twice)[2] = InsertUnder(Slots(twice)[1], g, a)
      /\ Slots(twice)[3] = InsertUnder(Slots(twice)[2], f, b)
      /\ Slots(twice)[4] = InsertUnder(Slots(twice)[3], g, b)
  <2>1. Len(twice) = 4 /\ Len(twice) \in Nat
    OBVIOUS
  <2>2. /\ twice[1].file = f /\ twice[1].rank = a /\ twice[2].file = g /\ twice[2].rank = a
        /\ twice[3].file = f /\ twice[3].rank = b /\ twice[4].file = g /\ twice[4].rank = b
    BY DEF Entered
  <2>3. \A i \in 1..4 : Slots(twice)[i] = InsertUnder(Slots(twice)[i - 1], twice[i].file, twice[i].rank)
    BY ONLY <2>1, SlotsAre
  <2>4. Slots(twice)[0] = NoSlot
    BY ONLY <2>1, SlotsAre
  <2> QED BY <2>2, <2>3, <2>4
<1>4. InsertUnder(NoSlot, f, a) = [primary |-> f, shadow |-> NoFile]
  <2>1. NoSlot.primary = NoFile /\ NoSlot.shadow = NoFile
    BY DEF NoSlot
  <2> QED BY <1>1, <2>1, InsertUnderIs
<1>5. ASSUME NEW x \in {f, g}, NEW h, NEW r, r = FileRank[x]
      PROVE  InsertUnder([primary |-> x, shadow |-> NoFile], h, r) = [primary |-> h, shadow |-> NoFile]
  <2> PICK slot : slot = [primary |-> x, shadow |-> NoFile]
    OBVIOUS
  <2>1. r \in Nat /\ x # NoFile /\ slot.primary = x /\ slot.shadow = NoFile /\ r <= r
    BY <1>1, <1>5
  <2>2. InsertUnder(slot, h, r) = Under(slot, h, r, r)
    BY <1>5, <2>1, InsertUnderIs
  <2>3. Under(slot, h, r, r) = [primary |-> h, shadow |-> NoFile]
    BY ONLY <2>1 DEF Under
  <2> QED BY <2>2, <2>3
<1>6. Slots(twice)[2] = [primary |-> g, shadow |-> NoFile]
  BY <1>3, <1>4, <1>5
<1>7. Slots(twice)[3] = [primary |-> f, shadow |-> NoFile]
  BY <1>3, <1>5, <1>6
<1> QED BY <1>2, <1>3, <1>4, <1>7

-----------------------------------------------------------------------------
(* The JAR without the cache and with it. *)
PartsOf(content) ==
  [i \in DOMAIN content |->
     [j \in DOMAIN content[i].defs |-> SymbolOf(content[i].defs[j], content[i].file)]]
Cold(content) == IndexJar(content, 0).pairs
Hot(content)  == Regrouped(EntryOf(IndexJar(content, 0), 0)).pairs
Rank(content, i)          == FileRank[content[i].file]
Defines(content, i, q)    == \E j \in DOMAIN content[i].defs : content[i].defs[j] = q
IsHome(content, k, q)     == content[k].ns = NamespaceOf[q]

\* The pairs do not depend on the version or the time.
LEMMA SamePairs ==
  ASSUME NEW content, NEW v, NEW m
  PROVE  IndexJar(content, v).pairs = Cold(content)
         /\ Regrouped(EntryOf(IndexJar(content, v), m)).pairs = Hot(content)
<1>1. IndexJar(content, v).pairs = IndexJar(content, 0).pairs
  BY DEF IndexJar
<1> PICK p, q : p = IndexJar(content, v) /\ q = IndexJar(content, 0)
  OBVIOUS
<1>2. p.pairs = q.pairs
  BY <1>1
<1> PICK e, f : e = EntryOf(p, m) /\ f = EntryOf(q, 0)
  OBVIOUS
<1>3. e.namespaces = f.namespaces /\ e.symbols = f.symbols
  BY <1>2 DEF EntryOf
<1>4. Regrouped(e).pairs = Regrouped(f).pairs
  BY <1>3 DEF Regrouped
<1> QED BY <1>1, <1>4 DEF Cold, Hot

LEMMA ContentIs ==
  ASSUME NEW content \in Jars
  PROVE  /\ Len(content) \in Nat /\ DOMAIN content = 1..Len(content)
         /\ \A i \in 1..Len(content) :
              /\ content[i].file \in JarFiles /\ content[i].defs \in Seq(Fqns)
              /\ Rank(content, i) \in Nat
<1> PICK Spaces : Spaces = {content[i].ns : i \in DOMAIN content}
  OBVIOUS
<1>1. content \in Seq([file : JarFiles, ns : Spaces, defs : Seq(Fqns)])
  BY JarAssumption
<1>2. FileRank \in [JarFiles -> Nat]
  BY JarAssumption
<1>3. \A i \in 1..Len(content) : content[i] \in [file : JarFiles, ns : Spaces, defs : Seq(Fqns)]
  <2> PICK S : S = [file : JarFiles, ns : Spaces, defs : Seq(Fqns)]
    OBVIOUS
  <2>1. content \in Seq(S)
    BY <1>1
  <2>2. \A i \in 1..Len(content) : content[i] \in S
    BY ONLY <2>1
  <2> QED BY <2>2
<1>4. Len(content) \in Nat /\ DOMAIN content = 1..Len(content)
  BY <1>1
<1> QED BY <1>2, <1>3, <1>4 DEF Rank

LEMMA PartsAre ==
  ASSUME NEW content \in Jars
  PROVE  /\ PartsOf(content) \in Seq(Seq(Symbols)) /\ Len(PartsOf(content)) = Len(content)
         /\ DOMAIN PartsOf(content) = 1..Len(content)
         /\ \A i \in 1..Len(content) :
              /\ PartsOf(content)[i] \in Seq(Symbols)
              /\ DOMAIN PartsOf(content)[i] = DOMAIN content[i].defs
              /\ \A j \in DOMAIN content[i].defs :
                   PartsOf(content)[i][j] = SymbolOf(content[i].defs[j], content[i].file)
<1> PICK parts : parts = PartsOf(content)
  OBVIOUS
<1>1. \A i \in 1..Len(content) :
        parts[i] = [j \in DOMAIN content[i].defs |-> SymbolOf(content[i].defs[j], content[i].file)]
  BY ContentIs DEF PartsOf
<1>2. ASSUME NEW i \in 1..Len(content)
      PROVE  /\ parts[i] \in Seq(Symbols) /\ DOMAIN parts[i] = DOMAIN content[i].defs
             /\ \A j \in DOMAIN content[i].defs : parts[i][j] = SymbolOf(content[i].defs[j], content[i].file)
  <2> PICK defs, f, t : defs = content[i].defs /\ f = content[i].file /\ t = parts[i]
    OBVIOUS
  <2>1. defs \in Seq(Fqns) /\ f \in JarFiles /\ t = [j \in DOMAIN defs |-> SymbolOf(defs[j], f)]
    BY <1>1, ContentIs
  <2>2. \A j \in 1..Len(defs) : SymbolOf(defs[j], f) \in Symbols
    BY <2>1 DEF Symbols
  <2>3. DOMAIN defs = 1..Len(defs) /\ Len(defs) \in Nat
    BY <2>1
  <2>4. t \in Seq(Symbols) /\ DOMAIN t = DOMAIN defs
    BY <2>1, <2>2, <2>3
  <2> QED BY <2>1, <2>4
<1>3. DOMAIN parts = 1..Len(content) /\ parts = [i \in 1..Len(content) |-> parts[i]] /\ Len(content) \in Nat
  BY ContentIs DEF PartsOf
<1>4. parts \in Seq(Seq(Symbols)) /\ Len(parts) = Len(content)
  BY <1>2, <1>3
<1> QED BY <1>2, <1>3, <1>4

\* What one pair gives the index of a name.
LEMMA InsertionsInIs ==
  ASSUME NEW q, NEW p, p.symbols \in Seq(Symbols), NEW r, r = FileRank[p.meta.file]
  PROVE  InsertionsIn(q, p) = Mapped(Insert(q, r), p.symbols)
<1>1. \A j \in DOMAIN p.symbols :
        Insert(q, r)[p.symbols[j]] =
          IF p.symbols[j].fqn = q THEN <<[file |-> p.symbols[j].file, rank |-> FileRank[p.meta.file]]>> ELSE <<>>
  <2> TAKE j \in DOMAIN p.symbols
  <2>1. p.symbols[j] \in Symbols
    OBVIOUS
  <2> QED BY <2>1 DEF Insert
<1>2. [j \in DOMAIN p.symbols |-> Insert(q, r)[p.symbols[j]]] =
      [j \in DOMAIN p.symbols |->
         IF p.symbols[j].fqn = q THEN <<[file |-> p.symbols[j].file, rank |-> FileRank[p.meta.file]]>> ELSE <<>>]
  BY <1>1
<1> QED BY <1>2 DEF InsertionsIn, Mapped

\* Given the insertions pair by pair, it has them all.
LEMMA InsertionsAre ==
  ASSUME NEW content \in Jars, NEW q, NEW pairs, DOMAIN pairs = 1..Len(content),
         NEW given, \A i \in 1..Len(content) : InsertionsIn(q, pairs[i]) = given[i] /\ given[i] \in Seq(Inserted),
         given = [i \in 1..Len(content) |-> given[i]]
  PROVE  /\ Insertions(q, pairs) = FlattenSeq(given)
         /\ given \in Seq(Seq(Inserted)) /\ Len(given) = Len(content)
         /\ Insertions(q, pairs) \in Seq(Inserted)
<1>0. Len(content) \in Nat
  BY ContentIs
<1>1. [i \in DOMAIN pairs |-> InsertionsIn(q, pairs[i])] = given
  OBVIOUS
<1>2. Insertions(q, pairs) = FlattenSeq(given)
  BY <1>1 DEF Insertions
<1>3. given \in Seq(Seq(Inserted)) /\ Len(given) = Len(content)
  BY <1>0
<1> QED BY <1>2, <1>3, FlatType

LEMMA PairsAre ==
  ASSUME NEW content \in Jars
  PROVE  /\ DOMAIN Cold(content) = 1..Len(content) /\ DOMAIN Hot(content) = 1..Len(content)
         /\ \A i \in 1..Len(content) :
              /\ Cold(content)[i].symbols = PartsOf(content)[i]
              /\ Cold(content)[i].meta.file = content[i].file
              /\ Hot(content)[i].symbols = Mapped(Select(content[i].ns), FlattenSeq(PartsOf(content)))
              /\ Hot(content)[i].meta.file = content[i].file
<1> PICK n : n = Len(content)
  OBVIOUS
<1>0. n \in Nat /\ DOMAIN content = 1..n
  BY ContentIs
<1> PICK read, cold : read = IndexJar(content, 0) /\ cold = read.pairs
  OBVIOUS
<1>1. /\ DOMAIN cold = 1..n
      /\ \A i \in 1..n : /\ cold[i].meta = [file |-> content[i].file, ns |-> content[i].ns]
                         /\ cold[i].symbols = PartsOf(content)[i]
  BY <1>0 DEF IndexJar, PartsOf, SymbolOf
<1> PICK entry : entry = EntryOf(read, 0)
  OBVIOUS
<1>2. DOMAIN entry.namespaces = 1..n /\ \A i \in 1..n : entry.namespaces[i] = cold[i].meta
  BY <1>1 DEF EntryOf
<1>3. entry.symbols = FlattenSeq(PartsOf(content))
  <2>1. entry.symbols = FlattenSeq([i \in DOMAIN cold |-> cold[i].symbols])
    BY DEF EntryOf
  <2>2. PartsOf(content) = [i \in 1..n |-> PartsOf(content)[i]]
    BY <1>0 DEF PartsOf
  <2>3. [i \in DOMAIN cold |-> cold[i].symbols] = PartsOf(content)
    BY <1>1, <2>2
  <2> QED BY <2>1, <2>3
<1>4. FlattenSeq(PartsOf(content)) \in Seq(Symbols)
  BY PartsAre, FlatType
<1>5. ASSUME NEW e \in Seq(Symbols), NEW ns PROVE Naming(e, ns) = Mapped(Select(ns), e)
  <2>1. \A j \in DOMAIN e : Select(ns)[e[j]] = IF e[j].ns = ns THEN <<e[j]>> ELSE <<>>
    <3> TAKE j \in DOMAIN e
    <3>1. e[j] \in Symbols
      OBVIOUS
    <3> QED BY <3>1 DEF Select
  <2>2. [j \in DOMAIN e |-> Select(ns)[e[j]]] = [j \in DOMAIN e |-> IF e[j].ns = ns THEN <<e[j]>> ELSE <<>>]
    BY <2>1
  <2> QED BY <2>2 DEF Naming, Mapped
<1> PICK hot : hot = Regrouped(entry).pairs
  OBVIOUS
<1>6. /\ DOMAIN hot = 1..n
      /\ \A i \in 1..n : /\ hot[i].meta = entry.namespaces[i]
                         /\ hot[i].symbols = Naming(entry.symbols, entry.namespaces[i].ns)
  BY <1>2 DEF Regrouped
<1>7. ASSUME NEW i \in 1..n
      PROVE  /\ cold[i].symbols = PartsOf(content)[i] /\ cold[i].meta.file = content[i].file
             /\ hot[i].symbols = Mapped(Select(content[i].ns), FlattenSeq(PartsOf(content)))
             /\ hot[i].meta.file = content[i].file
  <2> PICK meta : meta = entry.namespaces[i]
    OBVIOUS
  <2>1. cold[i].meta = meta /\ hot[i].meta = meta
    BY <1>2, <1>6
  <2>2. meta = [file |-> content[i].file, ns |-> content[i].ns] /\ cold[i].symbols = PartsOf(content)[i]
    BY <1>1, <2>1
  <2>3. meta.file = content[i].file /\ meta.ns = content[i].ns
    BY ONLY <2>2
  <2>4. hot[i].symbols = Naming(entry.symbols, content[i].ns)
    BY <1>6, <2>3
  <2>5. hot[i].symbols = Mapped(Select(content[i].ns), FlattenSeq(PartsOf(content)))
    BY <1>3, <1>4, <1>5, <2>4
  <2> QED BY <2>1, <2>2, <2>3, <2>5
<1>8. Cold(content) = cold /\ Hot(content) = hot
  BY DEF Cold, Hot
<1> QED BY <1>1, <1>6, <1>7, <1>8

\* What is given of a name in each case, pair by pair.
ColdGiven(content, q) ==
  [i \in 1..Len(content) |-> Mapped(Insert(q, Rank(content, i)), PartsOf(content)[i])]
HotGiven(content, q) ==
  [k \in 1..Len(content) |-> IF IsHome(content, k, q)
                             THEN Mapped(Insert(q, Rank(content, k)), FlattenSeq(PartsOf(content))) ELSE <<>>]

LEMMA ColdIs ==
  ASSUME NEW content \in Jars, NEW q
  PROVE  /\ Insertions(q, Cold(content)) = FlattenSeq(ColdGiven(content, q))
         /\ ColdGiven(content, q) \in Seq(Seq(Inserted)) /\ Len(ColdGiven(content, q)) = Len(content)
         /\ Insertions(q, Cold(content)) \in Seq(Inserted)
<1> PICK given, cold : given = ColdGiven(content, q) /\ cold = Cold(content)
  OBVIOUS
<1>1. ASSUME NEW i \in 1..Len(content)
      PROVE  InsertionsIn(q, cold[i]) = given[i] /\ given[i] \in Seq(Inserted)
  <2> PICK p, r : p = cold[i] /\ r = Rank(content, i)
    OBVIOUS
  <2>1. p.symbols = PartsOf(content)[i] /\ p.symbols \in Seq(Symbols) /\ r = FileRank[p.meta.file] /\ r \in Nat
    BY PairsAre, PartsAre, ContentIs DEF Rank
  <2>2. InsertionsIn(q, p) = Mapped(Insert(q, r), p.symbols)
    BY ONLY <2>1, InsertionsInIs
  <2>3. Maps(Insert(q, r), Symbols, Inserted)
    BY <2>1, InsertIs
  <2>4. Mapped(Insert(q, r), p.symbols) \in Seq(Inserted)
    BY <2>1, <2>3, MappedParts
  <2>5. given[i] = Mapped(Insert(q, r), p.symbols)
    BY <2>1 DEF ColdGiven
  <2> QED BY <2>2, <2>4, <2>5
<1>2. given = [i \in 1..Len(content) |-> given[i]] /\ DOMAIN cold = 1..Len(content)
  BY PairsAre DEF ColdGiven
<1>3. /\ Insertions(q, cold) = FlattenSeq(given) /\ given \in Seq(Seq(Inserted)) /\ Len(given) = Len(content)
      /\ Insertions(q, cold) \in Seq(Inserted)
  BY <1>1, <1>2, InsertionsAre
<1> QED BY <1>3

LEMMA HotIs ==
  ASSUME NEW content \in Jars, NEW q \in Fqns
  PROVE  /\ Insertions(q, Hot(content)) = FlattenSeq(HotGiven(content, q))
         /\ HotGiven(content, q) \in Seq(Seq(Inserted)) /\ Len(HotGiven(content, q)) = Len(content)
         /\ Insertions(q, Hot(content)) \in Seq(Inserted)
<1> PICK given, hot, e : given = HotGiven(content, q) /\ hot = Hot(content) /\ e = FlattenSeq(PartsOf(content))
  OBVIOUS
<1>0. e \in Seq(Symbols)
  BY PartsAre, FlatType
<1>1. ASSUME NEW i \in 1..Len(content)
      PROVE  InsertionsIn(q, hot[i]) = given[i] /\ given[i] \in Seq(Inserted)
  <2> PICK p, r, ns : p = hot[i] /\ r = Rank(content, i) /\ ns = content[i].ns
    OBVIOUS
  <2>1. p.symbols = Mapped(Select(ns), e) /\ r = FileRank[p.meta.file] /\ r \in Nat
    BY PairsAre, ContentIs DEF Rank
  <2>2. Maps(Select(ns), Symbols, Symbols) /\ Maps(Insert(q, r), Symbols, Inserted)
    BY <2>1, InsertIs, SelectIs
  <2>3. p.symbols \in Seq(Symbols)
    BY <1>0, <2>1, <2>2, MappedParts
  <2>4. InsertionsIn(q, p) = Mapped(Insert(q, r), p.symbols)
    BY ONLY <2>1, <2>3, InsertionsInIs
  <2>5. Mapped(Insert(q, r), Mapped(Select(ns), e)) =
          IF ns = NamespaceOf[q] THEN Mapped(Insert(q, r), e) ELSE <<>>
    BY <1>0, <2>1, GroupedInsert
  <2>6. given[i] = IF ns = NamespaceOf[q] THEN Mapped(Insert(q, r), e) ELSE <<>>
    BY DEF HotGiven, IsHome
  <2>7. Mapped(Insert(q, r), p.symbols) \in Seq(Inserted)
    BY <2>2, <2>3, MappedParts
  <2>8. InsertionsIn(q, p) = given[i]
    BY <2>1, <2>4, <2>5, <2>6
  <2> QED BY <2>4, <2>7, <2>8
<1>2. given = [i \in 1..Len(content) |-> given[i]] /\ DOMAIN hot = 1..Len(content)
  BY PairsAre DEF HotGiven
<1>3. /\ Insertions(q, hot) = FlattenSeq(given) /\ given \in Seq(Seq(Inserted)) /\ Len(given) = Len(content)
      /\ Insertions(q, hot) \in Seq(Inserted)
  BY <1>1, <1>2, InsertionsAre
<1> QED BY <1>3

\* What one file gives of a name.
LEMMA PartGives ==
  ASSUME NEW content \in Jars, NEW q, NEW i \in 1..Len(content), NEW r \in Nat
  PROVE  /\ Mapped(Insert(q, r), PartsOf(content)[i]) \in Seq(Inserted)
         /\ \A x : In(x, Mapped(Insert(q, r), PartsOf(content)[i])) <=>
                     Defines(content, i, q) /\ x = Entered(content[i].file, r)
<1> PICK s, G, f, defs : s = PartsOf(content)[i] /\ G = Insert(q, r) /\ f = content[i].file /\ defs = content[i].defs
  OBVIOUS
<1>1. /\ s \in Seq(Symbols) /\ DOMAIN s = DOMAIN defs /\ Maps(G, Symbols, Inserted)
      /\ \A j \in DOMAIN defs : s[j] = SymbolOf(defs[j], f)
  BY PartsAre, InsertIs
<1>2. Mapped(G, s) \in Seq(Inserted)
  BY <1>1, MappedParts
<1>3. \A x : In(x, Mapped(G, s)) <=> \E j \in 1..Len(s) : In(x, G[s[j]])
  BY <1>1, MappedElements
<1>4. ASSUME NEW j \in DOMAIN defs
      PROVE  G[s[j]] = IF defs[j] = q THEN <<Entered(f, r)>> ELSE <<>>
  <2> PICK x : x = s[j]
    OBVIOUS
  <2>1. x \in Symbols /\ x = SymbolOf(defs[j], f)
    BY <1>1
  <2>2. x.fqn = defs[j] /\ x.file = f
    BY <2>1 DEF SymbolOf
  <2> QED BY <2>1, <2>2 DEF Insert, Entered
<1>5. \A x, y : In(x, <<y>>) <=> x = y
  BY DEF In
<1>6. \A x : ~In(x, <<>>)
  BY DEF In
<1>7. \A x, j : j \in DOMAIN defs => (In(x, G[s[j]]) <=> defs[j] = q /\ x = Entered(f, r))
  BY <1>4, <1>5, <1>6
<1>8. 1..Len(s) = DOMAIN defs
  BY <1>1
<1> QED BY <1>2, <1>3, <1>7, <1>8 DEF Defines

DefinesOnce(content, i, q) ==
  \E j \in DOMAIN content[i].defs :
    content[i].defs[j] = q /\ \A l \in DOMAIN content[i].defs : content[i].defs[l] = q => l = j

LEMMA PartOnce ==
  ASSUME NEW content \in Jars, NEW q, NEW i \in 1..Len(content), NEW r \in Nat,
         DefinesOnce(content, i, q)
  PROVE  Mapped(Insert(q, r), PartsOf(content)[i]) = <<Entered(content[i].file, r)>>
<1> PICK a \in DOMAIN content[i].defs :
      content[i].defs[a] = q /\ \A l \in DOMAIN content[i].defs : content[i].defs[l] = q => l = a
  BY DEF DefinesOnce
<1> PICK s, G, f, defs : s = PartsOf(content)[i] /\ G = Insert(q, r) /\ f = content[i].file /\ defs = content[i].defs
  OBVIOUS
<1>1. /\ s \in Seq(Symbols) /\ DOMAIN s = DOMAIN defs /\ Maps(G, Symbols, Inserted)
      /\ \A j \in DOMAIN defs : s[j] = SymbolOf(defs[j], f)
  BY PartsAre, InsertIs
<1>2. ASSUME NEW j \in DOMAIN defs
      PROVE  G[s[j]] = IF defs[j] = q THEN <<Entered(f, r)>> ELSE <<>>
  <2> PICK x : x = s[j]
    OBVIOUS
  <2>1. x \in Symbols /\ x = SymbolOf(defs[j], f)
    BY <1>1
  <2>2. x.fqn = defs[j] /\ x.file = f
    BY <2>1 DEF SymbolOf
  <2> QED BY <2>1, <2>2 DEF Insert, Entered
<1>3. 1..Len(s) = DOMAIN defs
  BY <1>1
<1>4. OnlyAt(a, G, s)
  BY <1>2, <1>3 DEF OnlyAt
<1>5. Mapped(G, s) = G[s[a]]
  BY <1>1, <1>4, MappedOne
<1> QED BY <1>2, <1>5

LEMMA NoElements ==
  ASSUME NEW S, NEW s \in Seq(S), \A x : ~In(x, s)
  PROVE  s = <<>>
<1>1. \A j \in 1..Len(s) : FALSE
  BY DEF In
<1>2. Len(s) \in Nat
  OBVIOUS
<1>3. Len(s) = 0
  BY <1>1, <1>2
<1> QED BY <1>3, EmptySeq

LEMMA ColdElements ==
  ASSUME NEW content \in Jars, NEW q, NEW x
  PROVE  In(x, Insertions(q, Cold(content))) <=>
           \E i \in 1..Len(content) : Defines(content, i, q) /\ x = Entered(content[i].file, Rank(content, i))
<1> PICK given, n : given = ColdGiven(content, q) /\ n = Len(content)
  OBVIOUS
<1>1. given \in Seq(Seq(Inserted)) /\ Len(given) = n /\ Insertions(q, Cold(content)) = FlattenSeq(given)
  BY ColdIs
<1>2. In(x, FlattenSeq(given)) <=> \E i \in 1..n : In(x, given[i])
  <2>1. given \in Seq(Seq(Inserted))
    BY <1>1
  <2>2. In(x, FlattenSeq(given)) <=> \E i \in 1..Len(given) : In(x, given[i])
    BY ONLY <2>1, FlatElements
  <2> QED BY <1>1, <2>2
<1>3. ASSUME NEW i \in 1..n
      PROVE  In(x, given[i]) <=> Defines(content, i, q) /\ x = Entered(content[i].file, Rank(content, i))
  <2>1. Rank(content, i) \in Nat /\ i \in 1..Len(content)
    BY ContentIs
  <2>2. given[i] = Mapped(Insert(q, Rank(content, i)), PartsOf(content)[i])
    BY <2>1 DEF ColdGiven
  <2> QED BY <2>1, <2>2, PartGives
<1> QED BY <1>1, <1>2, <1>3

\* Of the lists together.
LEMMA AllGive ==
  ASSUME NEW content \in Jars, NEW q, NEW r \in Nat
  PROVE  /\ Mapped(Insert(q, r), FlattenSeq(PartsOf(content))) = FlattenSeq(Each(Insert(q, r), PartsOf(content)))
         /\ Each(Insert(q, r), PartsOf(content)) \in Seq(Seq(Inserted))
         /\ Len(Each(Insert(q, r), PartsOf(content))) = Len(content)
         /\ \A i \in 1..Len(content) :
              Each(Insert(q, r), PartsOf(content))[i] = Mapped(Insert(q, r), PartsOf(content)[i])
<1> PICK p, G : p = PartsOf(content) /\ G = Insert(q, r)
  OBVIOUS
<1>1. p \in Seq(Seq(Symbols)) /\ Len(p) = Len(content) /\ Maps(G, Symbols, Inserted)
  BY PartsAre, InsertIs
<1>2. /\ Mapped(G, FlattenSeq(p)) = FlattenSeq(Each(G, p))
      /\ Each(G, p) \in Seq(Seq(Inserted)) /\ Len(Each(G, p)) = Len(p)
      /\ \A i \in 1..Len(p) : Each(G, p)[i] = Mapped(G, p[i])
  BY ONLY <1>1, MappedFlat
<1> QED BY <1>1, <1>2

LEMMA HotElements ==
  ASSUME NEW content \in Jars, NEW q \in Fqns, NEW x
  PROVE  In(x, Insertions(q, Hot(content))) <=>
           \E i, k \in 1..Len(content) :
             IsHome(content, k, q) /\ Defines(content, i, q) /\ x = Entered(content[i].file, Rank(content, k))
<1> PICK given, n : given = HotGiven(content, q) /\ n = Len(content)
  OBVIOUS
<1>1. given \in Seq(Seq(Inserted)) /\ Len(given) = n /\ Insertions(q, Hot(content)) = FlattenSeq(given)
  BY HotIs
<1>2. In(x, FlattenSeq(given)) <=> \E k \in 1..n : In(x, given[k])
  <2>1. given \in Seq(Seq(Inserted))
    BY <1>1
  <2>2. In(x, FlattenSeq(given)) <=> \E i \in 1..Len(given) : In(x, given[i])
    BY ONLY <2>1, FlatElements
  <2> QED BY <1>1, <2>2
<1>3. ASSUME NEW k \in 1..n
      PROVE  In(x, given[k]) <=>
               \E i \in 1..n : /\ IsHome(content, k, q) /\ Defines(content, i, q)
                               /\ x = Entered(content[i].file, Rank(content, k))
  <2> PICK r, t : r = Rank(content, k) /\ t = Each(Insert(q, r), PartsOf(content))
    OBVIOUS
  <2>1. r \in Nat /\ k \in 1..Len(content)
    BY ContentIs
  <2>2. given[k] = IF IsHome(content, k, q) THEN FlattenSeq(t) ELSE <<>>
    BY <2>1, AllGive DEF HotGiven
  <2>3. t \in Seq(Seq(Inserted)) /\ Len(t) = n
    BY <2>1, AllGive
  <2>4. In(x, FlattenSeq(t)) <=> \E i \in 1..n : In(x, t[i])
    <3>1. t \in Seq(Seq(Inserted))
      BY <2>3
    <3>2. In(x, FlattenSeq(t)) <=> \E i \in 1..Len(t) : In(x, t[i])
      BY ONLY <3>1, FlatElements
    <3> QED BY <2>3, <3>2
  <2>5. ASSUME NEW i \in 1..n
        PROVE  In(x, t[i]) <=> Defines(content, i, q) /\ x = Entered(content[i].file, r)
    <3>1. t[i] = Mapped(Insert(q, r), PartsOf(content)[i])
      BY <2>1, AllGive
    <3>2. i \in 1..Len(content)
      OBVIOUS
    <3>3. In(x, Mapped(Insert(q, r), PartsOf(content)[i])) <=>
            Defines(content, i, q) /\ x = Entered(content[i].file, r)
      BY ONLY <2>1, <3>2, content \in Jars, PartGives
    <3> QED BY <3>1, <3>3
  <2>6. ~In(x, <<>>)
    BY DEF In
  <2> QED BY <2>2, <2>4, <2>5, <2>6
<1> QED BY <1>1, <1>2, <1>3

\* A name that one file defines, or none: every slot has that file.
LEMMA OneFileAgrees ==
  ASSUME NEW content \in Jars, NEW q \in Fqns,
         NEW k \in 1..Len(content), IsHome(content, k, q),
         NEW d \in 1..Len(content), Defines(content, d, q),
         \A i \in 1..Len(content) : Defines(content, i, q) => i = d
  PROVE  AnswersFor(q, Hot(content)) = AnswersFor(q, Cold(content))
<1> PICK f : f = content[d].file
  OBVIOUS
<1>0. f \in JarFiles /\ f # NoFile
  <2>1. NoFile \notin JarFiles
    BY JarAssumption
  <2> QED BY <2>1, ContentIs
<1>1. ASSUME NEW ins \in Seq(Inserted), NEW r, In(Entered(f, r), ins),
             \A x : In(x, ins) => \E m : x = Entered(f, m)
      PROVE  Slots(ins)[Len(ins)] \in OneFile(f)
  <2>1. \A i \in 1..Len(ins) : ins[i].file = f
    <3> TAKE i \in 1..Len(ins)
    <3>1. In(ins[i], ins)
      BY DEF In
    <3>2. PICK m : ins[i] = Entered(f, m)
      BY <1>1, <3>1
    <3> QED BY <3>2 DEF Entered
  <2>2. ins # <<>>
    BY <1>1 DEF In
  <2> QED BY <1>0, <2>1, <2>2, OneFileIs
<1> PICK hot, cold : hot = Insertions(q, Hot(content)) /\ cold = Insertions(q, Cold(content))
  OBVIOUS
<1>2. Slots(cold)[Len(cold)] \in OneFile(f)
  <2>1. cold \in Seq(Inserted)
    BY ColdIs
  <2>2. In(Entered(f, Rank(content, d)), cold)
    BY ColdElements
  <2>3. \A x : In(x, cold) => \E m : x = Entered(f, m)
    BY ColdElements
  <2> QED BY <1>1, <2>1, <2>2, <2>3
<1>3. Slots(hot)[Len(hot)] \in OneFile(f)
  <2>1. hot \in Seq(Inserted)
    BY HotIs
  <2>2. In(Entered(f, Rank(content, k)), hot)
    BY HotElements
  <2>3. \A x : In(x, hot) => \E m : x = Entered(f, m)
    BY HotElements
  <2> QED BY <1>1, <2>1, <2>2, <2>3
<1> PICK a, b : a = SlotOf(q, Hot(content)) /\ b = SlotOf(q, Cold(content))
  OBVIOUS
<1>4. a \in OneFile(f) /\ b \in OneFile(f)
  BY <1>2, <1>3 DEF SlotOf
<1>5. \A c \in OneFile(f) : /\ c.primary = f /\ (IF c.shadow = NoFile THEN c.primary ELSE c.shadow) = f
                            /\ {c.primary, c.shadow} \ {NoFile} = {f}
  BY <1>0 DEF OneFile
<1> QED BY <1>4, <1>5 DEF AnswersFor

LEMMA NoneAgrees ==
  ASSUME NEW content \in Jars, NEW q \in Fqns,
         \A i \in 1..Len(content) : ~Defines(content, i, q)
  PROVE  AnswersFor(q, Hot(content)) = AnswersFor(q, Cold(content))
<1> PICK hot, cold : hot = Insertions(q, Hot(content)) /\ cold = Insertions(q, Cold(content))
  OBVIOUS
<1>1. cold = <<>>
  <2>1. cold \in Seq(Inserted) /\ \A x : ~In(x, cold)
    BY ColdIs, ColdElements
  <2> QED BY <2>1, NoElements
<1>2. hot = <<>>
  <2>1. hot \in Seq(Inserted) /\ \A x : ~In(x, hot)
    BY HotIs, HotElements
  <2> QED BY <2>1, NoElements
<1>3. SlotOf(q, Hot(content)) = SlotOf(q, Cold(content))
  BY <1>1, <1>2 DEF SlotOf
<1> QED BY <1>3 DEF AnswersFor

LEMMA Joined ==
  /\ \A x, y : <<x>> \o <<y>> = <<x, y>>
  /\ \A x, y, z, w : <<x, y>> \o <<z, w>> = <<x, y, z, w>>
<1>1. ASSUME NEW x, NEW y PROVE <<x>> \o <<y>> = <<x, y>>
  <2> PICK s, t, u : s = <<x>> /\ t = <<y>> /\ u = s \o t
    OBVIOUS
  <2>1. s \in Seq({x, y}) /\ t \in Seq({x, y}) /\ Len(s) = 1 /\ Len(t) = 1 /\ s[1] = x /\ t[1] = y
    OBVIOUS
  <2>2. u \in Seq({x, y}) /\ Len(u) = 2 /\ u[1] = x /\ u[2] = y
    BY <2>1
  <2> PICK v : v = <<x, y>>
    OBVIOUS
  <2>3. v \in Seq({x, y}) /\ Len(v) = 2 /\ v[1] = x /\ v[2] = y
    OBVIOUS
  <2>4. u = v
    BY ONLY <2>2, <2>3, SeqEqual
  <2> QED BY <2>4
<1>2. ASSUME NEW x, NEW y, NEW z, NEW w PROVE <<x, y>> \o <<z, w>> = <<x, y, z, w>>
  <2> PICK s, t, u : s = <<x, y>> /\ t = <<z, w>> /\ u = s \o t
    OBVIOUS
  <2>1. /\ s \in Seq({x, y, z, w}) /\ t \in Seq({x, y, z, w}) /\ Len(s) = 2 /\ Len(t) = 2
        /\ s[1] = x /\ s[2] = y /\ t[1] = z /\ t[2] = w
    OBVIOUS
  <2>2. u \in Seq({x, y, z, w}) /\ Len(u) = 4 /\ u[1] = x /\ u[2] = y /\ u[3] = z /\ u[4] = w
    BY <2>1
  <2> PICK v : v = <<x, y, z, w>>
    OBVIOUS
  <2>3. v \in Seq({x, y, z, w}) /\ Len(v) = 4 /\ v[1] = x /\ v[2] = y /\ v[3] = z /\ v[4] = w
    OBVIOUS
  <2>4. u = v
    <3>1. \A i \in 1..4 : u[i] = v[i]
      <4>1. \A i \in 1..4 : i = 1 \/ i = 2 \/ i = 3 \/ i = 4
        OBVIOUS
      <4> QED BY <2>2, <2>3, <4>1
    <3>2. Len(u) = 4 /\ Len(v) = 4 /\ u \in Seq({x, y, z, w}) /\ v \in Seq({x, y, z, w})
      BY <2>2, <2>3
    <3> QED BY ONLY <3>1, <3>2, SeqEqual
  <2> QED BY <2>4
<1> QED BY <1>1, <1>2

DefinedByTwo(content, q, a, b) ==
  /\ a \in 1..Len(content) /\ b \in 1..Len(content) /\ a < b
  /\ \A k \in 1..Len(content) : IsHome(content, k, q) <=> k \in {a, b}
  /\ \A i \in 1..Len(content) : Defines(content, i, q) => i \in {a, b}
  /\ DefinesOnce(content, a, q) /\ DefinesOnce(content, b, q)

\* A name that the two files of its namespace define once each.
LEMMA TwoFilesAgree ==
  ASSUME NEW content \in Jars, NEW q \in Fqns, NEW a, NEW b, DefinedByTwo(content, q, a, b)
  PROVE  AnswersFor(q, Hot(content)) = AnswersFor(q, Cold(content))
<1> USE DEF DefinedByTwo
<1> PICK f, g, n, ra, rb : /\ f = content[a].file /\ g = content[b].file /\ n = Len(content)
                           /\ ra = Rank(content, a) /\ rb = Rank(content, b)
  OBVIOUS
<1>0. f \in JarFiles /\ g \in JarFiles /\ ra = FileRank[f] /\ rb = FileRank[g] /\ ra \in Nat /\ rb \in Nat
  BY ContentIs DEF Rank
<1>1. ASSUME NEW r \in Nat
      PROVE  /\ Mapped(Insert(q, r), PartsOf(content)[a]) = <<Entered(f, r)>>
             /\ Mapped(Insert(q, r), PartsOf(content)[b]) = <<Entered(g, r)>>
             /\ \A i \in 1..n : i # a /\ i # b => Mapped(Insert(q, r), PartsOf(content)[i]) = <<>>
  <2>1. Mapped(Insert(q, r), PartsOf(content)[a]) = <<Entered(f, r)>>
    BY PartOnce
  <2>2. Mapped(Insert(q, r), PartsOf(content)[b]) = <<Entered(g, r)>>
    BY PartOnce
  <2>3. ASSUME NEW i \in 1..n, i # a, i # b PROVE Mapped(Insert(q, r), PartsOf(content)[i]) = <<>>
    <3> PICK s : s = Mapped(Insert(q, r), PartsOf(content)[i])
      OBVIOUS
    <3>1. ~Defines(content, i, q)
      BY <2>3
    <3>2. s \in Seq(Inserted) /\ \A x : ~In(x, s)
      BY <3>1, PartGives
    <3> QED BY <3>2, NoElements
  <2> QED BY <2>1, <2>2, <2>3
<1> PICK once, twice : /\ once = <<Entered(f, ra), Entered(g, rb)>>
                       /\ twice = <<Entered(f, ra), Entered(g, ra), Entered(f, rb), Entered(g, rb)>>
  OBVIOUS
<1>2. Insertions(q, Cold(content)) = once
  <2> PICK p : p = ColdGiven(content, q)
    OBVIOUS
  <2>1. p \in Seq(Seq(Inserted)) /\ Len(p) = n /\ Insertions(q, Cold(content)) = FlattenSeq(p)
    BY ColdIs
  <2>2. \A i \in 1..n : p[i] = Mapped(Insert(q, Rank(content, i)), PartsOf(content)[i]) /\ Rank(content, i) \in Nat
    BY ContentIs DEF ColdGiven
  <2>3. p[a] = <<Entered(f, ra)>> /\ p[b] = <<Entered(g, rb)>> /\ \A i \in 1..n : i # a /\ i # b => p[i] = <<>>
    BY <1>1, <2>2
  <2>4. Spread(p, a, b)
    BY <2>1, <2>3 DEF Spread
  <2>5. FlattenSeq(p) = p[a] \o p[b]
    BY <2>1, <2>4, FlatSpread
  <2>6. <<Entered(f, ra)>> \o <<Entered(g, rb)>> = once
    BY Joined
  <2> QED BY <2>1, <2>3, <2>5, <2>6
<1>3. ASSUME NEW r \in Nat
      PROVE  Mapped(Insert(q, r), FlattenSeq(PartsOf(content))) = <<Entered(f, r), Entered(g, r)>>
  <2> PICK p : p = Each(Insert(q, r), PartsOf(content))
    OBVIOUS
  <2>1. p \in Seq(Seq(Inserted)) /\ Len(p) = n
        /\ Mapped(Insert(q, r), FlattenSeq(PartsOf(content))) = FlattenSeq(p)
    BY AllGive
  <2>2. \A i \in 1..n : p[i] = Mapped(Insert(q, r), PartsOf(content)[i])
    BY AllGive
  <2>3. p[a] = <<Entered(f, r)>> /\ p[b] = <<Entered(g, r)>> /\ \A i \in 1..n : i # a /\ i # b => p[i] = <<>>
    BY <1>1, <2>2
  <2>4. Spread(p, a, b)
    BY <2>1, <2>3 DEF Spread
  <2>5. FlattenSeq(p) = p[a] \o p[b]
    BY <2>1, <2>4, FlatSpread
  <2>6. <<Entered(f, r)>> \o <<Entered(g, r)>> = <<Entered(f, r), Entered(g, r)>>
    BY Joined
  <2> QED BY <2>1, <2>3, <2>5, <2>6
<1>4. Insertions(q, Hot(content)) = twice
  <2> PICK p : p = HotGiven(content, q)
    OBVIOUS
  <2>1. p \in Seq(Seq(Inserted)) /\ Len(p) = n /\ Insertions(q, Hot(content)) = FlattenSeq(p)
    BY HotIs
  <2>2. \A i \in 1..n : p[i] = IF i \in {a, b}
                               THEN Mapped(Insert(q, Rank(content, i)), FlattenSeq(PartsOf(content))) ELSE <<>>
    BY DEF HotGiven
  <2>3. /\ p[a] = <<Entered(f, ra), Entered(g, ra)>> /\ p[b] = <<Entered(f, rb), Entered(g, rb)>>
        /\ \A i \in 1..n : i # a /\ i # b => p[i] = <<>>
    BY <1>0, <1>3, <2>2
  <2>4. Spread(p, a, b)
    BY <2>1, <2>3 DEF Spread
  <2>5. FlattenSeq(p) = p[a] \o p[b]
    BY <2>1, <2>4, FlatSpread
  <2>6. <<Entered(f, ra), Entered(g, ra)>> \o <<Entered(f, rb), Entered(g, rb)>> = twice
    BY Joined
  <2> QED BY <2>1, <2>3, <2>5, <2>6
<1>5. Len(once) = 2 /\ Len(twice) = 4
  OBVIOUS
<1>6. Slots(twice)[4] = Slots(once)[2]
  BY <1>0, TwoFilesAre
<1>7. SlotOf(q, Hot(content)) = SlotOf(q, Cold(content))
  BY <1>2, <1>4, <1>5, <1>6 DEF SlotOf
<1> QED BY <1>7 DEF AnswersFor

\* The regrouping is right where Regroups says so.
LEMMA RegroupedAnswers ==
  ASSUME NEW content \in Jars, NEW q \in Fqns, Regroups(q, content)
  PROVE  AnswersFor(q, Hot(content)) = AnswersFor(q, Cold(content))
<1> PICK at, homes, n : at = DefinitionsOf(q, content) /\ homes = HomesOf(q, content) /\ n = Len(content)
  OBVIOUS
<1>1. n \in Nat /\ DOMAIN content = 1..n
  BY ContentIs
<1>2. /\ at # {} => homes # {}
      /\ \/ \A d, e \in at : d[1] = e[1]
         \/ \E d, e \in at : d[1] < e[1] /\ at = {d, e} /\ homes = {d[1], e[1]}
  BY DEF Regroups
<1>3. \A k : k \in homes <=> k \in 1..n /\ IsHome(content, k, q)
  BY <1>1 DEF HomesOf, IsHome
<1>4. \A i, j : i \in 1..n /\ j \in DOMAIN content[i].defs /\ content[i].defs[j] = q => <<i, j>> \in at
  BY <1>1 DEF DefinitionsOf
<1>5. ASSUME NEW d \in at
      PROVE  /\ d[1] \in 1..n /\ d[2] \in DOMAIN content[d[1]].defs /\ content[d[1]].defs[d[2]] = q
             /\ Defines(content, d[1], q)
  <2>1. PICK i \in 1..n : d \in {<<i, j>> : j \in {k \in DOMAIN content[i].defs : content[i].defs[k] = q}}
    BY <1>1, <1>5 DEF DefinitionsOf
  <2>2. PICK j \in DOMAIN content[i].defs : content[i].defs[j] = q /\ d = <<i, j>>
    BY <2>1
  <2>3. d[1] = i /\ d[2] = j
    BY <2>2
  <2> QED BY <2>2, <2>3 DEF Defines
<1>6. \A i \in 1..n : Defines(content, i, q) => \E j : <<i, j>> \in at
  BY <1>4 DEF Defines
<1>7. CASE at = {}
  <2>1. \A i \in 1..Len(content) : ~Defines(content, i, q)
    BY <1>6, <1>7
  <2> QED BY <2>1, NoneAgrees
<1>8. CASE at # {} /\ \A d, e \in at : d[1] = e[1]
  <2> PICK d : d \in at
    BY <1>8
  <2> PICK i : i = d[1]
    OBVIOUS
  <2>1. i \in 1..Len(content) /\ Defines(content, i, q)
    BY <1>5
  <2>2. \A j \in 1..Len(content) : Defines(content, j, q) => j = i
    <3> SUFFICES ASSUME NEW j \in 1..n, Defines(content, j, q) PROVE j = i
      OBVIOUS
    <3>1. PICK l : <<j, l>> \in at
      BY <1>6
    <3>2. <<j, l>>[1] = j
      OBVIOUS
    <3> QED BY <1>8, <3>1, <3>2
  <2>3. PICK k \in 1..Len(content) : IsHome(content, k, q)
    BY <1>2, <1>3, <1>8
  <2> QED BY <2>1, <2>2, <2>3, OneFileAgrees
<1>9. CASE \E d, e \in at : d[1] < e[1] /\ at = {d, e} /\ homes = {d[1], e[1]}
  <2> PICK d \in at, e \in at : d[1] < e[1] /\ at = {d, e} /\ homes = {d[1], e[1]}
    BY <1>9
  <2> PICK a, b, ja, jb : a = d[1] /\ b = e[1] /\ ja = d[2] /\ jb = e[2]
    OBVIOUS
  <2>1. /\ a \in 1..Len(content) /\ ja \in DOMAIN content[a].defs /\ content[a].defs[ja] = q
        /\ b \in 1..Len(content) /\ jb \in DOMAIN content[b].defs /\ content[b].defs[jb] = q /\ a < b
    BY <1>5
  <2>2. a \in Nat /\ b \in Nat /\ a # b
    BY <2>1
  <2>3. \A i, j : <<i, j>> \in at => (i = a /\ j = ja) \/ (i = b /\ j = jb)
    <3> SUFFICES ASSUME NEW i, NEW j, <<i, j>> \in at PROVE (i = a /\ j = ja) \/ (i = b /\ j = jb)
      OBVIOUS
    <3>1. <<i, j>>[1] = i /\ <<i, j>>[2] = j
      OBVIOUS
    <3> QED BY <3>1
  <2>4. \A k \in 1..Len(content) : IsHome(content, k, q) <=> k \in {a, b}
    BY <1>3
  <2>5. \A i \in 1..Len(content) : Defines(content, i, q) => i \in {a, b}
    BY <1>6, <2>3
  <2>6. \A j \in DOMAIN content[a].defs : content[a].defs[j] = q => j = ja
    BY <1>4, <2>1, <2>2, <2>3
  <2>7. \A j \in DOMAIN content[b].defs : content[b].defs[j] = q => j = jb
    BY <1>4, <2>1, <2>2, <2>3
  <2>8. DefinesOnce(content, a, q) /\ DefinesOnce(content, b, q)
    BY <2>1, <2>6, <2>7 DEF DefinesOnce
  <2>9. DefinedByTwo(content, q, a, b)
    BY <2>1, <2>4, <2>5, <2>8 DEF DefinedByTwo
  <2> QED BY <2>9, TwoFilesAgree
<1> QED BY <1>2, <1>7, <1>8, <1>9

-----------------------------------------------------------------------------
(* The protocol. *)
\* An entry is of a time that the JAR had, and one of the JAR's own time is of
\* what the JAR holds, unless a rewrite went unseen.
IsOfItsTime(entry) ==
  /\ entry.mtime \in Nat /\ entry.mtime <= jar.mtime
  /\ ~moved /\ entry.mtime = jar.mtime => entry = EntryOf(IndexJar(jar.content, entry.version), jar.mtime)

\* What a server holds at each step.
HoldsWhatItRead(s) ==
  /\ step[s] = "check" => IsOfItsTime(got[s]) /\ got[s].version = FormatVersion[s]
  /\ step[s] = "stamp" /\ ~moved => got[s] = IndexJar(jar.content, FormatVersion[s])
  /\ step[s] = "write" => IsOfItsTime(got[s].entry)

JarSteps == {"start", "check", "hit", "index", "stamp", "write", "miss"}
JarType ==
  /\ step \in [Servers -> JarSteps] /\ DOMAIN got = Servers
  /\ now \in Nat /\ jar.mtime \in Nat /\ jar.mtime <= now /\ jar.content \in Jars
  /\ moved \in BOOLEAN

JarInv ==
  /\ JarType
  /\ file.state = "whole" => IsOfItsTime(file)
  /\ \A s \in Servers : HoldsWhatItRead(s)

LEMMA InitJarInv == JarInit => JarInv
<1> SUFFICES ASSUME JarInit PROVE JarInv
  OBVIOUS
<1>1. JarType
  <2>1. step \in [Servers -> JarSteps] /\ DOMAIN got = Servers
    BY DEF JarInit, JarSteps
  <2>2. jar.mtime = 0 /\ now = 0 /\ jar.content \in Jars
    BY DEF JarInit
  <2>3. now \in Nat /\ jar.mtime \in Nat /\ jar.mtime <= now
    BY <2>2
  <2>4. moved \in BOOLEAN
    BY DEF JarInit
  <2> QED BY <2>1, <2>2, <2>3, <2>4 DEF JarType
<1>2. file.state # "whole" /\ \A s \in Servers : step[s] = "start"
  BY DEF JarInit, Absent
<1> QED BY <1>1, <1>2 DEF JarInv, HoldsWhatItRead

\* A step of one server that leaves the JAR alone: the others hold what they held.
LEMMA ServerKeeps ==
  ASSUME JarInv, NEW s \in Servers, UNCHANGED <<jar, now, moved>>,
         NEW pc \in JarSteps, NEW what, Reach(s, pc, what),
         file' = file \/ file'.state = "partial" \/ IsOfItsTime(file'),
         pc = "check" => IsOfItsTime(what) /\ what.version = FormatVersion[s],
         pc = "stamp" /\ ~moved => what = IndexJar(jar.content, FormatVersion[s]),
         pc = "write" => IsOfItsTime(what.entry)
  PROVE  JarInv'
<1>1. \A entry : IsOfItsTime(entry) => IsOfItsTime(entry)'
  BY DEF IsOfItsTime
<1>2. /\ step' = [step EXCEPT ![s] = pc] /\ got' = [got EXCEPT ![s] = what]
      /\ step \in [Servers -> JarSteps] /\ DOMAIN got = Servers
  BY DEF JarInv, JarType, Reach
<1>3. JarType'
  BY <1>2 DEF JarInv, JarType
<1>4. file'.state = "whole" => IsOfItsTime(file)'
  BY <1>1 DEF JarInv, IsOfItsTime
<1>5. HoldsWhatItRead(s)'
  <2>1. step'[s] = pc /\ got'[s] = what
    BY <1>2
  <2> QED BY <2>1 DEF HoldsWhatItRead, IsOfItsTime
<1>6. ASSUME NEW r \in Servers \ {s} PROVE HoldsWhatItRead(r)'
  <2>1. step'[r] = step[r] /\ got'[r] = got[r]
    BY <1>2
  <2> QED BY <2>1 DEF JarInv, HoldsWhatItRead, IsOfItsTime
<1> QED BY <1>3, <1>4, <1>5, <1>6 DEF JarInv

LEMMA ServersKeep ==
  ASSUME JarInv, NEW s \in Servers,
         ReadCache(s) \/ CheckTime(s) \/ ReadJar(s) \/ Stamp(s) \/ Write(s) \/ Restart(s)
  PROVE  JarInv'
<1>1. CASE ReadCache(s) \/ CheckTime(s) \/ ReadJar(s) \/ Restart(s)
  BY <1>1, ServerKeeps DEF ReadCache, CheckTime, ReadJar, Restart, JarInv, Readable, JarSteps
<1>2. CASE Stamp(s)
  <2> PICK entry : entry = EntryOf(got[s], jar.mtime)
    OBVIOUS
  <2> PICK what : what = [read |-> got[s], entry |-> entry]
    OBVIOUS
  <2>1. Reach(s, "write", what) /\ UNCHANGED <<jar, now, moved>> /\ file'.state = "partial"
    BY <1>2 DEF Stamp, Reach, Partial, Absent
  <2>2. entry.mtime = jar.mtime /\ entry.version = got[s].by
    BY DEF EntryOf
  <2>3. IndexJar(jar.content, FormatVersion[s]).by = FormatVersion[s]
    BY DEF IndexJar
  <2>4. ~moved => got[s] = IndexJar(jar.content, FormatVersion[s])
    BY <1>2 DEF Stamp, JarInv, HoldsWhatItRead
  <2>5. jar.mtime \in Nat
    BY DEF JarInv, JarType
  <2>6. IsOfItsTime(what.entry)
    BY <2>2, <2>3, <2>4, <2>5 DEF IsOfItsTime
  <2> QED BY <2>1, <2>6, ServerKeeps DEF JarSteps
<1>3. CASE Write(s)
  <2>1. Reach(s, "miss", got[s].read) /\ UNCHANGED <<jar, now, moved>> /\ file' = got[s].entry
    BY <1>3 DEF Write
  <2>2. IsOfItsTime(file')
    BY <1>3, <2>1 DEF Write, JarInv, HoldsWhatItRead
  <2> QED BY <2>1, <2>2, ServerKeeps DEF JarSteps
<1> QED BY <1>1, <1>2, <1>3

\* A rewrite that is seen leaves every entry behind the JAR's time.
LEMMA RewriteKeeps ==
  ASSUME JarInv, NEW content \in Jars, RewriteJar(content)
  PROVE  JarInv'
<1>1. /\ jar'.content = content /\ jar'.mtime = now /\ UNCHANGED <<now, file, step, got>>
      /\ moved' = (moved \/ jar.mtime = now \/ \E s \in Servers : step[s] = "stamp")
  BY DEF RewriteJar
<1>2. JarType'
  BY <1>1 DEF JarInv, JarType
<1>3. ASSUME NEW entry, IsOfItsTime(entry)
      PROVE  entry.mtime \in Nat /\ entry.mtime <= jar'.mtime /\ (~moved' => entry.mtime # jar'.mtime)
  <2> PICK m, t : m = entry.mtime /\ t = jar.mtime
    OBVIOUS
  <2>1. m \in Nat /\ t \in Nat /\ now \in Nat /\ m <= t /\ t <= now /\ jar'.mtime = now
    BY <1>1, <1>3 DEF JarInv, JarType, IsOfItsTime
  <2>2. ~moved' => t # now
    BY <1>1
  <2>3. m <= now /\ (t # now => m # now)
    BY ONLY <2>1
  <2> QED BY <2>1, <2>2, <2>3
<1>4. \A entry : IsOfItsTime(entry) =>
        /\ entry.mtime \in Nat /\ entry.mtime <= jar'.mtime
        /\ ~moved' /\ entry.mtime = jar'.mtime =>
             entry = EntryOf(IndexJar(jar'.content, entry.version), jar'.mtime)
  BY <1>3
<1>5. file'.state = "whole" => IsOfItsTime(file)'
  BY <1>1, <1>4 DEF JarInv, IsOfItsTime
<1>6. ASSUME NEW s \in Servers PROVE HoldsWhatItRead(s)'
  <2>1. step[s] = "stamp" => moved'
    BY <1>1
  <2>2. HoldsWhatItRead(s)
    BY DEF JarInv
  <2>3. step[s] = "check" => IsOfItsTime(got[s])' /\ got[s].version = FormatVersion[s]
    BY <1>1, <1>4, <2>2 DEF HoldsWhatItRead, IsOfItsTime
  <2>4. step[s] = "write" => IsOfItsTime(got[s].entry)'
    BY <1>1, <1>4, <2>2 DEF HoldsWhatItRead, IsOfItsTime
  <2> QED BY <1>1, <2>1, <2>3, <2>4 DEF HoldsWhatItRead
<1> QED BY <1>2, <1>5, <1>6 DEF JarInv

LEMMA NextJarInv == JarInv /\ [JarNext]_jarVars => JarInv'
<1> SUFFICES ASSUME JarInv, [JarNext]_jarVars PROVE JarInv'
  OBVIOUS
<1>1. ASSUME UNCHANGED <<jar, file, step, got, moved>>, now' \in Nat, now <= now' PROVE JarInv'
  BY <1>1 DEF JarInv, JarType, HoldsWhatItRead, IsOfItsTime
<1>2. CASE Tick \/ UNCHANGED jarVars
  BY <1>1, <1>2 DEF Tick, jarVars, JarInv, JarType
<1> QED BY <1>2, ServersKeep, RewriteKeeps DEF JarNext

LEMMA HitIs ==
  ASSUME JarInv, JarNext, NEW s \in Servers, step[s] = "check", step'[s] = "hit", ~moved
  PROVE  got'[s] = Regrouped(EntryOf(IndexJar(jar.content, FormatVersion[s]), jar.mtime))
<1>1. step \in [Servers -> JarSteps] /\ DOMAIN got = Servers
  BY DEF JarInv, JarType
<1>2. CheckTime(s)
  BY <1>1 DEF JarNext, ReadCache, CheckTime, ReadJar, Stamp, Write, Restart, RewriteJar, Tick, Reach
<1>3. got'[s] = Regrouped(got[s]) /\ got[s].mtime = jar.mtime
  BY <1>1, <1>2 DEF CheckTime, Reach, SameTime
<1>4. got[s] = EntryOf(IndexJar(jar.content, FormatVersion[s]), jar.mtime)
  BY <1>3 DEF JarInv, HoldsWhatItRead, IsOfItsTime
<1> QED BY <1>3, <1>4

\* A start from the cache answers every name like one that reads the JAR,
\* whatever else wrote the file, crashed while writing it or rewrote the JAR
\* (load and save in index/jar_cache.rs, and the caller in index/scanner.rs),
\* unless a rewrite went unseen by the clock; exempt are the names that
\* Regroups leaves out.
THEOREM HitsAreMisses == JarSpec => HitIsMiss
<1>1. JarInv /\ [JarNext]_jarVars =>
        [\A s \in Servers : step[s] = "check" /\ step'[s] = "hit" /\ ~moved => HitIsAMiss(s)]_jarVars
  <2> SUFFICES ASSUME JarInv, JarNext, NEW s \in Servers, step[s] = "check", step'[s] = "hit", ~moved
               PROVE  HitIsAMiss(s)
    OBVIOUS
  <2> PICK v, entry : v = FormatVersion[s] /\ entry = EntryOf(IndexJar(jar.content, v), jar.mtime)
    OBVIOUS
  <2>1. got'[s] = Regrouped(entry)
    BY HitIs
  <2>2. got'[s].by = v /\ IndexJar(jar.content, v).by = v
    <3>1. IndexJar(jar.content, v).by = v
      BY DEF IndexJar
    <3>2. entry.by = IndexJar(jar.content, v).by
      BY DEF EntryOf
    <3>3. Regrouped(entry).by = entry.by
      BY DEF Regrouped
    <3> QED BY <2>1, <3>1, <3>2, <3>3
  <2>3. got'[s].pairs = Hot(jar.content) /\ IndexJar(jar.content, v).pairs = Cold(jar.content)
    BY <2>1, SamePairs
  <2>4. jar.content \in Jars
    BY DEF JarInv, JarType
  <2>5. \A q \in Fqns : Regroups(q, jar.content) =>
          AnswersFor(q, got'[s].pairs) = AnswersFor(q, IndexJar(jar.content, v).pairs)
    BY <2>3, <2>4, RegroupedAnswers
  <2> QED BY <2>2, <2>5 DEF HitIsAMiss
<1> QED BY <1>1, InitJarInv, NextJarInv, PTL DEF JarSpec, HitIsMiss
=============================================================================
