------------------------------ MODULE JarCache ------------------------------
(***************************************************************************)
(* The disk cache of a JAR's index (src/index/jar_cache.rs), as the        *)
(* scanner uses it: what was read out of a JAR is kept in a file under     *)
(* .clj-pulse/jar-cache with the JAR's modification time and the format    *)
(* version of the program that wrote it, and a later start takes it from   *)
(* there.                                                                  *)
(*                                                                         *)
(* Servers of one workspace, of different versions of the program, share   *)
(* the cache file without a lock, may crash between any two steps, and the *)
(* build tool rewrites the JAR under them.  A JAR is a sequence of source  *)
(* files, each with its namespace and what it defines.                     *)
(***************************************************************************)
EXTENDS Integers, SequencesExt

CONSTANTS
  Servers,
  FormatVersion,  \* [Servers -> the CACHE_FORMAT_VERSION it was built with]
  NamespaceOf,    \* [fqn -> the namespace it is spelled with]
  Jars,           \* contents a JAR can have: sequences of [file, ns, defs],
                  \* defs a sequence of fqns
  FileRank,       \* slot_rank of a library file: clj 3, cljc 4, cljs 5
  MaxSeconds,     \* bound: the clock
  MaxRewrites     \* bound: rewrites of the JAR

Fqns     == DOMAIN NamespaceOf
JarFiles == DOMAIN FileRank
NoFile   == ""
ASSUME JarAssumption ==
  /\ FormatVersion \in [Servers -> Nat]
  /\ FileRank \in [JarFiles -> Nat] /\ NoFile \notin JarFiles
  /\ \A content \in Jars :
       content \in Seq([file : JarFiles, ns : {content[i].ns : i \in DOMAIN content}, defs : Seq(Fqns)])
  /\ MaxSeconds \in Nat /\ MaxRewrites \in Nat

VARIABLES
  jar,       \* its content and modification time, in seconds
  now,       \* the clock, in seconds
  file,      \* the cache file: Absent, Partial or an entry
  step,      \* where each server is in index_classpath_jars
  got,       \* what it has read so far
  rewrites,
  moved      \* history: the JAR was rewritten twice in a second, or while a
             \* server had read it and not yet asked for its time

jarVars == <<jar, now, file, step, got, rewrites, moved>>

\* An entry holds metadata and symbols in two lists.
Absent  == [state |-> "absent", version |-> 0, mtime |-> 0, by |-> 0, namespaces |-> <<>>, symbols |-> <<>>]
Partial == [Absent EXCEPT !.state = "partial"]

\* index_jar: one pair for each source file, as this version reads it; a symbol
\* keeps the file it is from.
IndexJar(content, version) ==
  [by |-> version,
   pairs |-> [i \in DOMAIN content |->
                [meta |-> [file |-> content[i].file, ns |-> content[i].ns],
                 symbols |-> [j \in DOMAIN content[i].defs |->
                                [fqn  |-> content[i].defs[j], ns |-> NamespaceOf[content[i].defs[j]],
                                 file |-> content[i].file]]]]]

EntryOf(read, mtime) ==
  [state |-> "whole", version |-> read.by, mtime |-> mtime, by |-> read.by,
   namespaces |-> [i \in DOMAIN read.pairs |-> read.pairs[i].meta],
   symbols    |-> FlattenSeq([i \in DOMAIN read.pairs |-> read.pairs[i].symbols])]

\* The pairs again: every namespace gets the symbols that name it. (Flattened
\* from ones and nones, where SelectSeq would do, for the proofs' sake.)
Naming(symbols, ns) ==
  FlattenSeq([j \in DOMAIN symbols |-> IF symbols[j].ns = ns THEN <<symbols[j]>> ELSE <<>>])
Regrouped(entry) ==
  [by |-> entry.by,
   pairs |-> [i \in DOMAIN entry.namespaces |->
                [meta    |-> entry.namespaces[i],
                 symbols |-> Naming(entry.symbols, entry.namespaces[i].ns)]]]

\* load: a file that does not parse, or of another version, is no entry. One
\* whose time is not the JAR's is stale.
Readable(s) == file.state = "whole" /\ file.version = FormatVersion[s]

\* Mutant: the entry is taken unless it is newer than the JAR.
NotNewer(entry) == entry.mtime <= jar.mtime
SameTime(entry) == entry.mtime = jar.mtime

-----------------------------------------------------------------------------
(* Servers. *)

Reach(s, pc, what) == step' = [step EXCEPT ![s] = pc] /\ got' = [got EXCEPT ![s] = what]
Nothing == [by |-> 0, pairs |-> <<>>]

ReadCache(s) ==
  /\ step[s] = "start"
  /\ IF Readable(s) THEN Reach(s, "check", file) ELSE Reach(s, "index", Nothing)
  /\ UNCHANGED <<jar, now, file, rewrites, moved>>

CheckTime(s) ==
  /\ step[s] = "check"
  /\ IF SameTime(got[s]) THEN Reach(s, "hit", Regrouped(got[s])) ELSE Reach(s, "index", Nothing)
  /\ UNCHANGED <<jar, now, file, rewrites, moved>>

ReadJar(s) ==
  /\ step[s] = "index"
  /\ Reach(s, "stamp", IndexJar(jar.content, FormatVersion[s]))
  /\ UNCHANGED <<jar, now, file, rewrites, moved>>

\* jar_mtime, and the entry to save. fs::write creates or empties the file and
\* then writes it.
Stamp(s) ==
  /\ step[s] = "stamp"
  /\ step' = [step EXCEPT ![s] = "write"]
  /\ got' = [got EXCEPT ![s] = [read |-> @, entry |-> EntryOf(@, jar.mtime)]]
  /\ file' = Partial
  /\ UNCHANGED <<jar, now, rewrites, moved>>

Write(s) ==
  /\ step[s] = "write"
  /\ file' = got[s].entry
  /\ Reach(s, "miss", got[s].read)
  /\ UNCHANGED <<jar, now, rewrites, moved>>

\* It crashes, or is done and started again.
Restart(s) ==
  /\ step[s] # "start"
  /\ Reach(s, "start", Nothing)
  /\ UNCHANGED <<jar, now, file, rewrites, moved>>

-----------------------------------------------------------------------------
(* The build tool, and time. *)

RewriteJar(content) ==
  /\ rewrites < MaxRewrites /\ rewrites' = rewrites + 1
  /\ jar' = [content |-> content, mtime |-> now]
  /\ moved' = (moved \/ jar.mtime = now \/ \E s \in Servers : step[s] = "stamp")
  /\ UNCHANGED <<now, file, step, got>>

Tick ==
  /\ now < MaxSeconds /\ now' = now + 1
  /\ UNCHANGED <<jar, file, step, got, rewrites, moved>>

JarInit ==
  /\ \E content \in Jars : jar = [content |-> content, mtime |-> 0]
  /\ now = 0 /\ file = Absent /\ rewrites = 0 /\ moved = FALSE
  /\ step = [s \in Servers |-> "start"] /\ got = [s \in Servers |-> Nothing]

JarNext ==
  \/ \E s \in Servers : ReadCache(s) \/ CheckTime(s) \/ ReadJar(s) \/ Stamp(s) \/ Write(s) \/ Restart(s)
  \/ \E content \in Jars : RewriteJar(content)
  \/ Tick

JarSpec == JarInit /\ [][JarNext]_jarVars

-----------------------------------------------------------------------------
(* What the index makes of the pairs: insert_lib_file of each, in order. The *)
(* rank of an insertion is that of the pair's file, the rank of what is in a *)
(* slot that of its own.                                                     *)

IsCljs(rank) == rank % 3 = 2
NoSlot == [primary |-> NoFile, shadow |-> NoFile]
Keep(shadow, f, rank) == IF shadow # NoFile /\ FileRank[shadow] < rank THEN shadow ELSE f
InsertUnder(slot, f, rank) ==
  LET old == IF slot.primary = NoFile THEN rank ELSE FileRank[slot.primary]
  IN  CASE rank <= old -> [primary |-> f,
                           shadow  |-> IF slot.primary # NoFile /\ IsCljs(old) /\ ~IsCljs(rank)
                                       THEN Keep(slot.shadow, slot.primary, old) ELSE slot.shadow]
        [] rank > old /\ IsCljs(rank) -> [slot EXCEPT !.shadow = Keep(@, f, rank)]
        [] OTHER -> slot

\* The insertions of one name, and the slots they leave.
InsertionsIn(fqn, p) ==
  FlattenSeq([j \in DOMAIN p.symbols |->
                IF p.symbols[j].fqn = fqn
                THEN <<[file |-> p.symbols[j].file, rank |-> FileRank[p.meta.file]]>> ELSE <<>>])
Insertions(fqn, pairs) == FlattenSeq([i \in DOMAIN pairs |-> InsertionsIn(fqn, pairs[i])])
Slots(ins) ==
  LET slot[n \in 0..Len(ins)] ==
        IF n = 0 THEN NoSlot ELSE InsertUnder(slot[n - 1], ins[n].file, ins[n].rank)
  IN  slot
SlotOf(fqn, pairs) == LET ins == Insertions(fqn, pairs) IN Slots(ins)[Len(ins)]

\* lookup, lookup_for a .cljs file, and lookup_all.
AnswersFor(fqn, pairs) ==
  LET slot == SlotOf(fqn, pairs)
  IN  [plain |-> slot.primary, cljs |-> IF slot.shadow = NoFile THEN slot.primary ELSE slot.shadow,
       all |-> {slot.primary, slot.shadow} \ {NoFile}]

-----------------------------------------------------------------------------
(* Properties. *)

\* What the JAR has of a name: where it is defined, and the files of its namespace.
DefinitionsOf(q, content) ==
  UNION {{<<i, j>> : j \in {k \in DOMAIN content[i].defs : content[i].defs[k] = q}} : i \in DOMAIN content}
HomesOf(q, content) == {k \in DOMAIN content : content[k].ns = NamespaceOf[q]}

\* The regrouping is right for a name that one file defines, as often as it
\* likes, and for one that the two files of its namespace define once each. An
\* Integrant key may be in a namespace that is no file's of the JAR, or of
\* another; a namespace may have three dialects; and a .cljc file may define a
\* name in both branches of a reader conditional.
Regroups(q, content) ==
  LET at == DefinitionsOf(q, content)
  IN  /\ at # {} => HomesOf(q, content) # {}
      /\ \/ \A d, e \in at : d[1] = e[1]
         \/ \E d, e \in at : d[1] < e[1] /\ at = {d, e} /\ HomesOf(q, content) = {d[1], e[1]}

\* A start from the cache answers like one without it: a hit is of the JAR as
\* it is, read by this version, and the lists that the cache flattens and
\* groups again give every name the same definitions in the same slots. The
\* file may be torn by a crash, written by another version or by two servers at
\* once; exempt are a JAR rewritten twice in a second or while it is read, and
\* the names that the regrouping cannot get right.
HitIsAMiss(s) ==
  LET cold == IndexJar(jar.content, FormatVersion[s])
  IN  /\ got'[s].by = cold.by
      /\ \A q \in Fqns : Regroups(q, jar.content) => AnswersFor(q, got'[s].pairs) = AnswersFor(q, cold.pairs)
HitIsMiss ==
  [][\A s \in Servers : step[s] = "check" /\ step'[s] = "hit" /\ ~moved => HitIsAMiss(s)]_jarVars
=============================================================================
