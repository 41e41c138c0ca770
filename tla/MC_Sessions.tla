---------------------------- MODULE MC_Sessions ----------------------------
(***************************************************************************)
(* One instance for three parts of a server that share no state: the lint  *)
(* passes, the files created in the editor, and the cache of a JAR that it *)
(* finds on disk.  A behaviour is one of a part, with the others at rest.  *)
(***************************************************************************)
EXTENDS LintPasses, NewFiles, JarCache

CONSTANTS d1, p1, p2, r1, native_only, kondo_a, crash

VARIABLE part  \* whose behaviour it is

\* A project in the workspace and one in a subdirectory, with a declared root
\* inside src.
Outer == [dir |-> <<"w">>, declared |-> {}]
Inner == [dir |-> <<"w", "app">>, declared |-> {<<"src", "main">>}]
MCProjectLists == {<<Outer>>, <<Outer, Inner>>}
MCPath == [nested |-> <<"w", "app", "src", "main", "foo_bar">>,
           plain  |-> <<"w", "src", "a", "nil">>,
           odd    |-> <<"w", "src", "nil">>]
MCBatches   == <<<<"nested", "plain">>, <<"odd">>>>
MCNsSegment == [s \in {"w", "app", "src", "test", "main", "a", "nil", "foo_bar"} |->
                  IF s = "foo_bar" THEN "foo-bar" ELSE s]
MCLiterals  == {<<"nil">>}

\* A JAR with one namespace in up to three dialects, and Integrant keys in its
\* own, in another file's and in nobody's namespace.
SourceFile(f, ns, names) ==
  [file |-> f, ns |-> ns, defs |-> [i \in DOMAIN names |-> <<ns, names[i]>>]]
WithKey(e, ns) == [e EXCEPT !.defs = Append(@, <<":", ns>>)]
MCNamespaceOf  == [q \in ({"a", "b"} \X {"f", "g", "h"}) \cup ({":"} \X {"b", "z"}) |->
                     IF q[1] = ":" THEN q[2] ELSE q[1]]
Twin(f, names) == SourceFile(f, "a", names)
Tops  == {Twin("a.clj", <<"f", "g">>), Twin("a.cljs", <<"f", "h">>), Twin("a.cljc", <<"f", "g">>)}
Other == SourceFile("b.clj", "b", <<"f">>)
MCJars ==
  {<<e>> : e \in Tops} \cup {q \in [1..2 -> Tops] : IsInjective(q)} \cup {q \in [1..3 -> Tops] : IsInjective(q)}
  \cup {<<Twin("a.cljc", <<"f", "f">>)>>, <<WithKey(Other, "b")>>, <<WithKey(Twin("a.clj", <<"f">>), "b"), Other>>,
        <<WithKey(Other, "z")>>}
MCFileRank == [f \in {"a.clj", "a.cljs", "a.cljc", "b.clj"} |->
                 IF f = "a.cljs" THEN 5 ELSE IF f = "a.cljc" THEN 4 ELSE 3]
MCFormatVersion == [s \in Servers |-> IF s = "old" THEN 1 ELSE 2]

NewFilesRest ==
  /\ rooted = FALSE /\ projects = <<>> /\ ready = FALSE
  /\ disk = [f \in NewFileNames |-> "empty"] /\ buffer = [f \in NewFileNames |-> "closed"]
  /\ phase = [h \in DOMAIN Batches |-> "told"] /\ remaining = Batches
  /\ list = [h \in DOMAIN Batches |-> <<>>] /\ sent = list
  /\ early = {} /\ typed = {}
LintRests ==
  Init /\ engine = native_only
JarRests ==
  /\ jar = [content |-> <<>>, mtime |-> 0] /\ now = 0 /\ file = Absent /\ rewrites = 0 /\ moved = FALSE
  /\ step = [s \in Servers |-> "start"] /\ got = [s \in Servers |-> Nothing]

MCInit ==
  \/ part = "lint" /\ Init /\ NewFilesRest /\ JarRests
  \/ part = "new files" /\ LintRests /\ NewFilesInit /\ JarRests
  \/ part = "jar" /\ LintRests /\ NewFilesRest /\ JarInit

MCNext ==
  \/ part = "lint" /\ Next /\ UNCHANGED <<newFileVars, jarVars, part>>
  \/ part = "new files" /\ NewFilesNext /\ UNCHANGED <<vars, jarVars, part>>
  \/ part = "jar" /\ JarNext /\ UNCHANGED <<vars, newFileVars, part>>

MCSpec == MCInit /\ [][MCNext]_<<vars, newFileVars, jarVars, part>>
=============================================================================
