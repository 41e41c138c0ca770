# clj-pulse in TLA+

TLA+ modules, TLC runs and TLAPS proofs for `clj-pulse`, a language server for
Clojure, ClojureScript, Babashka and let-go written in Rust. `PROJECT.json`
lists the runs, the theorems, the source lines behind every definition
(`map`), a mutation per property (`mutants`), the hazards the properties are
aimed at (`hazards`) and the disagreements between code and comments met on
the way (`findings`).

All paths below are relative to the repository.

## 1. Inventory

The server is a `tower-lsp` service on a multi-threaded tokio runtime. Two facts
decide what can interleave:

* the handlers of requests and notifications are polled inline by **one** task,
  so a handler is interrupted by another one only at its `.await`s;
* everything started with `tokio::spawn` or `spawn_blocking` runs **in parallel**
  with the handlers and with each other, and only the locks it takes order it.

| component | state it keeps | operations | talks to |
|---|---|---|---|
| document store (`document.rs`) | text, syntax tree, version, revision, one slot for an analysis per open document | open, apply changes, close; `analyzed`, `store_analysis` from any worker | handlers, lint passes |
| symbol index (`index/mod.rs`) | primary and shadow symbol tables, namespaces, per-file tables, occurrences, keyword counts, extract config | insert, remove, merge, `clear_libs`, queries | scanner, document events, watcher, applications |
| configuration pipeline (`server.rs`, `projects.rs`, `classpath.rs`, `leiningen.rs`, `lgx.rs`) | project list, project states, config generation, `ConfigApplyLock`, `ClasspathCliLock` | startup, `didChangeConfiguration`, watched files, rescan; stages 1, 2, 3 | index, child processes, client |
| lint passes (`server.rs`) | registry of passes with abort handles, last published, epoch, health of clj-kondo, process permits | `spawn_lint_pass`, `relint_open_documents`, `retire_if_current`, publication | document store, clj-kondo, client |
| clj-kondo engine (`server.rs`) | `KondoState`, `KONDO_PROBE_LOCK`, `KONDO_WARM_LOCK`, warmed sets | probe, announce, warm | pipeline (its entries and generation), lint passes |
| external commands (`kondo.rs`, `classpath.rs`) | a child, its pipes, a deadline | `lint_buffer`, `warm`, `probe_version`, `resolve_via_cmd` | operating system |
| extractor (`index/extractor.rs`) | a walk's scope stack | `extract_full` | index |
| scanner, JARs, JDK (`index/scanner.rs`, `index/jar*.rs`, `jar_content.rs`, `index/jdk.rs`) | on-disk JAR cache | index files of a directory or JAR | index |
| panic guard (`panic_guard.rs`) | ids of pending requests | answer a panicked handler | transport |
| new-file namespaces (`handlers/new_file.rs`, `did_create_files`) | `projects_ready` | wait for startup, insert `(ns ...)` | client, store |
| query handlers (`handlers/*.rs`) | none | completion, definition, references, rename, hover, signature, code actions, highlight, symbols, indentation | index, store |
| native diagnostics (`diagnostics.rs`) | none | unused, unresolved and alias lints, merge with clj-kondo | lint passes |
| ClojureDocs (`clojuredocs.rs`) | lazily loaded table | lookup | hover |
| settings, URIs, tools, EDN, built-ins | none, or static | parse, convert, look up | all |

What is hard in it, and what makes each part correct:

* **Document store.** A worker analyses a snapshot outside any lock and stores
  the result later, while the document is edited, closed and reopened, and
  while the extract configuration is reloaded. *Correct:* an answer is always
  the analysis of exactly the snapshot and configuration that was asked for; an
  incremental edit keeps text and tree together.
* **Symbol index.** One fully qualified name may come from a `.clj`, a `.cljs`
  and a library; there are only a primary and a shadow slot. Every order of
  inserting, rewriting and removing files must leave the same truth. *Correct:*
  no definition lost, no ghost of a removed file, an asker of either dialect
  gets its own definition, counts agree with occurrences, project outranks
  library.
* **Configuration pipeline.** Applications are long (minutes of child
  processes), overlap, and act on a list that may be obsolete when they end.
  *Correct:* a command's answer is applied only while its project is still
  configured that way; after the last application the index holds exactly the
  libraries of the configured projects; nothing stays "resolving"; every change
  is applied in the end.
* **Lint passes.** A pass is aborted by its successor at any await: between the
  record of an outcome and its announcement, in the queue for a permit, after
  publication. *Correct:* one pass per document may publish, published versions
  never go back, the last edit's diagnostics arrive, no permit is lost.
* **clj-kondo engine.** Probes are slow and overlap; scans take minutes and are
  wanted from two sides. *Correct:* the newest settings win, no scan is
  repeated, none is left to the other side by both.
* **Extractor, references and rename, code actions, completion.** Sequential, but
  the same name is read by half a dozen walks that must agree (the occurrence
  walk, the walk for one local, those of the code actions), over files of which
  some are saved and some are not. *Correct:* an edit that the server proposes
  leaves every name meaning what it meant; what is offered can be done; the walk
  that lints and the walk that renames count the same uses.
* **JAR cache.** A file per JAR, written in place by servers of several versions,
  without a lock. *Correct:* a start from the cache answers like one without it.
* **Panic guard, namespaces of new files.** Small pieces of bookkeeping across
  awaits. *Correct:* a panic costs one request and no more; a new file gets its
  `(ns ...)` once, and only while it is empty.
* **Other queries.** Read-only; correct by agreement with a reference definition.

## 2. Plan

Order of work, the most important behaviour first:

1. `DocumentStore` - done, with its proofs.
2. `LintPasses` - done, with its proofs.
3. `SymbolIndex` - done, with its proofs.
4. `ConfigPipeline` - done for classpath projects, with its proofs.
5. `KondoEngine` - done, with its proofs.
6. `TextEdits`, `ChildProcess` - done, with their proofs; left is the search of a
   binary through shims.
7. The extractor: `SyntaxTrees`, `Occurrences`, `LocalScopes`, `NsForms` - done
   for the forms listed in section 3.
8. `Renames` over them: references and rename - done.
9. `NsEdits`: native diagnostics, code actions and the completions that edit the
   ns form - done.
10. `JarCache`, `PanicGuard`, `NewFiles` - done, with their proofs.
11. `Diagnostics`, the abstract specification of the lint passes, and its
    refinement - done, and proved.
12. `ProjectResolve`: `projects::resolve` as an operator, checked against the
    precedence rules of `docs/SETTINGS.md`, then used by `ConfigPipeline` in
    place of its free choice.
13. The other queries over the states of `SymbolIndex`: definition, the ranking
    and caps of completion; the merge of native and clj-kondo diagnostics; the
    lazy load of ClojureDocs.
14. `SymbolIndex` one level finer: the races of two index operations between
    their map accesses.

Abstract specifications worth stating: for `DocumentStore` a store without a
cache (an answer is computed on the spot); for `ConfigPipeline` a pipeline that
applies a configuration in one step. `LintPasses` has its own, `Diagnostics`.

Theorems worth proving, after those of section 5: the refinement of the store
without a cache by `DocumentStore`; that two operations of the index on files of
different namespaces commute, which plan item 14 would rest on.

## 3. The modules

### DocumentStore

`src/document.rs`. A document is its text (`rope`), the text its tree was parsed
from (`tree`), a revision and one cache slot. `Open`, `ApplyChanges` and `Close`
are the methods of those names, called by the handler task; a batch of changes
that fails part-way leaves a text without a tree, which the next `TakeSnapshot`
repairs. A worker is any caller of `DocumentStore::analysis`: `TakeSnapshot`,
`ReadConfig`, `Lookup`, `Compute` and `Store` are its steps, cut where it takes
and drops the map's lock, and `Finish` is the end of its use of the answer.
The slot is keyed by the revision and by the *identity* of the extract config,
an `Arc` compared with `Arc::ptr_eq`: `SetExtractConfig` may put a new config at
any address that nobody holds, so a config that is freed and replaced at its own
address is in the model.

### TextEdits

`src/document.rs`, the text under the store: what `DocumentStore` takes as one
value is here a sequence of characters that differ in what they measure (UTF-16
units, UTF-8 bytes, a line break, part of a name). The editor has its own copy
and sends positions as it counts them; the server converts them
(`PositionToChar`, `Utf16ColToChar`), describes the change to tree-sitter
(`InputEdit`, `Point`, `NewEnd`) and splices its rope (`Replace`), or takes a whole
text (`ReplaceText`). `KeywordAt` is the way back: the range of the keyword under
the cursor, in the editor's units. `EditorPosition` is the editor's and external.

### SymbolIndex

`src/index/mod.rs`. The index is one record, and every operation of the code a
function from index to index that calls its helpers the way the code does
(`InsertFile`, `RemoveFile`, `InsertEdnFile`, `InsertLibFile`, `ClearLibs` over
`RankInsert`, `RemoveSlot`, `ReplaceOccurrences`, `RefillNamespace`, ...). The
actions are the callers: `OpenFile`, `ReindexFile`, `ForgetFile`, `OpenEdn`,
`ReindexEdn`, `IndexLib`, `RebuildLibs`. A file is its dialect and its content: a
namespace, declared by `ns` or `in-ns`, with a set of names and a number of
keyword uses. The operations run one at a time: their finer races are plan
item 14. `RefillNamespace` walks the list of a namespace by a recursive function
(`RefilledSlot`), and the counts are sums by `MapThenSumSet`. Three histories name
the keys of which less is promised: `collided` (two project files of one dialect
define them), `forgotten` and `strayed` (a finding of section 4).

### ConfigPipeline

`src/server.rs`. One task per application: the startup library task, and the
tasks of `did_change_configuration`, `did_change_watched_files` and `rescan`;
the startup scan runs beside them. Outside the server the settings, manifests
and caches of `wanted`, `manifest`, `settings` and `cache` change, and are
reported later, together or apart (`pending`). The `ConfigApplyLock` is its queue
(`queue`, first come, first served), the `ClasspathCliLock` its holder (`cli`).
An action is a stretch of a task between two awaits or lock acquisitions
(`AskLock`, `Refresh`, `IndexSources`, `DiffLibraries`, `BeginStage3`,
`EndStage3`, ...), so the module has the moments at which a task can be overtaken.
A command answers, fails or is killed by choice; what a configuration resolves
to is an input. `missing` are the projects whose directory has no manifest:
`EditManifest` creates and deletes one, and what the settings may want of a
project (`MayWant`) and what detection and the rescan list follow it.

### LintPasses

`src/server.rs`: the document handlers, `spawn_lint_pass` and
`relint_open_documents` with what they call. The handler task, the passes and
the reloads each have a program counter. A pass goes `Wake`, `TakeSnapshot`,
`ReadEngine`, `NativeGivesUp`, `AcquirePermit`, `KondoTier`, `CheckStale`,
`RecordHealth`, `AnnounceHealth`, `Publish`, `Retire`. An abort takes effect where the
aborted task awaits and nowhere else (`Drop`): a pass that is running when it is
aborted goes on to its next await, and `spawn_blocking` work is not stopped at
all. Reloads probe, list the open documents, and re-lint each with the version
and epoch they captured.

### KondoEngine

`src/server.rs`, lines 905-990, 1065-1205 and 2040-2082. Reloads and
applications are tasks that meet in `warm_kondo_caches`. Of an application only
what the warmer sees is kept (project list, entries, generation, the lock), and
its entries are any the stages may find; that makes the module weaker than
`ConfigPipeline` on purpose, and sound for the warmer.

### ChildProcess

`run` in `src/kondo.rs` and `resolve_via_cmd` in `src/classpath.rs`: one run of a
command. The command is a group of two processes, the spawned one and one it may
start (a shim or a shell and the program behind it), which read, write, detach
from the output, exit and crash by choice. The server's part is the writer task
(`Feed`, `EndFeed`), the wait that reads while it waits (`Drain`, `Collected`), the
deadline (`TimeOut`) and the drop of the future by an abort (`Abort`), which kills the
group only if `KillGroupOnDrop` was armed. `ConfigPipeline`, `LintPasses` and
`KondoEngine` take such a run as one step that answers, fails or is killed.

### SyntaxTrees, Occurrences, LocalScopes, NsForms

`src/index/extractor.rs`. A file is a tree of forms (`SyntaxTrees`): symbols,
keywords, lists, vectors, maps, namespaced maps, quotes, discards, reader
conditionals; names are model values, and `Place` gives every form the range it
has in a source of one line, so that ranges can be compared and edited. The walks
are recursive operators over such trees, one branch per branch of the code.
`Occurrences` is the walk behind every lint and every reference (`WalkForm` and
the scopes of `let`, `fn`, `defn`, `letfn`, `for`, `as->`, `catch`, `are`,
`defrecord`, `extend-type`, `defmethod` and their kin): the code mutates a stack
of frames, the operators take the bindings in scope and return the events in
order. `LocalScopes` is the *second* walk of the same forms, which finds the
references of the local under the cursor and is written separately in the code -
that the two agree is checked, not assumed. `NsForms` reads ns forms, definitions
and aliases; `Analysis` puts the walks together as `extract_full` does.

### Renames

`src/handlers/references.rs` over the files of a workspace. A file is on disk or
in a buffer; `index` is what the index last read of it, `cached` the analysis of the
live text. `Rename` is the handler as a whole - what the token under the cursor
names, whether that can be renamed, the edits in every file, saved or not - plus
the editor's application of the edits; `Save` re-indexes a file. The entry points
of the extractor are CONSTANT operators (`Extract <- Analysis`, ...), so that TLC
evaluates them once per state and the module says of the extractor only what
the handler calls.

### NsEdits

`src/diagnostics.rs`, `src/handlers/code_action.rs`, `src/handlers/completion.rs`: one
open file, its analysis, what the index knows of its ns form, and what the user
takes: `Clean` (Clean namespace), `AddRequire`, `AcceptCompletion` (with the require
that comes along), `SaveEdits`. The walks of the code actions are a third reading of
the tree and see other children than the extractor does (discards), which is why
the module states its properties against `Analysis`.

### JarCache

`src/index/jar_cache.rs` and its use in `src/index/scanner.rs`: two servers of
different format versions go through `index_classpath_jars` step by step - look,
check, read the JAR, ask its time, write - and may crash at each step; the write is
two steps, so a torn file is a state; a build tool rewrites the JAR. What is read
from the cache is regrouped as the code does it (`Naming`, `Regrouped`) and inserted
into the same slots as in `SymbolIndex` (`InsertUnder`): of one name, the insertions
in order (`Insertions`) and the slots after each of them (`Slots`). A name is
spelled with its namespace (`NamespaceOf`), whatever file defines it, as a symbol's
`ns` is in the code.

### PanicGuard

`src/panic_guard.rs` over `tower-lsp`'s table of pending requests, which is external:
a request enters the table when it is read, its handler is polled later among up
to `Concurrency` others, returns, panics or is found cancelled; ids come again.

### NewFiles

`did_create_files` in `src/server.rs` and `src/handlers/new_file.rs`: handlers
that wait for the project list, take it, and ask for one edit after another, while
projects are detected and reconfigured and the user opens, types, saves and
closes.

### Diagnostics

The abstract specification of `LintPasses`: a document moves on, or the client is
shown the diagnostics of what the document is at that moment - its version *and*
its lint epoch - in one step. `LintPasses` implements it under the mapping
`Service == INSTANCE Diagnostics WITH wanted <- ..., shown <- ..., lost <- ...`
(`ImplementsDiagnostics`): every step of a handler, a pass or a reload is a step of
it or a stutter. That publication never goes backwards, and never shows what is
obsolete, is in that form and not a property of its own. `lost` names the
documents that one of the two races of the findings has hit: from then on nothing
is promised.

`MC_*` modules give the constants their sets and the symmetry of document
runs and of task names. Modules that share no variable are checked in one run,
where an initial choice (`part`) says whose behaviour it is and the others rest:
`TextEdits`, `Renames` and `NsEdits` in `MC_DocumentStore`, `ChildProcess` in
`MC_KondoEngine`, `LintPasses` with `PanicGuard` in `MC_Settles` and with `NewFiles`
and `JarCache` in `MC_Sessions`.

## 4. The runs

| run | what it asks | bounds | states |
|---|---|---|---|
| `document_cache` | cache against edits, closes, reopens, reloads; every edit of every short text; renames over small workspaces; fixes and completions of one file | 1 document, 2 texts, 2 configs, 3 addresses, 2 workers, 3 revisions; 4 kinds of character, 3 in a text, 2 in an insertion; 5 files, 2 new names, 1 rename, any saves; 91 files of 10 kinds of ns form and 9 bodies, any fixes and saves, 1 accepted completion | 121 thousand |
| `sessions` | who publishes, in which order, and whether the last edit arrives (a refinement); new files; one JAR's cache | 1 document, 2 passes, 1 re-lint, no clj-kondo, 2 revisions, 1 epoch; 2 batches of 3 files, 2 project lists; 2 servers of 2 formats, JARs of up to 3 files, 2 seconds, 1 rewrite | 3.0 million |
| `lint_settles` | permits and settling with an engine that comes, goes and crashes; panics and reused ids | 1 document, 2 passes, 1 reload, 1 engine, 1 revision, fairness; 2 ids, 2 handlers at a time, 5 messages | 643 thousand |
| `lint_lost_pass`, `lint_lost_status` | two findings | 1 document | - |
| `engine_warm` | newest settings, no repeated and no forgotten scan, every task ends; no process and no output of a run is lost | 1 project, 2 classpaths, 2 reloads, startup and 1 application, 2 changes; a pipe of 1 byte, 3 bytes of input, 2 of output for each | 1.5 million |
| `index_slots` | every order of index operations | 3 project files of 2 dialects, 2 library files of which one is also opened and saved, 1 EDN file, 2 namespaces, 2 names, 1 use | 277 thousand |
| `index_lost_ns` | a finding | as above, fewer files | - |
| `config_projects` | two projects that come, go, are switched on and off | 2 projects, 2 changes | 4.1 million |
| `config_commands` | one project's commands, answers and caches | 1 project, 2 commands, 2 changes, fairness | 1.4 million |
| `rename_lost_definition` | a finding | one workspace | - |
| `config_last_word` | a finding | 1 change | - |

Why these are enough: every race here is between one actor that holds an obsolete
reading and one that has replaced it, so two workers, passes, reloads or
applications over one object, and two values to tell old from new, give every pair
of steps; a second document or project shares only locks, which the two-project
run has. Three addresses and three revisions are the least that lets a config be
freed and its address reused while a worker of an earlier opening is still under
way. `MaxRev`, `MaxEpoch`, `MaxChanges`, `MaxReloads` and `MaxUses` bound the
inputs of the user, never what the server does in answer. A text of three
characters has a line break with a wide character on either side of it, or a
keyword of two colons, and an edit can begin and end anywhere in it. A pipe of one
byte with two bytes of output to one of input fills both pipes at once.
`index_slots` has one file more than there are slots, and a library file that the
user edits, which is then a project file of the same path. A name can be renamed
in a project file, its twin of the other dialect, a file that requires it, a
library and an Integrant configuration, which is one file for each kind of
treatment; one rename is enough where each is checked from every state, and the
saves before and after it make every mixture of saved and unsaved files. The ns
forms of `NsEdits` have each kind of clause and spec that the code tells apart,
the bodies each way to use a name; two namespaces end alike, one is curated, one
ends like a name that is required in full. A JAR of three files has all three
dialects of one namespace. Five messages over two ids let an id panic, be reused,
be cancelled late and be reused again.

`CHECK_DEADLOCK FALSE` is set where the client may simply stop: a state in
which all tasks have ended and the bound on inputs is reached is a rest state,
not a deadlock. That nobody waits for ever is asked by the liveness
properties instead.

### Fairness

`FairSpec` in `LintPasses`, `ConfigPipeline` and `KondoEngine` assumes weak
fairness of each task's steps: tokio runs every runnable task; its mutexes and
semaphores are first-in-first-out, so a waiter gets a lock that is released
over and over (this is where a module without queues asks the fairness
conjunct of the task as a whole); clj-kondo, probes, scans and classpath
commands answer or are killed at their timeouts (`KONDO_TIMEOUT`,
`KONDO_WARM_TIMEOUT`, the command timeout). A changed watched file is reported by
the client. The user's inputs have no fairness. The safety-only runs use `Spec`.

### What the violated runs show

Each is a finding of `PROJECT.json`, with the lines quoted there:

* `lint_lost_pass` - a re-lint that captured the version of a document just
  before `did_open` recorded it can abort `did_open`'s pass and then retire
  itself: the open document has no diagnostics until the next edit.
* `lint_lost_status` - the health of clj-kondo is recorded before it is
  announced, with an await between the two; a pass aborted there silences both
  the failure and the recovery.
* `index_lost_ns` - `clear_libs` drops the metadata of a project namespace
  without definitions when a library had defined symbols in it.
* `rename_lost_definition` - a name that a file defines twice, in the branches of a
  reader conditional, is renamed in one of them only: the uses in the other
  dialect are left without a definition.
* `config_last_word` - one watched-files application can put the cached
  classpath back over the answer of the command it has just run.

Smaller observations that no run states: the comment in `server.rs` (about line
487) that disabling a project "does not take the lock" is no longer so, and the
guard it explains never fires on that path; a reload's scan overtaken by a change
of the generation is discarded and repeated, although `server.rs:1017-1018` says
that an unchanged classpath is never scanned twice - `NoRepeatedScan` states what
does hold; entries that a watched file changes after the diff of its application,
or that a rescan's forced commands find, are not warmed until the next application
(`missed` in `KondoEngine`); a scan uses the binary read before it queued, so it
may start after clj-kondo has been disabled; `remove_slot` may leave a library's
namespace metadata over that of another project file until the next write; a
column past the end of a line is clamped behind the line's newline (`rope.line`
includes it), where `document.rs:457` and the protocol say the line's end; the
rope also breaks lines at a form feed and other Unicode line breaks, which neither
the editor nor tree-sitter does; a classpath command whose future is dropped
without a timeout, as at shutdown, has no guard and leaves what the shell started
running; the startup scan merges its files outside the `ConfigApplyLock`
(`server.rs:131-137` against 2326), which is the exception `raced` of
`QuietIsApplied`; a file of a library directory that the user also opens, and
whose library copy names another namespace or has the other form (`ns` against
`in-ns`), loses its entry of `file_to_ns` to `clear_libs`
(`index/mod.rs:939-988`), after which `remove_file` (624-640) returns early and
its project symbols stay as ghosts, although the comment at 961-963 says what the
project has is kept (`strayed`, which the proof of `SlotsAreTrue` asked for:
without it the invariant is not inductive).

The properties of the newer modules name what they exempt, and each exemption
stands for a place where the code and its comments part; none has a run of its
own.

* *Two walks of the extractor.* `extractor.rs:3520-3531` and 4018-4021 say that the
  walk of one local mirrors the occurrence walk. `ReferencesAreUses` holds over the
  binders of `MC_Renames`; they disagree on a record's field with the name of one
  of its methods, a cursor on the name of a `defn` or `defrecord` that is also a
  parameter, a `letfn` name that is its own parameter, a return schema or an
  attribute map before the parameters, `:or` and schemas in `let`-like patterns, the
  argument vector of `are`, `([x] ...)` after parameters (taken for an arity by
  `walk_fn_tail`, 2877, and not by `walk_scope_fn_tail`), `(quote x)` and a binding pair
  that is half typed. `(letfn [()] ...)`, as one types it, indexes past the end
  of an empty list (2925); the panic guard answers for it.
* *Rename.* After one of two twin files was saved, `prepareRename` in the other one
  offers a range that rename then leaves alone (`DefinitionsIndexed`);
  `live_definition_range` (`references.rs:521-551`) falls back to a range of the last
  save for a name that is quoted or discarded now; a global rename does not ask
  whether a local or another var of the new name captures it; a method
  `(defmethod a/run ...)` above `(defn run ...)` is read by the order of the file.
* *Clean namespace.* A map `{:keys [h/f]}` that is evaluated is taken for a
  destructuring, whose symbols read keywords, so the require of `h` can be removed
  while it is used (`KeysEvaluated`, against the comment at `code_action.rs:632`).
  "Add require" may require a namespace a second time under another alias, which the
  same file's lint then reports.
* *Completion that adds a require.* The items come from the namespace's metadata in
  the index, which is of the last save, and the edit goes into the live buffer: a
  second item accepted before a save inserts its require again
  (`InTime`). `auto_require_pool` refuses an alias that is "taken" (`completion.rs:660-663`),
  but looks at aliases only, so `[y.e :as e]` is offered in a file that requires
  a namespace `e` without an alias and uses `e/f`, which then means `y.e/f`
  (`Shadows`). In a file without an ns form the items are offered without
  their edit. A keyword accepted as a key of `#:ns{...}` is read in that namespace
  (`ReadInNsMap`). Vars after an alias are offered whether private or not.
* *JAR cache.* On a hit, an Integrant key whose keyword's namespace is no
  file's of the JAR is dropped (`scanner.rs:310-323` groups by namespace), and every
  file of a namespace is given the definitions of all of them, each under the rank
  of the file that is inserted, not of its own. A name gets other definitions in its
  slots than without the cache when a namespace has three dialects of which two or
  three define it, when a `.cljc` file defines it in both branches of a reader
  conditional and a twin does too, and when two files define a key that belongs to
  the namespace of a third. `Regroups` says of a name that it is none of these; the
  proof of `HitIsMiss` found the ones that the run's JARs do not have. The JAR's time is asked
  after the JAR was read, so one replaced in between is kept under the new
  time, and one rewritten within the second is not noticed (`moved`).
* *New files.* A file named `foo-bar.clj` gets `(ns foo-bar)`, which Clojure looks for in
  `foo_bar.clj`, although `new_file.rs:10-13` refuses a namespace that "mismatches the path"; what
  the user types while an edit is on its way is not seen; a file
  reported in two overlapping batches can get two forms.
* *Panic guard.* A cancel that arrives late may hit the next request of the same id,
  with or without a panic: that is `tower-lsp`'s, and `PanicsStayAlone` allows it.

## 5. The proofs

`tlapm` checks, for every value of the constants that satisfies the named
assumptions:

**`DocumentStore_proofs`** - of the store `TypeCorrect`, `TreesMatchTexts`,
`SlotsAreCurrent`, `AnswersAreExact`. None of the last three is inductive. The
invariant is

    TypeOK /\ SnapshotsAreOld /\ TreeMatchesText /\ SameRevSameText
           /\ SlotIsOfThisRevision /\ WorkersHold /\ ResultsAreRight

The argument: revisions are never reused, even over a close (`SnapshotsAreOld`),
so a snapshot whose revision is still the document's has the document's text
(`SameRevSameText`); a config that a worker or a slot holds keeps its address and
so its content (`WorkersHold`, which is what makes a comparison of addresses mean
anything); so what a worker computed, but has not stored, is right
(`ResultsAreRight`) and a store that finds its own revision stores the analysis
of the present text.

Of the text under the store (`TextEdits`) it has `PositionsAlwaysAgree` and
`TreeIsToldExactly`, for any characters, any widths of 1 to 2 UTF-16 units and 1 to 4
bytes, and texts of any length up to the bound. What a text measures is a recursive
function of an offset (`Sums`), which depends only on the characters before it and
grows with every one of them; so a column has one offset on a line
(`Utf16ColToChar` undoes `EditorPosition`), a newline begins one line, and the
measures of a spliced text are those of its three parts. The recursion is handled by
the least counterexample (`LeastNat`). The invariant, `EditInv`, is little more than
`text = buffer`, both of them texts: a change that is understood keeps it, and a
position is understood because the texts agree.

**`LintPasses_proofs`** - `TypeCorrect`, `OnlyOneLives`, `PermitsComeBack`,
`NoPassIsLost` and the refinement `PassesImplementDiagnostics`. The invariant is
`Shapes /\ NothingIsLost`. `Shapes` says what the place of a pass, of the handler
and of a reload implies of what they hold (`PassesHold`, `StoreHolds`,
`CapturesAreOfDocs`), that the registry names live passes of their documents
(`Registered`), that every other pass of a document is aborted or on its way out
(`OneLivePass`), and that free permits and running processes add up
(`PermitsConserved`; the running ones are a finite set, counted by cardinality).
`NothingIsLost` is the promise behind `QuietIsUpToDate`: for every document that no
race has hit and the handler is not at, either the client is shown what it should
be, or somebody who will show it is under way - a pass in force, which has seen a new
enough text (`Fresh`), or a reload that has the document still before it.
It is proved action by action with a frame lemma for the steps that leave the
document alone. For the
refinement each action is shown to stutter, to move a document on, or to show
what the document is at that moment; that a pass past its staleness check shows
the present is read off the invariant.

**`SymbolIndex_proofs`** - `IndexInvariant`, and from it `TypeCorrect`, `SlotsStayTrue`,
`DefinitionsStayFound`, `AskersGetTheirOwn`, `TablesStayAgreeing`, `LibrariesLeave`
and `NsFormsHoldTheSlots`: every property of `index_slots`, for any files, dialects,
namespaces, names and contents. The index is one record and its operations are
functions, so the proof goes by operation: `XIs` says table by table what the
operation makes of an index, and `XSound`, `XCounted`, `XMetas` that it keeps the
parts of the invariant

    ContentsOf == Sound /\ Counted /\ MetaSound
                  /\ Twins, Held, MetaHeld of every key that is not collided

`Sound` has the tables of files and symbols: a pair of slots is ranked and has no
shadow without a primary, every name with a definition is listed, every project
definition belongs to an indexed file registered under its namespace. `Counted`
says that the counter is the sum of the uses. `MetaSound` says that a pair of
metadata slots is ranked too, and holds metadata of files that are registered for
the namespace and say of themselves what the slot says. `Held` is what makes a
definition findable: each file that defines an undisputed name has it in a slot; a
slot is only ever lost to a file of the same dialect, and then the name is
disputed (`Twins`). `MetaHeld` is the same for ns forms, through
`refill_namespace`, which takes the files of a list up one at a time. The loop of
`refill_namespace` and the sum are functions on numbers and on finite sets; what
holds of them for every length is proved by the least counterexample (`LeastNat`),
since the library's induction rules cannot be used. The constants need
`IndexAssumption` (dialects are numbers below 3, contents are contents, the paths
are finitely many), and no more.

What these say and what they do not: `SlotsStayTrue` is about what the slots hold,
that it is true and that a plain lookup finds some of it. That what the files
define is in the slots is `DefinitionsStayFound`, and holds of undisputed names
only: of two files of one dialect that define a name the slot keeps one, and when
that one goes, the other's definition is not found until it is indexed again.
`LibrariesLeave` says that `clear_libs` takes the library definitions and no
project one, and leaves no metadata of a library; what the project keeps of its own
metadata it says for a namespace in which the project defines a name (`NsSurvives`):
such a name is listed (`NamesListed`), so the namespace stays; its file is
registered there (`OwnersKnown`), so there is metadata (`NsKnown`), the project's
own or what `refill_namespace` finds. A namespace without project names can lose
its metadata, as `index_lost_ns` shows.

**`ConfigPipeline_proofs`** - `AnswersNeverStale`, `ResolvingEnds`, `TypeCorrect`,
`LibrariesAreTheUnion` and `NewestIsApplied`. The first invariant, `IInv`, says what the
phase of a task implies about the locks and the shared state: `Shapes /\
AtWorkHolds /\ StartupFirst`, a conjunct per running command and `ResolvingRuns`.
The argument: whoever has work under way holds the `ConfigApplyLock`; only an
application changes the list; so between the check of a command's project and
the use of its answer nothing that would make it stale can run. Each way out of
stage 3 takes the status "resolving" back in the same step that ends the command.

For the libraries it is strengthened to `LInv == IInv /\ TypeOK /\ Rooted /\
EntriesKept /\ LibsKept`: the entries are of the listed projects, and the
libraries are their union unless the application at work has still to rebuild
them. For `QuietIsApplied` to `QInv == LInv /\ JobsShape /\ ListComes /\
ConfigComes /\ SourcesCome /\ EntriesCome`: each of the four things that must be
the newest in the end (list, config, sources, entries) is so already, or a change
is still unreported, or some task will see to it - in the order of the code, which
is why an entry may be promised by a task that has first to refresh the list.
Every action is shown to keep each promise or to fulfil it; a promise is never
handed to a task that has already passed the point.

**`KondoEngine_proofs`** - `TypeCorrect`, `NewestSettings`, `NeverTwice`,
`EveryProjectIsWarmed`. The invariant is

    TypeOK /\ ProbeHolds /\ ProbeHasSettings /\ OnTheirWay /\ LastIsRecorded
           /\ ScansAreOfProjects /\ OneApplication /\ StartupIsFirst /\ ReloadsOnlyWarm

The argument for the settings: the newest ones are always on their way - not
yet reported, in a reload that is queued and has still to read them, in the one
probe that runs and has read them, or established (`OnTheirWay`; that only one
probe runs and that it establishes what it read are `ProbeHolds` and
`ProbeHasSettings`). For the scans: what was scanned last for a project is what is
recorded for it, as long as the project stands (`LastIsRecorded`), and the only
task that starts a scan holds the lock and has just compared the two; the list
and the entries move only under the one application (`OneApplication`,
`ReloadsOnlyWarm`). `EveryProjectIsWarmed` adds `WarmedWereTried` and
`WarmsComing`: whatever is recorded as warmed was tried, and a project whose entries
or engine have changed since its scan is in the hands of a task that has still to
warm it (`WillWarm`), or is one of the code's own exceptions (`missed`).

**`ChildProcess_proofs`** - `NothingSurvives`, `WholeAnswers` and `NeverStalled`. The
invariant adds to `NoOrphans` that the guard is armed exactly while clj-kondo is
waited for (`GuardHolds`), that bytes written are in the pipe or collected
(`Conserved`), and that a command whose output has ended has nobody left to write or
to start a writer (`Collapsed`). `PipesNeverStall` names the guards of the steps that
move a byte or close the input (`MayFeed`, `MayDrain`, `MayRead`, ...) where one might
write `ENABLED`; the actions are these guards and what they assign, so a guard that
holds is a step that can be taken. It needs that the pipes have room for a byte and
that who holds the output is alive (`PipesInv`).

**`PanicGuard_proofs`** - `PanicsCostOne`. The invariant follows an id from the call
that takes it to the answer that frees it: what is in the pending table is the
open request of its id, or was left by a panic and is listed to be cleared before
the next call (`Leaks`); a handler has its entry, or its call was aborted (`Held`);
and a call is aborted only by a cancel that was asked for no later than that
request (`Wanted`). It follows also that no call is ever rejected (`NoneRejected`).

**`Sessions_proofs`** - `NewFilesAreNamed` and `HitsAreMisses`. For new files the
invariant (`NInv`) says of each handler how far it is in its batch, that it has asked
for every file behind it that still wanted a form (`LeftNoneBehind`), that each edit
it sent is of a file it had reached, was empty then and is named by the list it
took (`AskedRightly`), and that a file nobody typed into or was sent is untouched.
That the namespace of `ns_for_path` is the one the convention names is a lemma
about prefixes of paths: the owner is the innermost project that holds the path, and
the longest root decides (`NsIsNamed`, `NamedIsFound`). `NewFilesAssumption` says that
a list of projects is not empty (`projects::resolve` puts the workspace root first),
has a directory once, and that the client reports the creation of a file once.

For the cache of a JAR the proof has two halves. The protocol: an entry of the
JAR's own time is what a server of the entry's version read out of the JAR as it
is, for the file, for what a server has read of it and for what one is about to
write (`JarInv`, `IsOfItsTime`), unless a rewrite went unseen. The data: the
insertions of a name that the index makes of the lists, flattened and grouped
again, are compared with those it makes of the lists as they were read, by lemmas
about flattened sequences (`MappedFlat`: what is made of the elements of a flattened
sequence is made of its parts, one after the other). A name that one file defines
is only ever inserted with that file (`OneFileAgrees`); one that the two files of its
namespace define once each is inserted twice without the cache and four times with
it, and the third insertion leaves the slots as the first did (`TwoFilesAgree`).

The assumptions on constants are those named in the modules; each says what kind
of value a constant is (numbers, finite sets, values that differ from `None`), and
TLC evaluates it on the runs.

Only model-checked:

* liveness under fairness (`Settles`, `EngineSettles`), which the prover does not
  reach;
* the properties of `Renames` and `NsEdits` (`RenameKeepsMeaning`, `PrepareIsRename`,
  `ReferencesAreUses`, `CleanKeepsMeaning`, `FixesClear`): their operators recurse over
  syntax trees. They are declared `RECURSIVE`, which the proof modules must not reach,
  and what they compute for every tree needs induction over data.

Every other property of a passing run is a theorem.

## 6. What is abstracted

* Texts, trees, contents, classpaths and binaries are model values. Parsing is
  a function of text and configuration.
* `ConfigPipeline`: every project has a command; the lgx kind, the re-extraction
  of open buffers, notifications and warming are left out (warming is in
  `KondoEngine`). Which directories detection looks at is not modelled: a project
  with a manifest may or may not be listed for it. `settings::load` and
  `set_extract_config` are one step.
* `LintPasses`: reading the state for `send_lint_status` and sending it are one
  step, so the module does not have the status that is overtaken between the
  two by a thread's preemption. Diagnostics are the revision and engine they
  come from.
* `KondoEngine`: the binary and the list are read in one step; the order of the
  projects is any order; a failing `join_paths` is left out; projects without a
  `.clj-kondo` directory never scan and are left to the constant `KondoDirs`.
* `TextEdits`: the newline is the only line break; the editor names offsets of
  its text, so a column past the end of a line or inside a surrogate pair, and a
  reversed range, do not occur; one change at a time, since a batch applies its
  changes one after the other under the document's lock (that a batch may fail
  part-way is in `DocumentStore`).
* `ChildProcess`: bytes are counted, not kept; stderr is read like stdout and left
  out; no process leaves its group or hands its pipes to one outside it, and a
  process id is not reused while it may still be killed.
* `SyntaxTrees` and what is over it: one line per file, every name one character
  wide, no comments and no metadata but `^:private`; the special forms are those
  that `Occurrences` names; EDN files hold keywords only. There is no splicing reader
  conditional, so neither is the fallback of a namespaced map that holds one
  (`extractor.rs:250` and 3408).
* `Renames`: the answer is applied at once, to the texts it was computed for.
* `NsEdits`: a fix is applied to the text it was computed for; nothing is said of
  the spaces and line breaks of an edit. Of completion, what the user typed of a
  name is left out (every name matches), and so are ranking, caps and the pools
  of names that change no ns form (locals, own, referred and core names, aliases,
  namespaces, classes). The user edits the ns form through these actions only.
* `JarCache`: the ZIP is read in one step; a write is torn at one place; deletion of
  the cache directory is the state it begins with.
* `NewFiles`: an edit either arrives in the buffer by its answer or does not at all; paths have no symbolic links.
* `SymbolIndex`: the JDK table, let-go's core and the built-ins are static and
  left out, and so are the queries that only read and are not named by a
  property.

Not modelled at all, with the reason, are the components of `PROJECT.json` with
status `not_modelled`: static tables and pure I/O for good, the rest until the
plan of section 2 reaches them.
