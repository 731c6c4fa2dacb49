# A TLA+ model of KCLVM

KCLVM compiles and runs KCL configuration programs. This directory holds TLA+
specifications of it, from the text of a program to its planned results and from
the editor's messages to the files of the build cache, the TLC configurations that
check them on small instances, and TLAPS proofs for instances of any size.
`PROJECT.json` relates every definition to the lines it models and lists the runs,
the hazards they are for, the mutants that each property detects, and the theorems.

## 1. The system

```
 editor <-> LSP main loop <-> thread pool          kclvm run, service, C API   KclRun
 LspServer      |  vfs            |                        |
                +-----------------+----> load_program <----+                   Loader
                                          | per file: lexer, parser            Lexer, Parser, Ast
                                          |   (formatter: printer)             Printer, Walker
                                    resolve_program                            Resolver, Checker
                                          |   pre_process_program              PreProcess
                              gen_libs -> cache -> link                        PackageCache
                                          | the generated code                 Codegen
                                    _kcl_run, runtime values                   KclRun, Values, Strings
                                          |
                                    planned documents                          Plan
 compiler_base/parallel: an executor for lists of tasks, used by test tools    TimeoutExecutor
```

| Component | State | Operations | Interacts with | Hard because |
|---|---|---|---|---|
| Task executor (`compiler_base/parallel`) | waiting queue, map of running tasks, counter, queue of deadlines, channel | `run_all_tasks`, `start_task`, `join`, deadlines | task threads over an mpsc channel, the notifier callback | results race with deadlines; threads panic before or after they report; the notifier may fail in the middle |
| Package cache and build (`config/src/cache.rs`, `runner/src/assembler.rs`, `linker.rs`) | objects, cache files and the `info` map on disk, two kinds of file lock | `load_pkg_cache`, `save_pkg_cache`, `write_info_cache`, `gen_libs`, `link_all_libs` | other processes in the same root, the user's edits | sources are read twice; locks are released before the link; builds die between writes |
| Language server (`tools/src/LSP`) | request queue, shutdown flag, vfs, pool queue, task channel | one handler per message, `handle_task`, `handle_diagnostics`, the request handlers | editor over stdio, pool threads through the vfs and the channel | jobs read a vfs that keeps changing; results are sent in another order than they are computed; jobs panic |
| Program loader (`parser/src/lib.rs`) | `pkgs`, `missing_pkgs`, paths in the import statements | `_load_main`, `load_import_package`, `load_package`, `find_packages` | file system, diagnostics | circular imports; one map for packages of several modules |
| Resolver, packages (`sema/src/resolver`) | `scope_map`, schema types, dependency graph, context | `check`, `init_import_list`, `init_global_types`, `build_schema_type` | the loader's program, diagnostics | re-entrant recursion over imports; types are copies and are completed by a fixed number of scans |
| Runtime entry, service, C API (`runtime/src/_kcl_run.rs`, `runtime/src/context`, `api`, `runner`) | current context and panic hook, both process wide; fixed buffers | `kclvm_cli_run`, `kclvm_service_call`, `exec_program`, `_kcl_run` | everything below | panics on every level; two hooks; results longer than the buffer |
| Lexer (`parser/src/lexer`) | indentation levels, open brackets | `lex_indent_context`, `lex_token`, `eof` | the parser | error recovery changes both stacks |
| Parser, AST, printer, formatter (`parser/src/parser`, `ast`, `ast_pretty`, `tools/src/format`) | position in the tokens; comment queue | one function per rule and node | each other: what the formatter writes must be read back | recovery that must make progress; comments placed by line numbers |
| Runtime values (`runtime/src/value`) | shared, mutable cells | operators, comparison, slices, `do_union`, `deep_copy`, string functions | generated code | aliasing, operators in place, integer widths, bytes against characters |
| Generator and schema evaluation (`compiler/src/codegen/llvm`, `value/api.rs`) | scopes, boxes, frames, the calculation map and cache of an instance | one function per statement and expression, `kclvm_schema_*` | values | attributes are computed on demand in any order, twice, through bases, mixins and configs |
| Preprocessing, planning (`sema/src/pre_process`, `value/val_plan.rs`) | | merging of declarations; documents | checker, runtime | declarations move; instances leave the place they stand in |
| Checker (`sema/src/ty`, `sema/src/resolver`) | scopes of types, schema types, expected config types, errors | one function per statement and expression | the runtime it predicts | it must agree with another implementation of the same operators |
| Standard library, lints, settings, query, validator, command line, diagnostics | per call | | | sequential; see section 6 |

What makes each part correct:

* **Executor**: never more threads than the capacity; every result finds its
  `RunningTask` entry; the notifier sees Wait, Timeout, Finished in this order
  and each at most once; `Ok` means all finished; it returns if the tasks do.
* **Cache**: the linker finds complete objects, of the texts the build was about;
  no build loses another's entry of the info map; builds do not block for ever.
* **Language server**: every accepted request gets one answer, computed from a
  text not older than the one asked about; no change of a document is forgotten;
  the present text is reported, and an older report overtakes it at most once per
  thread; the server comes to rest.
* **Loader**: stops on any import graph with exactly the reachable packages, each
  parsed once, and every import statement pointing at the package it means.
* **Resolver**: each package is checked once and after its imports; circular
  references are reported if and only if there are any; a schema type knows the
  attributes of all ancestors.
* **Runtime entry**: a call leaves the process as it found it, uses its own context,
  and tells the caller what happened, whatever fails, panics or is too long.
* **Lexer, parser, printer**: blocks and brackets match; operators bind by their
  precedence; nothing of an accepted text is lost from the tree; the formatted text
  means the same, keeps the comments and is a fixed point.
* **Values, schemas, plan**: arithmetic is exact or an error; the union of two
  configs is what the entries say; an instance is what its definitions say, whatever
  their order; a statement changes only what it names; the documents hold every
  public value once.
* **Checker**: accepted programs do not fail for a type, and a variable's value is
  of the type found for it.

## 2. Modules

| Module | Models | Extends |
|---|---|---|
| `TaskPool` | what the `Executor` trait promises | |
| `TimeoutExecutor` | `TimeoutExecutor::run_all_tasks`, task threads, clock; refines `TaskPool` | |
| `PackageCache` | builds sharing one cache directory | |
| `LspServer` | main loop, dispatchers, handlers, pool | |
| `Loader` | `load_program` | |
| `Resolver` | `resolve_program` for packages and schemas | |
| `KclRun` | a run of a program inside the host process | |
| `Lexer` | the lexer's stacks | |
| `Parser`, `Printer`, `Walker` | parser; printer, formatter and re-lexing; default traversal | the one before |
| `Ast` | shapes of the syntax tree | |
| `Grammar` | texts that are read, written and read again | `Walker`, `Ast` |
| `Numbers` | the runtime's integers: operators with their range checks, positions of slices | |
| `Values`, `Strings`, `Codegen`, `PreProcess`, `Plan`, `Checker` | see the diagram | the one before; `Values` extends `Numbers` |
| `Language` | a program that is checked, run and planned | `Checker` |
| `MC*` | instances for TLC | the module of the same name |
| `TimeoutExecutorProofs`, `PackageCacheProofs`, `LspServerProofs`, `LoaderProofs`, `ResolverProofs`, `KclRunProofs`, `LexerProofs`, `NumbersProofs` | inductive invariants and theorems | the module of the same name, `TLAPS` |

Definitions that look like a second version of their neighbour
(`HasRoomOffByOne` before `HasRoom`) are the mutants of `PROJECT.json`: the
neighbour as a plausible bug would leave it. They are not used by any action.

### TimeoutExecutor

The executor's thread is a program counter over the blocking points and the
notifier calls of `run_all_tasks`: `LoadTask` (pop, deadline, Wait event),
`StartTask`, `BeginWait` (choice between `recv_timeout` and `recv`), `Recv`,
`RecvTimeout`, `AllTimedOutTasksInfo`, `ReportTimeout` (one iteration of the
`for`), `EndReport`, `FinishTask` (remove, join, verdict, Finished event) and
`ReturnOk`. Every `?` after a notifier call is an alternative that drops the
receiver; the bug path leaks it with `mem::forget`, and the difference matters to
threads that still have to send. A task's thread sends one result and then ends,
or panics before or after it. Time is a counter; `Timeout` stands for the 60
seconds. The expired entries of finished tasks are skipped when they are reported
and not when they are collected, which is the same since `running_tasks` does not
change in between.

### PackageCache

Each process is a program counter over the file-system operations of one build:
parse; for each imported package lock, load, and on a miss remove the object, emit
it (not atomic: `Torn` in between), hash the sources, lock the info map, read it
and write it back, write the cache file; unlock; and, with all locks released,
link. Texts are numbers and MD5 is injective on them. `Abort` is a kill, a panic
or an error anywhere: file locks go, files stay as they are. `Kind` says where a
package lives, which decides whether `load_pkg_cache` compares checksums and
whether `save_pkg_cache` records one. The main package's object lives in a
private temporary directory and is left out.

### LspServer

One step per message from the client, per task taken from the channel, and per
section of a pool job between lock operations (start, `take_changes`, compile,
send). The four compiling requests differ only in what they compute and are one
method; the others cover every path of the dispatchers. A text is a number,
higher for later edits; what a compile computes is the text it read.
`Unloadable` texts are those for which `load_program` returns `Err`, which the
`unwrap` in `parse_param_and_compile` turns into a panic of the job. Tasks
already sent survive; the request stays registered. `by` is a ghost: the thread that
sent a report.

### Loader

The mutual recursion of `load_import_package` and `load_package` is an explicit
stack of frames. A package path is a sequence of names; a directory is a module
(the program or an external package) with a path below its root. `Found` is
`find_packages` with both of its error cases; `Known` are the early returns of
`load_package`. `bound` records the path left in each import statement, which is
what the resolver later looks up. Paths with two meanings, one in the program and one
in an external package, are in the instance: `Shadowed` says of an import that another
module's package, or directory without files, answers for its path.

### Resolver

Again a stack of frames, one per nested `check`, with a phase (imports or build),
a position and a scan. A schema type is abstracted to the set of schemas whose
attributes can be found through it: `attrs` (its own map, mixins copied in) and
`view` (what the lookup through the chain of bases finds in the copies it holds).
The dependency graph holds packages and schemas, as in the code. `resolve_import`
(missing files are reported), protocols, rules, type aliases and global variables
are not in this module; the types of one package's statements are in `Checker`.

### KclRun

A call is a program counter from the entry point (`Begin`, one alternative per
entry point) over the stages of `exec_program` (load, build, `_kcl_run`, collect,
classify, plan) to `Reply`. Every stage may return, fail or panic (`Stage`). The
panic hook and `_kclvm_context_current` are process wide, saved and replaced on the
way down and restored on the way up; a panic runs the hook that is installed at
that moment. The lengths of results and messages run past the buffer's
(`ResultSize`). Through the C API a call may end without an answer (`Unanswered`): at
exactly the buffer's size the error text is read from a buffer of zeros, the `CString`
cannot hold it, and the `expect` panics outside `catch_unwind`, which unwinds into the
host or aborts the process. The entry points are documented as not thread safe, so calls of
different callers do not overlap (`MayEnter`).

### Lexer

One action per class of raw token; blanks carry the width and kind of the margin.
`LexIndent` is `lex_indent` with its popping loop. `lost` is a ghost for the Indent
or Dedents that a skipped token takes with it, `clean` for the absence of errors.

### Parser, Printer, Walker, Ast, Grammar

These are functions on small texts, written as operators: `Parser` one per parse
function with its recovery, `Printer` one per printed node with the comment queue,
`Walker` the default traversal. A token is a string of a small vocabulary; a node
is a tuple of its kind, line and fields, whose sorts `Ast` tabulates. A loop of the
parser that comes round at the same token does so for ever; the model stops there
and says so (`h`), and treats indices out of bounds and failing `unwrap`s the same
way. `Grammar` composes them: a behaviour writes a text piece by piece over one of
the vocabularies (`Themes`), and the properties are about the text after each step.

### Values, Strings, Codegen, PreProcess, Plan, Checker, Language

A program is a record of schemas and statements over tagged tuples. `Language` has
one action for what is done before the run (`Prepare`: pre-processing and the
check), one for each kind of global statement, and one for the planning. The state
`m` is the machine of `Codegen`: a heap of cells (so that sharing and writes in
place show), ValueRef boxes, scopes, the frame of the schema code that is running,
and the first panic. `Run` is the dispatcher of the generator's walk: statements,
expressions and the runtime functions that call each other (union, schema
construction, checks, conversion); it does nothing once there has been a panic.
An instance is built by the two calls of its schema function, the first of which
only fills the calculation map; attributes are found through
`kclvm_schema_get_value` with its levels and cache. Integers keep the widths
`Bits32` and `Bits64`; floats are fractions, exact as long as numerator and
denominator are small. Strings count bytes and characters differently: the
character `w` takes two bytes. `Checker` has the state of the resolver (scopes,
`local_vars`, `global_names`, the schema table, the stack of expected config types)
and its dispatcher `TypeOf`.

## 3. Runs

`CHECK_DEADLOCK FALSE` is set throughout: every one of these systems may stop,
because a call has returned, a text or program is finished, a bound on edits, builds
or messages is used up, or the server has exited. That nothing stops *early* is what
the liveness properties, `NothingForgotten` and `AcceptedIsRead` say.

| Run | Instance | Shows |
|---|---|---|
| `executor_safety` | 3 tasks, 2 threads, all statuses, panics before and after the report, failing notifier; 773 000 states | `ThreadsAccounted` (thread bound, no result without its entry, meaning of `Ok`), `EventsHonest` (order of events, only overdue tasks reported), `WaitsInformed` (no result lost, no wait for nothing, no unlimited wait for an unreported task), refinement of `TaskPool` |
| `executor_live` | the same, notifier succeeds, one task may never send; 151 000 states | `Terminates`, and `OverdueIsReported` even if nothing ever arrives |
| `cache_concurrent` | 2 processes, 2 packages, 4 builds, 2 edits between builds, 2 kills | `LinksWholeObjects`, `LinksCurrentSource`, `NoLostInfo`, `WaitsForFurther` (waits form no circle), `BuildsFinish` |
| `lsp_requests` | 2 requests of any kind, 2 notifications, 2 documents, of which one has a text that does not load, 2 threads; 3 330 000 states | `AnsweredOnce`; `AnswersRight` (from a text not older than asked about, refused exactly after shutdown); `NothingForgotten` (but for what such a text takes with it) |
| `lsp_fair` | 1 request, 3 notifications, 1 document with three texts, of which the first does not load, 2 threads, exit and failure; 1 510 000 states | `LateOnce` (a thread whose diagnostics arrive after those of a newer text is late only once); `Settles` (requests are handled, the server comes to rest) |
| `loader_graphs` | 9 directories of 4 modules, 18 180 import graphs, paths with two meanings among them; 117 000 states | `LoadsExactly` (the packages that loaded ones mean, each parsed once, every import accounted for), `BindsMeaning` (or the path is another module's), `Terminates`, `Advances` (every step achieves something new, within what the text allows) |
| `resolver_programs` | 4 packages (one missing), 6 schemas, one of them a mixin, 17 000 programs | `PackagesInOrder`, `ReportsCycles`, `Terminates`; `ScansDecide`: the programs that the scans complete are those in which no chain of parents and mixins runs against the order of declaration more than twice |
| `resolver_chain` | 4 schemas in one package, any inheritance | **violation** of `SeesAllAncestors` |
| `kcl_run` | 2 callers, 3 calls, lengths around the buffer's | `ProcessUndisturbed` (own context, hook restored, at most one context left behind per call), `HonestReply` (no failure taken for a success, the call's own message; no answer only at the C API and exactly the buffer's size) |
| `lexer` | every sequence of 12 raw tokens, 2 brackets open | `BlocksMatch` (stack, balance and margin agree after any errors), `TokensExact` (brackets nest, string contents) |
| `grammar` | every text of a few pieces in 13 vocabularies; 106 000 states | `AcceptedIsRead`, `TreeExact` (shapes of `Ast`, every word in the tree and seen by the walker, operators bound by precedence), `FormatExact` (same meaning, comments kept, stable) |
| `language` | 26 000 programs with their options; 104 000 states | see below |

The properties of `language`, each about the programs written for it in
`MCLanguage` and all of them evaluated in every state:

* `ArithmeticExact`: quotient and remainder fit together, `_c op= y` is `x op y`, and
  sums, differences, products, powers and right shifts of ints are the exact numbers,
  within their width, or errors. A left shift is exact under strict_range_check; else it
  loses the bits beyond the i64, since `checked_shl` looks at the distance only.
* `PartsExact`: slices, quantifiers, comprehensions, splits, replacements, positions,
  and what is stripped, removed or counted, against reference definitions on sequences.
* `UnionExact`: `a | b` against a merge of the two literals that knows no heap.
* `OnlyTargets` (action property): no statement changes a variable that shares
  nothing with its target.
* `InstanceExact`: every attribute has the value its last
  statement gives it from the final values of the others, and an instance is made
  exactly when nothing is missing and all checks hold; the definition it is
  compared with has no order of evaluation.
* `UnionIsConstruction`: an instance united with a config is the instance made of
  both, also where the config's keys are paths.
* `PlanConserves`: the documents, entry by entry, are the tree of the public globals
  without what is private, ignored or standalone, and the tree of each standalone
  instance; none is missing, added or made twice. `LeftOut` names the one loss: a list
  is dropped where its standalone elements give as many documents as it has elements.
* `AcceptedRuns`, `TypesCover`: what the checker accepts does not fail for a type,
  and values are of the types found. Both have named exceptions (`Unseen`, `Lacks`,
  `Mistaken`, `Extended`, and variables of type any or bool), which are the places
  where the checker is known not to look; section 5 lists them.

### Bounds

* Executor: with three tasks and two threads a task waits for a thread to be freed,
  two results can be in the channel at once, and two entries can expire in the
  same sweep. `MaxTime` = 2 with `Timeout` = 1 lets a task start after the clock has
  moved and still expire.
* Cache: two builds are needed to race and a third and fourth to read what they
  left; two packages are needed for the info map to lose an entry; three texts
  distinguish stale from merely old.
* Language server: two requests and two notifications let an edit and a request
  overtake each other in the pool in every order; a third notification covers a
  change made while diagnostics of the previous one are being computed.
* Loader and resolver: the instances are families of all graphs over a few nodes;
  cycles through one, two and three packages, diamonds, self-imports, missing,
  duplicate, empty and unreadable packages all occur.
* Runtime entry: a third call meets what two calls before it left behind; a buffer
  of two bytes has a length below, at and above its limit.
* Lexer: twelve raw tokens are three lines with a margin, a bracket and an error
  each; two open brackets can be closed in the wrong order.
* Grammar: a vocabulary is one part of the language (operators, statements, schemas,
  comprehensions, types, comments, ...) with up to five pieces, so that every rule
  occurs next to every other of its part and with each of its parts missing.
* Language: 4 and 8 bits make every overflow of a sum, product, power or shift reachable
  with small numbers, keep i32 apart from i64, and leave room for the product of two i32. Schemas have up to three
  attributes in all orders, with a base, a mixin, an argument, a check and an index
  signature; that is enough for a statement to read what a later one, the base, the
  mixin or the config sets, and for a chain of two such reads.

### Fairness

* Executor: weak fairness of its own thread, the clock and the threads of the
  tasks that are not in `Stuck`: a running OS thread makes progress. A task that
  may never send has no fairness.
* Cache: strong fairness of each started build: `fslock` waits in the kernel's
  queue, so a lock that is released again and again is granted in the end. Starting
  a build and editing are never required.
* Language server: weak fairness of each pool thread and of taking tasks from the
  channel: `select!` chooses among ready channels at random. The client need not
  send anything.
* Loader and resolver: one sequential call each, so weak fairness of `Next`.
* The other modules have safety properties only. Where a parser loop would not end,
  the model says so in the parser's field `h` instead of looping.

## 4. Proofs

Each theorem holds for every value of the constants allowed by the named
assumptions of its module; TLC evaluates all of these assumptions, and the
conditions that a theorem states in its ASSUME hold in the instance of the run that
checks the same property. The inductive invariants were checked with TLC on the
instances of section 3 before they were proved. Their shape is always the same: what
is true at each program point of one actor, and what keeps the other actors from
disturbing it.

**TimeoutExecutorProofs**, any list of tasks, capacity, timeout and panics.
* `TypeCorrect` (`[]TypeOK`, which includes that the duration given to `recv_timeout`
  is a natural number). Inductive together with `InHand`: a task is in hand at
  `spawn`, a result at `join`, and `running_count` is positive while a result is
  awaited, so the subtraction cannot underflow.
* `Accounted` (`[]ThreadsAccounted`), `EventsTrue` (`[]EventsHonest`). Both follow
  from one invariant `IInv`: a task is waiting, just popped, running or finished
  (`Places`); live threads have an entry in `running_tasks`, and these are at most
  `running_count` (`Budget`); it has at most one message, and while it has one its entry
  is there (`Mail`); at most one deadline of it is queued (`Queued`); its events so far
  fit the place it is in (`Told`), and deadlines the clock (`Clock`). Neither property
  is inductive: that a result finds its entry rests on the thread having sent once, and
  that an event comes once rests on where the task is.
* `Refinement` (`Spec => ImplementsTaskPool`): every step of the executor maps to a
  step of `TaskPool` or to none, with the same invariant.
* `Informed` (`[]WaitsInformed`): the executor chooses the `recv` without a time limit
  when its queue of deadlines is empty, which is right only if every task it waits for
  has been reported by then. `WaitInv` follows a deadline: while its task is running it
  is in the queue, among those being reported, or reported. It also makes the count
  exact, which `Accounted` needs only as a bound, and says that a result received in
  time stays in hand over the reports that come before its join.

**PackageCacheProofs**, any number of processes and packages, kills anywhere.
* `TypeCorrect`: types and mutual exclusion on each object lock.
* `InfoCorrect` (`[]NoLostInfo`): unconditional. `InfoInv` adds that whoever is about
  to write the map holds the info lock and a copy that is current.
* `NoCircularWait` (`[]WaitsForFurther`): unconditional. A build holds at most one
  object lock, and while it holds the info lock it waits for nothing. `LockInv` says
  that whoever owns a lock is between taking and releasing it, so its stage is later
  than that of every build waiting for it. This is the safety half of `BuildsFinish`.
* `CacheSound`, `LinksWhole`: under `Disciplined` (packages under the root, no edit
  during a build, no return to an earlier text) `AcceptsOnlyCurrent`,
  `LinksWholeObjects` and `LinksCurrentSource` hold. None of the three is inductive:
  that an object is whole when it is linked depends on the build having seen the
  package cached and on no other build ever missing on it afterwards. `CacheInv` says
  this: for each build, what it knows of the package in its hand at each program point,
  that all packages it is done with are `Cached`, and that records are never newer than
  the sources. Lemma `Frame` shows that a step of one build keeps what another knows,
  because they hold different packages (`Exclusive`). Each conjunct of `Disciplined`
  is necessary; section 5 says why.

**LspServerProofs**, any number of requests, documents, edits and threads.
* `Answered` (`[]AnsweredOnce`): `OnceInv` adds that a registered request has no
  answer and that one not yet asked is neither registered nor answered.
* `TypeCorrect`, `Right` (`[]AnswersRight`): unconditional. `WorkInv` says what
  each job, thread and task in the channel is about: requests that were accepted, and
  from the compile on a text that is not older than the one the client asked about. It
  needs that the vfs always has the client's text.
* `Forgotten` (`[]NothingForgotten`): unconditional. `NoneLost`
  says where an obligation is while it is open: a registered request is in the pool's
  queue, in a thread or in the channel; a change is still marked in the vfs and a job
  that will take it is queued or starting, or a thread has it in hand; or a text that
  does not load may have ended the job (`MayBeLost`, `MayBeUnreported`), an excuse that
  edits never take back (`ExcuseGrows`).
* `Late` (`[]LateOnce`): unconditional. With several threads the older of two reports may
  be sent last. `LateInv` reads the reports received and those in the channel as one
  sequence: no thread sends an older text than any reported before its own last report,
  because it reads the text after sending that one.

**LoaderProofs**, any directories, modules and programs, with `LoadPackages`.
* `Loads` (`[]LoadsExactly`), `Binds` (`[]BindsMeaning`). `IInv` has three parts.
  `Calls`: each call but the innermost waits for the package that its present import
  means, and no package is loaded by two calls, which is why circular imports do no
  harm. `Marks`: `pkgs` has only reachable and readable packages, each parsed once, and
  an incomplete one is on the stack. `Bounds`: of a package under way the imports
  before the present one are dealt with, of one that was left all. When the stack is
  empty, the packages held are therefore closed under imports, and `Reached` is the
  least such set.
* `Progress` (`Spec => Advances`): the loader ends on any program, circular imports
  included, stated without fairness. What it has achieved (packages entered, imports
  settled, the end) grows with every step and stays within `Achievable`, which only the
  text determines. `Terminates` says the same under fairness, and is left to TLC.
* `load_package` looks up `pkgs` and `missing_pkgs` by the path as it is written before
  it considers the importing module (`parser/src/lib.rs:506-511`). The theorems allow an
  import to be taken for another module's only where such a package is in the program
  or such a directory was met (`Shadowed`); lemma `ShadowKept` says that this stays so,
  and `OneKey` that two directories that are imported never share a key.

**ResolverProofs**, any packages, imports, schemas and inheritance, cycles included.
* `InOrder` (`[]PackagesInOrder`), `Cycles` (`[]ReportsCycles`): unconditional. `Walk`
  says that a package has a scope exactly from when it is entered, and is on the stack
  from then until it is checked; `Calls` that adjacent calls are connected by an import,
  so that meeting a package again on the stack exhibits a cycle; `Progress` which edges
  a call has put into the graph when it is at a given position and scan; `Graph` that
  there are no other edges and that a report has been made exactly when the graph is
  cyclic. For the converse the graph at the end must be shown to hold all edges of the
  reachable part.
* `Sees`, `Decides` (`[]ScansDecide`): what the three scans of `init_global_types` are
  enough for. `Scannable` gives each schema a scan: not earlier than that of a parent or
  mixin of its package, and later if that one is declared after it. `Sees`: in a
  scannable program checked without reports every schema has `SeesAllAncestors`; by
  `SeesInv`, scan k completes the types of scan k, since a copy taken then is of a complete
  type. `Decides` adds that without mixins no other program is completed: `NeedInv` keeps,
  of every complete type, the scan that completed it, which is the assignment that
  `Scannable` asks for. With mixins this half is false: a schema that mixes in a mixin
  derived from it is complete, and in no order of scans. The theorems are for one declaration per schema (`DeclaredOnce`;
  a second declaration is reported, and its types are built over each other) and for
  mixins without a base (`PlainMixins`, see section 5).

**KclRunProofs**, any callers, number of calls and size of the buffers.
* `Undisturbed` (`[]ProcessUndisturbed`), `Honest` (`[]HonestReply`): unconditional.
  `HookInv` says which hooks are saved on which level at each program point,
  `ContextInv` that between allocation and deletion the current context is the caller's
  own and how many contexts may be left, `ReplyInv` what is known of the answer at each
  program point. They need `Alone`: calls do not overlap, which is the documented
  condition of the entry points.

**LexerProofs**, texts of any length and nesting.
* `Blocks` (`[]BlocksMatch`), `Tokens` (`[]TokensExact`): unconditional. The two
  properties and the types are inductive. The work is in the lemmas about the popping
  loop of `lex_indent`: it stops at or above the margin (`KeepFacts`, by
  well-foundedness of the numbers) and keeps a stack that deepens (`Deepens`).

**NumbersProofs**, any widths of i32 and i64, and any integers within them.
* `Division`: `//` and `%` correct the machine's division toward zero by two separate
  conditions; together they are one division that rounds down. The statement is the
  `DivMod` that `ArithmeticExact` uses in the runs.
* `Ranges`: every arithmetic or shift operator on two i64 panics or gives an i64, and with
  strict_range_check sums, differences, products and powers are i32.
* `Slices`: the index computation of `list_slice` never reads outside the list and visits
  exactly the positions the bounds describe.
* The prover has no laws of exponentiation. `WidthsDiffer` therefore states, of the chosen
  widths, that the two maxima are naturals in order and powers of two positive; TLC
  evaluates it for the widths of the run. The bit operators are sums by a recursive function
  and stay with TLC, as do floats.

Proving corrected the models in three places. `Progress` did not hold of the resolver's
`BuildSchema` as it first was, which had left out of `illegal` some of the parents and
mixins that the code reports. The loader's assumption allowed the main files to be
unreadable, although the state the model starts in is the one after `_load_main` has
read them. `Ranges` led to `PowChecked`: the 64-bit check of a power refuses an exponent
beyond i32 (`val_overflow.rs:51`), also where the power would fit.

Model-checked only:
* liveness (`Terminates`, `OverdueIsReported`, `BuildsFinish`, `Settles`): fairness and
  `ENABLED` are outside the prover;
* the properties of `Grammar` and `Language`, except for what `NumbersProofs` has of
  `ArithmeticExact` and `PartsExact`: these modules are built from recursive
  operators over syntax trees and heaps; the prover has neither these nor the induction
  over data that their properties would need.

## 5. Where code and expectation part

`resolver_chain` is checked as a violation: s1(s2), s2(s3), s3(s4), s4 declared in
this order need four scans; three (`global.rs:106`) leave the type of s1 without
what s4 declares, although the comment at `global.rs:25` says that the scans are
there to allow backward references.

The following also came up. The properties above are stated, or their instances
chosen, so that they hold beside these, and each can be seen by dropping the
exception or widening the instance.

*Concurrency and files*
* `LinksCurrentSource` fails with an edit during a build: `write_info_cache`
  (`cache.rs:161`) hashes the files as they are when it is called, long after they
  were parsed, and records the new text for the object of the old one. It fails also
  when a source returns to an earlier text after a killed build, and for packages
  found only in a vendor directory, which are accepted unchecked (`cache.rs:61`).
  The md5 runs over the concatenated files (`cache.rs:186`), so moving text between
  neighbouring files goes unnoticed.
* `LinksWholeObjects` fails for packages outside the root: they are recompiled by
  every build, and the lock is released before linking (`assembler.rs:386`).
* A request that meets an unloadable text is never answered, and diagnostics may be
  missing: the `unwrap` at LSP `util.rs:76` panics in a pool thread and the id stays
  registered (`MayBeLost`, `MayBeUnreported`). With several pool threads the diagnostics
  shown last may be those of an older text, since each compiles before it sends
  (`LateOnce` says how often). didClose has no handler (`notification.rs:18`); `text_range`
  (`from_lsp.rs:47`) does not clamp positions.
* An executor's task thread that panics before it sends leaves `run_all_tasks`
  waiting for ever when nothing else is awaited (`Terminates` allows panics only
  after the report).
* An external package that imports a path the program also has may get the program's
  package, or none: `load_package` looks for the unprefixed path first
  (`parser/src/lib.rs:506`; `Shadowed`).
* Once the dependency graph has a cycle, every edge added later is reported as
  circular, also if it lies on none.
* The plan after a run is made in a second context with the default cfg
  (`val_plan.rs:24`), which is not freed.
* A result or message of exactly the runner's buffer size makes a call through the C API
  panic in the host's frames (`runner.rs:330-333`, `capi.rs:90-95`; `Unanswered`).

* A schema copies the attribute map of a mixin (`global.rs:726`), which has nothing of
  the mixin's base: attributes that come only from the base of a mixin are missing
  from the schemas that use it.

*Reading and formatting*
* Loops that do not end on malformed text: `parse_block_stmt_list` at the end of the
  file (`stmt.rs:145`), `lambda 1 {}`, the block of an `if` item, mixin lists. Panics:
  `a[:::1]` (`expr.rs:463`), the literal type `0x1`. Integer literals wrap
  (`int.rs:5`).
* `walk_if_stmt` of the printer drops the statements after an `if` that begins an
  else block; `[k: ...str]` is printed `[...k: str]`; a rule with a doc and no checks
  swallows the next statement when it is read back; a dict comprehension with `**` or
  `if` panics; comments above `**x`, above `elif` items and between decorators are
  printed inside the construct; decorators before other statements than schemas are
  dropped; `lambda {}` is formatted to a text that is rejected.

*Checking*
* Not looked at: arithmetic on bool (which panics), a list or string indexed by a
  string, the arguments of string functions, members of union types, the config
  united with an instance, comparisons after the first of a chain.
* `int / int` is typed int and gives a float (as the comment at `calculation.rs:17`
  says), `%` of floats is typed int, `and` is typed bool and gives an operand, `~` of bool is typed bool, `a: int = "int"` is
  accepted (a string is below every type its text names), the least upper bound of
  two types that subsume each other drops both, a dict assigned to a schema is
  checked against the index signature only, and whether an `+=` in a schema on a
  global's name is immutable depends on the order of the statements.

*Running*
* A self-referencing statement of a schema is applied twice
  (`a: int = 1; b: int = a + 1; a = a + 1` gives a = 3, `api.rs:2426`); an attribute that
  depends on an argument is recomputed with the default from a base or mixin; the
  checks of a schema with a named index signature are skipped when the config has no
  further key, and the signature of a base is not inherited.
* `a = [1]; _b = a; _b += [2]` changes the exported `a`; `_a += _a` panics; `b = a` as an
  attribute shares the cell, and an augmented attribute writes into the config;
  `0` literals share one cell, which an augmented assignment changes.
* The first scalar is dropped by a schema scalar (`context.rs:1404`); `a = []` does
  not appear in the plan; a list whose standalone element derives another standalone
  document loses its inline elements (`val_plan.rs:105`; `LeftOut`); documents derived from
  instances in lists stay in the list.
* A conflict in a union leaves the keys before it merged (`val_union.rs:75`). An
  entry of a nested config overwrites the outer local of its name. `<<` is not
  range-checked under strict; an i64 overflow of `-` is reported as one of i32.
* `find` and `len` count bytes while subscripts and slices count characters; a bound
  inside a character panics in `count`, `find` and `startswith`, as does the
  iteration over a string that has one.
* `merge_program` moves entries into the last declaration of a name;
  `transform_multi_assign` iterates over a HashMap.

## 6. Not modelled

`PROJECT.json` gives the reason for each component. In the modelled ones these parts
are left out: lambdas, rules, decorators, plugins, formatted strings, number units,
`is` and `as`, protocols, type aliases and built-in functions in checker and
generator; the qualification of names across packages; which characters make a raw
token, escapes and number conversion; the string functions `capitalize`, `format`, `isalnum`,
`isalpha`, `isdigit` and `isspace`; JSON and YAML texts; the arithmetic of binary
floating point beyond exact fractions. The standard library works on strings and
floats; lints only add diagnostics; command line, settings and project lookup are
searches in the file system; diagnostics are one mutex around a set; query and
override rewrite a tree by a path.

## 7. Plan

1. Action properties of the server for instances of any size: a document's text never
   goes back, a request once answered stays so.
2. Lambdas and rules in `Codegen` and `Checker`, the qualification of names, and with
   it programs of several packages: `Loader`, `Resolver` and `Language` composed.
3. `apply_document_changes` and `text_range` against the positions of the protocol,
   composed with the vfs part of `LspServer`; didClose and texts on disk.
4. `replace_config_with_path_parts` of the query tool as an operator, with the
   printer of `Printer`.
