# A verification project for zmm-build

zmm-build is a build system that is a C library: a build script is a C program
that declares a graph of targets and asks the library to bring some of them up
to date. This directory holds TLA+ models of the library, the TLC runs that
check them, and TLAPS proofs about its core. Line numbers refer to
`src/src/builder.c` unless another file is named.

- [1. The system](#1-the-system): components, state, operations, interactions
- [2. Modules](#2-modules): what models what
- [3. Runs](#3-runs): what is checked, on which instances
- [4. Fairness and other assumptions](#4-fairness-and-other-assumptions)
- [5. Proofs](#5-proofs)
- [6. What the checks found](#6-what-the-checks-found)
- [7. Plan](#7-plan) and what is [not modelled](#8-not-modelled)

## 1. The system

| component | state | operations | what makes it correct |
|---|---|---|---|
| Build graph (`builder.c` 65-85, 192-317) | `g->nodes` (output, sources, deps, `dependents`, `waits_on`, builder, flags), `g->node_map` | `zmm_bg_init`, `zmm_bg_add`, `zmm_bg_add_phony`, `zmm_tg_*` | one node per path whatever the order of the calls; both ends of an edge agree, repetitions included |
| Prepare (319-459) | per node `is_in_subgraph`, `eval_visited`, `is_dirty`, `pending_deps`; `g->remaining_dirty` | `zmm_bg_prepare`, `zmm_bg_is_dirty` | the subgraph is the closure of the targets; dirty is what has a reason or waits for something that has; the counts are those the executor counts down |
| Task queue (87-149) | ring of node ids, `count`, `shutdown`, a mutex, a condition variable | `queue_init`, `queue_push`, `queue_pop`, `queue_shutdown` | first in, first out; no wake-up lost; drained after a shutdown; never overfull |
| Executor (461-593) | the counters prepare left, `has_error`, `done_lock`/`done_cond`, one main thread, one worker per processor | `zmm_bg_exec`, `worker_fn`, the builders the script passed | every dirty node once, after its inputs; stops at the first failure; returns, with the right value, when nobody works any more |
| Build session | the files' modification times between runs of the script | prepare, exec, edits, removals, kill | a file that is not as its sources make it is never taken for up to date |
| compile_commands.json (`cc.c`) | a file, a buffer, a count, a lock; the parser has none | `zmm_cc_init`, `zmm_cc_append`, `zmm_cc_finish`, `zmm_cc_parse` | entries of concurrent builders do not mix; what is parsed is what was appended |
| Process execution (`sys.c`) | a pipe, a child, a result; a thread-local verbose flag | `zmm_sys_exec` and its variants | the result is that of the program; its output is complete; the child is reaped |
| Argument vectors (`args.c`) | a character buffer and an array of pointers into it | `zmm_argvb_*` | argument i is the i-th one appended |
| Printing (`print.c`) | a flush buffer per call, a line buffer per thread, a lock | `zmm_printf`, `zmm_lprintf`, `zmm_lemit` | nothing lost at buffer boundaries; messages of threads do not mix |
| Dependency parser (`dep.c`) | a token buffer and three flags | `zmm_dep_parse` | returns the prerequisites the compiler wrote |
| Paths (`path.c`), files (`fs.c`) | none; the file system | extension, stem, join, find, copy, delete | agree with their comments; report what failed |
| Templates (`templates/*/build.c`) | the objects, dependency files and executables on the disk; the arguments of one run | `main`, `build`, `clean`, `mangle_cli_args` | no edit of a source or header is missed, whatever was built, cleaned or killed before; 0 only when everything is built |
| CLI (`cli/main.c`) | `.zmm`, the script's sources and executable | `main` | never runs an executable older than its sources |
| CPU (`cpu.c`), clock, vectors, strings | none of interest | | |

How they interact: a script calls the graph functions, then `zmm_bg_prepare`,
then `zmm_bg_exec`. Prepare and exec share the nodes' counters and flags:
prepare writes them, the workers consume them. The main thread and the workers
share the ring (under its lock), the atomic counters, `has_error` (atomic) and
`remaining_dirty` (under `done_lock`). Workers call back into the script (the
builders), which use `sys.c`, `args.c`, `print.c` and `cc.c`, hence these run
concurrently. From one build to the next only the files on the disk survive. A
template closes a second loop: the compiler writes into dependency files which
headers it has read, and the next run of the script makes its graph from them.

What is hard: the main thread seeds the ring *while* the workers run; two
counters, one of them plain and unsigned, must come out even; two condition
variables; a failure that must stop everything without losing anybody; a
judgement about files made from timestamps alone, after crashes, failures and
edits, and a graph that rests on what earlier compilations left behind. The hazards are listed, each at its line, in `PROJECT.json`.

## 2. Modules

In the order of reading:

| module | models | role |
|---|---|---|
| `TaskQueue` | the ring and its functions | state and one operator per function; no `Next` of its own |
| `FifoQueue` | | what the queue promises |
| `QueueClient` | the calling pattern of the queue: a main thread that pushes and shuts down, workers that pop, push and exit | specification; implements `FifoQueue` |
| `BuildPlan` | the interface between prepare and exec | the prepared graph and its counters, as operators |
| `BuildExec` | `zmm_bg_exec` and `worker_fn` | the core: extends `TaskQueue` and `BuildPlan` |
| `BuildOrder` | | what a parallel build promises; `BuildExec` implements it |
| `BuildExecInv` | | the inductive invariant, in named parts |
| `TaskQueueProofs`, `QueueClientProofs` | | proofs about the ring, its wake-ups and its order |
| `BuildExecProofs` | | proofs about the executor: types; safety; its return, its wake-ups and the order it implements |
| `MCBuildExec` | | plans and symmetry for TLC |
| `BuildGraph` | the graph and the calls that build it | operators from graph to graph; no state |
| `BuildScript` | any calls in any order | specification over `BuildGraph` |
| `BuildPrepare` | `zmm_bg_prepare`, `plan_subgraph`, `eval_node_dirty` | operators, with reference definitions |
| `BuildPrepareProofs` | | proofs about the two searches and the counts, for any graph |
| `BuildSession` | prepare, exec, edits, kills, again and again | composes `BuildPrepare` and `BuildOrder` |
| `BuildSessionProofs` | | its proofs, for any scripts, disks and lengths |
| `MCBuildSession` | | graphs, disks and targets for TLC |
| `TemplateScript` | `templates/*/build.c`: the three templates | run again and again with other arguments, over edited sources; composes `BuildGraph` and `BuildPrepare` |
| `ScriptInv` | | its inductive invariant, in named parts |
| `ScriptProofs` | | proofs about scripts: `BuildScript`'s graphs, the templates' graphs, the templates' runs |
| `MCTemplateScript` | | what includes what, for TLC |
| `SysExec` | `sys.c`, the POSIX half | calls in several threads, their children, pipes and inherited descriptors |
| `SysExecWindows` | `sys.c`, the Windows half | extends `SysExec` with the steps that differ; one behaviour is of one platform |
| `SysExecProofs` | | proofs about both |
| `Printer` | `print.c`: the block writer, `zmm_printf`, `zmm_lprintf`, `zmm_lemit` | threads that print |
| `CompileCommands` | `cc.c`: the writer | builders that append, the script that finishes |
| `ArgvBuilder`, `MCArgvBuilder` | `args.c` | one vector; its two buffers may move |
| `MakePath` | `fs.c`: `zmm_fs_create_dir_path` | threads that make the same directories |
| `FileTree` | `fs.c`: deleting and copying | threads that delete in the same trees, or one that copies |
| `CliRebuild` | `cli/main.c`: `main`, `is_dirty` | the front end, a developer who edits, a compiler |
| `Services` | what `build/build.c` calls in a builder, and what starts it | composes the six above |
| `ServiceProofs` | | its proofs: an invariant for each service |
| `MCServices` | | `Services` and `TextOps`, with constants for TLC |
| `Paths` | `path.c` | operators on paths |
| `PrintDigits`, `PrintFormat` | `print.c`: the conversions, the format scanner, `zmm_snprintf` | operators on numbers and formats |
| `CommandLine` | `sys.c`: the `_flat` functions, `build_win32_cmdline` | operators on lists of arguments |
| `MangleArgs` | `templates/practical-*/build.c`: `mangle_cli_args` | operators on lists of arguments |
| `FindFiles` | `fs.c`: `zmm_fs_find` | operators on trees |
| `DepParse` | `dep.c` | a fold over the characters of a file |
| `CommandParser` | `cc.c`: the escapes, the parser | operators on the tokens of jsmn |
| `CliConfig` | `cli/main.c`: `parse_zmm_config` | operators on the tokens of jsmn; extends `CommandParser` |
| `TextOps` | | grows inputs for the nine above and states what should come out |

**TaskQueue.** Each function of the queue is one critical section of one mutex
and so one step. The condition variable is the set `sleepers`. A woken worker
leaves the set and evaluates the loop of `queue_pop` again, possibly after
somebody else took the task; spurious wake-ups are steps too. `queue_push` has
no test for a full ring in the code and none in the model.

**BuildExec.** One step is one access to shared state: a critical section, one
atomic operation, a builder called or returned. Program points of the main
thread (`mpc`) and of each worker (`wpc`) name the places between them. So the
seeding loop reads a node's counter in one step and pushes in another (565,
567); `fetch_sub` and the push that may follow are two steps (507, 509);
`has_error` is stored before `done_lock` is taken (492, 495). The main thread's
wait is three steps: the test with the lock held, the release of the lock, the
wake-up; a worker's steps under `done_lock` need the lock free. `pending` and
`remaining` wrap around at `WordMax` as unsigned integers do. The slots of a
fresh ring hold `NoNode`, what `malloc` left in them. A builder is called and
ends in success or failure, nondeterministically. Where no memory is left,
exec returns at once.

**BuildGraph, BuildScript.** A graph is a record of nodes and the map from
paths to ids. Sources and deps with an empty path are refused as in the code,
with the rest of the rule dropped. `BuildScript` calls the functions in any
order on any handles. `WellFormed` is what these calls make of a graph: one node
per path, both ends of an edge agree, a node waits for its sources and deps and
for nothing else, and what was never declared a target has no inputs.

**BuildPrepare.** `Visit` is one round of the stack search of `plan_subgraph`.
`EvalNode` is one call or return of the recursion of `eval_node_dirty`, whose
stack is written out: the calls to come, and below them each node whose inputs
are being evaluated; with its visited marks, including what it does on a cycle.
`Loop` repeats a round until it changes nothing. It is a recursive function, not
a recursive operator, so that it can be reasoned about. `Closure` and
`DirtyByReason` say, without the searches, what should come out.

**BuildSession.** The script prepares and executes; exec is `BuildOrder` with
files added: a builder that succeeds writes its output. `good` is history: the
nodes whose file is what a build from the present sources would make. The
developer edits and removes files at any moment, also while builders read them;
the script may die at any moment, and its builders with it; a builder that fails
or dies leaves its output alone, removes it, or leaves half of it. `torn` is the
history of files written by such builders, or by builders whose inputs changed
under them (`touched`): these may be newer than inputs they were not made from.

**TemplateScript.** A run of a script is a few steps: `Scan` finds the sources
and reads their dependency files, `Plan` makes the graph, with the calls of the
template in their order, and prepares it; then one step per compilation and per
link, `Return`, and `clean` one step per tree. The graph is not a constant: it
follows from the dependency files, and these from what compilers read. An
edit gives a file other includes; a compilation fails, or is killed, after or
before the dependency file was written. The history says which objects a
compiler would write the same again (`fresh`), which outputs hold the present
objects (`whole`) and of which arguments (`of`), and which objects have lost
their dependency file to a compilation with other arguments (`blind`).
`kind` selects the template; what differs is the graph, the directory of the
objects and the targets asked for. `practical-lib` counts the end of its list of
libraries as one more (`InitLibs`, 329), so that every object is also a source of
a library with the empty path. Its builder takes that one for an object
(`BuildUnnamed`), and refuses it when it has other than one source (172).

**SysExec.** One step is one system call or one access of the reading loop. The
operating system is part of the model: a pipe of bounded size with its two
ends, `fork` copying every end the script has open at that moment, `execvp`
dropping the ones marked close-on-exec, the end of file that comes only when
nobody holds the write end, the broken pipe, the zombie. `pipe` and the two
`fcntl` are three steps, so another thread's `fork` falls between them. Output
is counted in units, and `cap` and `len` are the code's. The calls that fail
(`pipe`, `fork`, `malloc`, `realloc`, `execvp`) fail at any time. On Windows
(`SysExecWindows`) the ends of a pipe are inherited unless marked, only the read
end is marked, starting a program is one step that may fail, and a write that
nobody can read fails instead of killing; the reading loop is the same.

**Printer, CompileCommands, ArgvBuilder, MakePath, FileTree, CliRebuild.** Each
is a machine of its own whose steps are calls of stdio, critical sections,
reallocations, `mkdir`s, entries of a directory, phases of `main`. What is written
is abstract: bytes are numbered, entries are pieces, texts are short. `Services` puts them side by side. They share no variable, so
steps of different services commute and change nothing another can see: it is
enough to let each behaviour use one of them, which is what the variable
`service` says. What is true of stdout (`NothingLost`) and of the finished array
of commands (`Rendered`) is said position by position and not with a recursion
over sequences, so that it can be reasoned about.

`FileTree` has the file system as a function from paths to what is there, with
symbolic links, which `opendir` and `fopen` follow and `remove` and `rmdir` do
not, paths where nothing can be changed, and paths that lead through a file
(`Blocked`: ENOTDIR, which the code does not take for a path that is gone). A
copy can lose what a read, an `fwrite` or `fclose` should have moved; only the
second is noticed. The recursion of the code is a stack
of open directories, and every entry is a step, so that the recursions of two
threads interleave. `CliRebuild` knows a file's content by the time of its last
change, and of an executable from which changes it was compiled.

**Text.** The other operations are functions from text to text. They are
operators, each following the loop of its function (a fold where the code
carries state from character to character, as across the chunks of a dependency
file). `CommandParser` walks tokens by index as the code does; the tokens are
laid out as jsmn does it, with the spans that `skip_token` compares; `CliConfig`
does the same for `.zmm`, whose parser walks to the end of the tokens instead of
counting. `CommandLine` has the rules by which a Windows program takes its
command line apart (the documented ones, external) next to the code that puts it
together. `FindFiles` is the recursion of `zmm_fs_find` over a tree with
directories that do not open and links that do not lead anywhere. `MangleArgs`
sorts, replaces, joins and cuts as the template does.

Some definitions are preceded by a *faulty variant*: the definition with a
plausible mistake in it, used to see that a property notices the mistake
(`mutants` in `PROJECT.json`). No specification uses them.

## 3. Runs

| run | instance | distinct states | shows |
|---|---|---|---|
| `queue_client` | 3 workers, ring of 2, pushes up to the bound of the cfg | 21 thousand | FIFO across wrap-around and shutdown; no lost wake-up; every task taken, also after the shutdown; every worker leaves |
| `exec_safety` | 4 nodes, 3 workers, every graph with edges from greater to smaller ids, and four chosen ones with clean nodes and repeated entries | 301 thousand | `AtMostOnce`, `DepsFirst`, `NeverOverflows`, `CountersExact`, `RemainingExact`, `ReturnIsHonest` |
| `exec_live` | 3 nodes, 2 workers, every such graph with up to two entries per edge | 30 thousand | `Termination`; `BuildOrder` is implemented |
| `exec_hang` | a chain of three declared from the source up, 2 workers | | finding 1 of section 6 |
| `script` | 3 paths, 5 calls | 266 thousand | `GraphExact`: one node per path and mirrored edges; `WaitsForInputs` |
| `session` | sessions over 4 graphs of 4 nodes, in one of which a phony target has the name of a file, clock up to 5, and every prepare over 288 graphs of up to 4 nodes, cyclic ones too, on all disks of three times; lists of targets with an unknown one | 676 thousand | `NothingMissed`, `SecondBuildIsEmpty`, `SearchesExact`, `PreparedIsPlan`, `SomethingIsReady` |
| `templates` | the 3 templates, 2 sources, 2 headers, 2 lists of arguments, 4 edits or builds, the last one a build, 2 failures or kills | 1.3 million | `NoEditMissed`, `SuccessIsComplete`, `PlansAreTopDown` |
| `template_flags` | the same without faults and removals, 3 edits or builds | | finding 4 |
| `sys_exec` | either platform, 2 calls, pipe of 2, reads of 2, up to 3 units of output | 438 thousand | `ResultHonest`, `OutputComplete`, `HoldsOneWay`, `EveryCallReturns` |
| `sys_not_started` | 2 calls | | finding 2 |
| `services` | 2 threads; 2 printing calls each of 3 kinds of messages; 2 appends each; 6 calls on a vector; paths of 2 names, every disk, at most one refused directory; trees of 2 levels, the second of files but for one name, and a file on the third; 2 sources, 2 executables, 2 commands, 3 changes or compilations; as texts: paths of 6 characters, joins of 3 parts of 3, every 13-bit number, formats of 3 pieces, 3 prerequisites in 20 layouts, strings of 4 characters, objects and configs of 2 fields next to foreign values, 2 arguments of 3 characters, trees of 3 entries | 482 thousand | `OutputWhole`, `EntriesWhole`, `TextsKept`, `SafeWithinCapacity`, `StatusHonest`, `TreesHonest`, `RunsCurrent`; and each text operation against what its input stands for: `PathsAsWritten`, `PrintedAsAsked`, `DepsReadBack`, `JsonReadBack`, `ArgumentsReachProgram`, `DirectoryTellsArgs`, `FindsEachOnce` |
| `argv_moved` | a vector that outgrows its buffer | | finding 3 |

Why the bounds are enough. Two workers race for one counter or one task, a
third sleeps or fails meanwhile: three workers show every pairwise race with a
bystander. Four nodes give every shape of a graph in which a node waits for
several others and releases several others. A ring of two wraps around with few
pushes. Two entries for one edge are what a path named as source and dep makes.
`WordMax` 6 is more than any count of the instances, so that a counter reaches
it only by wrapping below zero. In a session, four ticks allow a build, an edit
under a running builder, and another build whose builders write later than it
began. Three times (missing, which a removal makes, old and new) are all a disk
can tell apart between two files, and equal times occur.

For the templates, two sources give a header that both include and one that
only one of them does; the first header may include the second, so that what a
source reads depends on the edit of another file. Four ticks are enough to build
with one list of arguments, edit, build with another (and fail), and return to
the first, which is what finding 4 and the `blind` objects need. Two faults let
one recovery be interrupted by another fault. The last tick is left for a build
(`EditTick`): nothing looks at an edit after it. In that last build TLC goes on
only from states in which nothing was edited, failed or killed since the plan
(the constraint `MayMatter`); the properties are evaluated in all the states it
reaches. They speak of a plan and of the success of a run, and a run that went
wrong at the last tick is followed by no other; the same failures at earlier ticks
are followed by every recovery the bounds allow.

Two calls of `SysExec` are enough for the leak it is about, which is a relation
between two; a pipe and a read of 2 with 3 units of output give a full pipe, a
read that fills the buffer exactly, one that outgrows it, and a rest. Messages
have blocks below and above both buffers, and one that just fills one of them.
Two builders in `cc.c` meet at one lock. Two levels and a link below the first are what a recursion can go wrong
on: a directory inside another, a link to a directory that has entries. Three
changes let the config or a source change before and after a compilation.
Six characters hold a directory, a name and two dots; 13 bits hold four
decimal digits and a sign, so both lengths of the last pair of digits. Three
characters hold a backslash, a quote and something between; three entries a
directory in a directory with a file in it.

Symmetry: the workers in the safety runs and the threads in `services` are
interchangeable; liveness is checked without symmetry. `CHECK_DEADLOCK FALSE` stands where a bound ends the
behaviours (`script`) or a clock does (`session`, `templates`,
`template_flags`), and in `argv_moved`. The executor's runs check for deadlock:
only the returned call may stutter (`Returned`); those of `SysExec` and
`MCServices` do too, where it shows that no thread stays at a lock: the behaviours
of `MCServices` are finite but for the stutter at their end, for inputs
(`Kept`) and vectors (`Done`) left as they are, and for calls of the front end
that change nothing.

## 4. Fairness and other assumptions

*Executor.* Threads are scheduled: weak fairness for the main thread and for
every worker. It includes that a builder returns; a build whose compiler hangs
hangs. The steps of a worker that need `done_lock` are strongly fair: the main
thread holds the lock only between its test and `pthread_cond_wait`, and a
mutex serves a thread that keeps asking. Nothing is assumed of spurious
wake-ups: they may never come, or keep coming.

*SysExec.* The same: threads are scheduled, and a program that can go on goes on
and ends. Nothing is assumed of kills and of failing calls. No signal interrupts
a `read`, which the loop would take for the end, and on Windows no program
writes zero bytes, which it would take for the end too.

*Sequential consistency.* The counters are `_Atomic` with the default order,
`has_error` is read and written with acquire and release or stronger, the rest
is under locks. The flags of the nodes are written before the threads exist.

*Session.* Edits and calls of exec are told apart by the clock of the file
system; what is written within one exec may have equal times.

*Templates.* The same of the clock. A compiler, which is external, reads its
files and writes its object and dependency file in one step; the dependency
file names exactly what was read and is written before the object, so that a
kill may leave the first without the second. A compilation that fails removes
the object, and leaves the dependency file as it was or removes it. A link that
fails leaves the old output or none.

*Front end.* Edits and compilations have times of their own; nothing is edited
while the compiler runs, nor `.zmm` since `main` read it; a compilation that
fails or is interrupted leaves the executable alone or removes it, and one that
succeeds writes the executable the config names. As in a session, times alone
could not tell otherwise.

*Trees.* While trees are deleted nobody makes anything in them; one thread
copies, over trees without links, and source and destination are apart. A read
that fails ends the copy of that file, as the code has it.

*Allocation* in the graph and in `prepare` succeeds (`vecpush` does not check).

## 5. Proofs

`BuildExecProofs!TypeCorrect` is `Spec => []TypeOK`, for every number of nodes
and workers, every plan and every word width, with no assumption on the plan.
Its invariant `TypeInv` has to say more than types: the ring's indices stay in
the ring and what a worker pops is a node, not an unwritten slot. That is easy
as long as the ring has not overflowed (`RingIntact`), and once it has, every
slot was written (`RingWritten`); since nodes can be executed twice on some
graphs, the second case is needed.

Under the assumption `\A p \in Plans : TopDown(p)` the module proves
`ExecutesAtMostOnce`, `ExecutesInOrder`, `RingNeverOverflows`, `PendingCountsExactly` and
`RemainingCountsExactly`, all from one inductive invariant `IInv`.

The argument. A node comes into circulation once, as a *token*: the seeding
loop makes the tokens of the leaves, the worker that takes a counter from 1 to 0
makes that of any other node. A token is in exactly one place: in the hand of
the main thread, in the hand of a worker about to push it or about to start it,
or in one slot of the ring (`Tokens`). Executing the node uses it up
(`Executions`, `UsedUp`). No two places hold the same token, so no node is
executed twice, no more tokens exist than dirty nodes, and the ring is as large
as that (`Sized`). `CountersExact` ties each counter to the set of entries not
yet notified: a counter that is 0 means that everything waited for was built.
`RemainingExact` ties `remaining_dirty` to the nodes not built and the workers
that have not yet reported.

Why `TopDown`. The seeding loop pushes whatever has the counter 0 when it
passes. The invariant says that a node that is released lies behind the loop
(`n < scan`), so the loop does not meet it again. This needs that no node is
released before the loop has passed it: every node that waits for others waits
for one with a greater id. `TopDown` says so; it holds when the graph was
declared from the final targets down. Without it the theorems are false
(section 6).

Lemmas about the ring (`TaskQueueProofs`: the successor stays in the ring, what
push and pop do to the occupied slots) are stated for the operators of
`TaskQueue` and cited from the others.

*The executor's end.* A second part adds to `IInv` what the program
points say of the end (`EndInv`): who has set `has_error`, that the ring is shut
down only after the main thread has seen an end, that it joins the workers one
by one. From it follow `ReturnsHonestly` and, step by step, `ExecBuildsInOrder`:
every step of the executor maps to a start, an end or the return of `BuildOrder`,
or to nothing. Both assume `TopDown`, as the abstract build starts a node once.
`WorkersWokenForTasks` does without it: `WakeInv` says that while a worker
sleeps every task in the ring has an awake worker of its own, which holds
because `queue_push` wakes one for each task and nobody falls asleep over one.

*The queue by itself.* `QueueClientProofs` proves the same of any callers of the
queue (`WakeupsSuffice`), and that the ring is a FIFO queue (`RingIsFifo`) for
every capacity and any number of threads. The abstract queue is what the ring
holds from `head` on, around its end. The invariant `QInv` has the indices in
the ring, `tail` `count` places behind `head`, and the wake-ups.
`WorkerAssumption` (the workers are finitely many) is there for counting them.

*The graph.* `ScriptProofs` proves that whatever a script calls, with any
paths and handles and any number of calls, its graph is `WellFormed`
(`GraphInvariant`), from which `GraphsAreExact` and `InputsAreWaitedFor` follow.
How often an id is in a list is counted by `Times`, and the lemmas about `Append`
say that both ends of an edge grow by the same.

*Prepare.* `BuildPrepareProofs` is about operators, on any graph whose ids are
those of its nodes (`GraphClosed`) and any disk. That a loop ends is shown by
exhibiting where: `LoopEnds` has a measure that comes down in a well-founded
order, and for both searches it is the same one (`SearchOrder`): first the nodes
not seen yet, then the length of the stack.

- `SubgraphIsClosure`: on any graph, cyclic or not, the searches of
  `plan_subgraph` mark the targets and all they wait for. `Closure` is the
  least set that has the targets and is closed under inputs (`ClosureLeast`),
  and a marked node whose inputs are not marked has them on the stack.
- `DirtyExact`: on a graph without cycles the flags of `eval_node_dirty` are
  exact. The invariant of the recursion (`EvalInv`): each node is open once, a
  node's input that is not settled lies above it on the stack, what lies above a
  node is below it in the graph (on a cycle this fails, and the verdict is
  wrong), and a settled node is dirty just when it has a reason or a dirty input.
- `CountsMirror`: what prepare counts over `waits_on` is as much as the dirty
  nodes' `dependents` entries that name the node, by a bijection between the
  two put together from those for each pair of nodes.

*Sessions.* `BuildSessionProofs` proves all five properties of `BuildSession`,
for any graphs, disks, lists of targets and lengths of a session
(`SearchesFindAll`, `PrepareMakesPlans`, `BuildsCanBegin`, `NoEditIsMissed`,
`BuildsSettle`), and `PreparedIsWellFormed`, that what prepare leaves is a plan
in the sense `BuildExec` assumes. The inductive invariant `SInv` has six parts,
each of which TLC checked on the run `session` before it was proved:

- `TypeInv`: the graph is well formed and no file is from the future;
- `PrepInv`: the subgraph and the counts stay what prepare has found, and so do
  the flags while nothing was touched;
- `OrderInv`: a node that was started is one to be built, and what it waits for
  is built;
- `TimeInv`: what a build has not written yet is older than the build, hence
  than anything the build writes. This is what the tick of the clock at `Exec`
  is for;
- `GoodInv`, from which `NothingMissed` follows by taking a lowest node that is
  neither good nor found: a file that is neither good nor torn shows it in its
  times, or has an input that is not good. An edit keeps it because the edited
  file is the newest; a builder keeps it because what it writes is good unless
  an input is not, or was edited meanwhile, and then it is torn;
- `CleanInv`, from which `SecondBuildIsEmpty` follows: while nobody touches a
  file, a node that prepare has passed over stays without a reason, and one that
  was written is not older than its inputs, since these were built before it
  (`OrderInv`).

Two of the properties were too strong and the attempt to prove them showed it;
each counterexample was confirmed by TLC and the first is now a start of the run.
`NothingMissed` did not have `FileOfPhony`: when a phony target bears the name of
a file, whoever waits for it is compared with that file, and what is edited
below it goes unnoticed. `SecondBuildIsEmpty` was stated of cyclic graphs too:
there a node is taken for clean while the search is still inside one of its
inputs, that input is built, and the node is older than it when exec returns.

*The templates.* The second half of `ScriptProofs` proves the three properties of
`TemplateScript`, for any sources, headers, includes, lists of arguments and
tests, and any sequence of runs, edits, failures and kills. Of the order in which
a directory names its files (`SetToSeq`) the proof uses nothing. It goes in three
steps.

- *What is declared.* The graph is made by one call after another, for sources in
  an order that is not known. `Shape` says of a graph, in sets, which outputs it
  has declared, with which sources and which deps; each call adds to the sets
  (`ShapeRule`, `ShapeObject`, `ShapeTest`), and an induction on how many of the
  sources have had their turn gives the sets of the whole graph (`ShapeGraph`).
  The order is gone then. From the edges follow `GraphAcyclic`, with a rank for
  each kind of path, and, for the templates of programs, `ProgramIsTopDown`: the
  program is node 0, an object comes before its source and its headers, and what
  could break the order, a header that is dirty and waited for twice, is what
  `PlansAreTopDown` leaves out.
- *What a plan finds.* With the theorems about prepare (`SubgraphIsClosure`,
  `DirtyExact`) `DirtyIsTodo` gives the set of dirty outputs by the times of
  files, without graph or search.
- *The runs.* `RunInv` (module `ScriptInv`) is the inductive invariant. The three
  properties speak of moments, the plan and the return; the invariant has to say
  what keeps them true in between: that the times tell the truth. An object that
  is not `fresh` is older than something the compiler would read (`StaleSeen`)
  and, unless it is `blind`, older than something its dependency file names
  (`StaleListed`); a fresh one has the dependency file of what would be read now
  (`DepsKnown`). An output that is not `whole` shows it in its times or in those
  of its objects (`LinksAccounted`, `Reason`). What is to be built is closed
  upwards (`TodoUp`), nothing above it was linked in this run (`LinksOlder`), and
  while nothing was edited and nothing failed, what is not to be built is as it
  should be and not dirty (`RunSettled`), until and after the return (`Done`).
  `NoObjects` is what the order of the trees in `clean` is for.

TLC checked `RunInv` on the instance of the run `templates` before it was proved,
without the constraint (3.9 million states); to repeat it, name it as an invariant
in `TemplateScript.cfg` and take the constraint out. `StaleSeen`
stands next to `StaleListed` because a compilation with other arguments replaces
the dependency file that told of a stale object.

*Processes.* `SysExecProofs` proves, for any number of concurrent calls and all
sizes of pipe, buffer and output, first for POSIX alone (`Spec`) and then for
either platform (`EitherSpec`), that a call returns how its own child ended
(`ReturnsFate`, `ReturnsFateOnEither`), with all its output unless memory ran
out (`ReturnsAllOutput...`), never writes outside `out_buf` (`BufferSafe...`),
leaves no descriptor open (`NothingLeftOpen...`), and that no two calls wait for
each other through inherited ends (`WaitsOneWay`, `HoldsOneWayOnEither`). The
invariant has the ends and the child at each point of a call (`EndsByPoint`,
`ChildByPoint`), what a child holds (`HeldByChild`), where each unit is
(`Accounted`), and the heart of it, `KeptOneWay`: a program keeps another call's
end only if that end was not marked when the program's process was made, and its
own end had been marked by then. So of two calls only the one that started first
can hold an end of the other, and waiting goes one way. On Windows the write end
is never marked; `HoldsOneWay` has what is true there, of the read ends.

*The services.* `ServiceProofs` proves the properties of all six
services, as theorems of `Services`. Each has an invariant of its own, and
`StepsApart` says that a step of one is none of the others, so that
`ServicesInv` is their conjunction.

- `PrintInv` (`OutputStaysWhole`): the bytes of one thread and one way are
  numbered, the last of them wait in a buffer and all before have arrived
  (`Fits`); and a running `zmm_printf` that has sent a part already prints, with
  the block it is about to write, a whole buffer or more (`SentOnlyWhenFull`),
  which is why a shorter one comes out in one piece.
- `ArgvInv` (`TextsAreKept`, `SafeUpToCapacity`): each entry points to where its
  text and the NUL behind it stand; the text of a part that is not finished
  stands at the end.
- `EntriesInv` (`EntriesStayWhole`): one builder at most is in the lock, and the
  file and the buffer are the entries logged and as much of the next as that
  builder has written.
- `PathsInv` (`DirectoriesHonest`): the disk is a tree, and whoever has tried to
  make the directories above its own finds them there, or there is something
  that will always be in the way. For the last name a file counts as made.
- `TreesInv` (`TreesAreHonest`): threads delete (`DeletingInv`) or one copies
  (`CopyingInv`). Of a deletion: the tree is sound (`Sound`: what is there is in
  a directory, Target has no link below it, so that a path has one link at most)
  and less than at first; and of each open directory that can still be reached,
  whatever is in it is yet to be looked at, or is the directory open inside of
  it, or there is a reason that lasts (`Covered`), such as a file that the
  path deleted would lead through (`BlockedAtFirst`). What other threads remove only
  helps. Since removing may take a link away, it must be shown that a path names
  what it named before or something that is gone (`NamedStays`, `LeadsStays`). Of
  a copy: everything it was meant to write is in place, or below an entry of an
  open directory that is yet to be looked at, or one of the open directories
  has failed, and will pass that on (`CopyOK`).
- `MainInv` (`MainRunsCurrent`): no time lies in the future, and an executable
  not older than `.zmm` and the sources was compiled by that command and from
  these sources.

The attempt to prove `TreesHonest` found an error in the model: what a directory
has in it (`Entries`) left out links that lead nowhere, which `readdir` returns
as any others, and `StaysForAReason` took any link for a reason. Both are as in
the code now: such a link is removed like a file, and one that stays led to a
directory. The trees of the model have bounded depth (see section 3); that a
path has three names at most is part of the theorem's statement, as is that
links lead to one directory.

*What is assumed of the constants*, and why the code justifies it:

| assumption | why |
|---|---|
| `NodeAssumption`, `NoNodeAssumption`, `CapacityAssumption`, `WorkerAssumption`, `WordMaxAssumption`, `SizesAssumption` | ids count from 0 and what `malloc` leaves is none of them; sizes are unsigned, and no ring is made for 0 nodes (the code returns before); threads are finitely many, and exec starts at least one |
| `PlansAssumption` | a plan is what `zmm_bg_prepare` leaves (proved: `PreparedIsWellFormed`, `PrepareMakesPlans`), and its counts fit their words |
| `StartsAssumption` | the graph is one a script's calls can make (proved of them: `GraphInvariant`); times are numbers, and every path has one or 0 |
| `BoundsAssumption`, `TargetsAssumption` | the number of nodes is bounded by some number; targets are passed as an array of paths |
| `TopDown` of all plans, as a hypothesis of the theorems that need it | the graph was declared from the final targets down (proved of the templates for programs: `ProgramsAreTopDown`) |
| `TemplateAssumption` | sources and headers are finitely many different files, a file includes only headers, and the script is started with some list of arguments |
| `PathAssumption` | paths are not empty; the directory of a list of arguments is inside `build/.obj`, none of `src`, `include`, `build` and `test` |
| `PrinterAssumption` | a buffer's size is a `size_t`; a message is a sequence of blocks, and these have lengths |
| `ArgvAssumption` | capacities are unsigned; an argument is a C string, so that NUL is none of its characters |
| `DepthAssumption` | a path has finitely many names |
| `TargetAssumption` | the directory that links lead to is at the top, and there is another name for what is copied or deleted |
| `ExeAssumption` | a config that named a source or `.zmm` as the executable would have the compiler overwrite it |

`TypeOK` of `BuildExec` and of `SysExec`, `NoOverrun`, `NoMutualHold`,
`DescriptorsClosed` and the executor's own `NoTaskOversleeps` are stated by the
theorems alone; the other statements are also properties of runs. Every
inductive invariant was an invariant of a TLC run before it was proved.

*Only model-checked*, and why:

- liveness (`Termination`, `WorkersLeave`, `TasksAreTaken`,
  `EveryCallReturns`): beyond this prover, as is `ENABLED`;
- the properties of `TextOps`: what a loop over a text computes, by recursion or
  by a fold, for every text.

## 6. What the checks found

1. *A node can be seeded and released, and then exec can hang* (`exec_hang`). On
   a graph declared from the sources up (as `test/main.c` 100-109 does) a worker
   can finish a source while the loop is on its way to the object file: the
   worker pushes the object file, and the loop, finding the counter at 0, pushes
   it again, although the comment over it (562) speaks of leaf nodes. The node
   is executed twice, `remaining_dirty` is decremented once too often, wraps
   around, and the main thread waits for a zero that has passed.
2. *A program that never started is reported as one that failed*
   (`sys_not_started`): the child of a failing `execvp` exits with 1 (`sys.c`
   81), while `sys.h` 27 has `TERM_ERROR` for it.
3. *Arguments point into the buffer that was* (`argv_moved`): `ensure_buf`
   (`args.c` 46) moves the text and leaves the pointers of `argv` as they are.
   `SafeWithinCapacity` says until when that does not matter.
4. *What is linked does not follow the flags* (`template_flags`). The README of
   the sources (283) says that a practical template "handles flag changes
   perfectly". Only the objects have a directory for each list of arguments, the
   executable is one file (`practical-exe/build.c` 62). Built with one list, with
   another, and with the first again: the objects of the first are older than
   the executable, nothing is dirty, and the script returns 0 with the
   executable of the second. TLC shows it of `practical-exe`, the only one of
   the templates where the property says something; the libraries and tests of
   `practical-lib` are one file each for all arguments in the same way.

Differences between words and code met on the way, which no run shows; the
models have what the code does.

- `builder.h` 34, "holds the number of targets which are dirty": after a prepare
  that returns -1 (422) `remaining_dirty` is that of the call before, and no
  node is dirty.
- `sys.h` 27: `TERM_ERROR` is also returned when the program did start and the
  memory for its output ran out (`sys.c` 92-95); it is not waited for.
- `args.c` 59: `argv` is reallocated to as many bytes as it should have
  pointers. The model has it as `argvRoom`; `undefined` says when it was
  overrun.
- `print.h` 33, "Rounded floats": a fraction that rounds up to one whole loses
  its carry (`print.c` 196), 1.999 with `%.2f` gives 1.00.
  `PrintedAsAsked` leaves that case out.
- `print.h` 31 and 34 list `%d` as i64 and `%x` as u64; the code takes an `int`
  and an `unsigned int` (`print.c` 311, 315). `PrintedAsAsked` is about values
  that an int can hold.
- `path.c` 90 and 98 look for a dot behind the last separator only,
  `zmm_p_ext` (26) over separators: `lib.d/main` has an extension that cannot be
  stripped.
  `PathsAsWritten` has the extension, what is stripped and the stem agree but
  for these names (`CutsAgree`, with what comes out for them too).
- `path.c` 126, on hidden names: the walk stops at the last dot (138), so that
  `.a.c` is not hidden (`PathsAsWritten` says which names are).
- `path.c` 157, "Double slashes never appear": `a/` and `/b` give `a//b` (178).
- `fs.c` 274, "Now that the directory is empty": it may not be, the results of
  the entries are ignored (269). What `delete_tree` returns is true all the same
  (`TreesHonest`). A link to a directory is followed: the directory it leads to
  is emptied, the link stays.
- `fs.c` 310: a read error ends a copy like the end of the file, and 318: what
  `fclose` fails to write is not noticed. The call returns 0 with an incomplete
  copy (`TreesHonest` allows for both, and for nothing else); a directory copied with
  `zmm_fs_copy_file` becomes an empty file.
- `sys.h` 26, `TERM_SIGNALED`: on Windows a program that is terminated is
  `TERM_EXITED` with the code of whoever terminated it (`sys.c` 289), and output
  that a failing `realloc` cut short is returned as if it were all (276), as it
  is on POSIX (105). `OutputComplete` leaves the second out (`starved`).
- `sys.c` 193, `build_win32_cmdline`: neither quotes nor backslashes before the
  closing quote are escaped; `ArgumentsReachProgram` leaves such arguments out.
- `mangle_cli_args` cuts the name at the end of its buffer, so that long lists
  can share a directory, and no arguments and the one argument `default` do.
- The templates include and call what the library no longer has
  (`zmm_bg_build`, `SliceCU8`, `zmm_tg_init_out`, `zmm_tg_add_src_nc`); they are
  modelled with the present functions that do the same.
- Each run of a template calls `zmm_cc_init`, which empties
  `compile_commands.json` (`cc.c`): after an incremental build the file lists
  only what was compiled again.
- A dependency file is shared by all lists of arguments. When a compilation with
  one of them removes it, the objects of the others are judged by their source
  alone: a header edited then is missed. `NoEditMissed` leaves these `blind`
  objects out.
- A source that is removed from `src/` leaves the program as it was linked, with
  the source in it, until something else makes it dirty.
- `practical-lib` declares its libraries first but each test behind its object
  (and adds that object twice), so that its graph is not `TopDown` and finding 1
  applies to it; so it does to the other templates while a header is missing that two
  dependency files name. `PlansAreTopDown` says that otherwise they are safe.
- `practical-lib` counts the end of its list of libraries with them (330), and
  asks for a library without a name. Its builder takes an output without one of
  the known extensions for an object and returns 1 unless it has one source (172):
  with any other number of sources in `src/` the script prints that it aborts and
  returns a failure, whether or not what was asked for was built; and that library
  is dirty in every run.
  `SuccessIsComplete` leaves it out.
- `main.c` 196 and 204: behind `build-script-exe` and `build-script-compile-cmd`
  one token is passed, so that the inside of an object or array there would be
  read as fields.
- `fs.c` 143, "Equivalent to `mkdir -p`": a file in the place of the directory
  counts as success (170), where `mkdir -p` fails. `ZeroMeansThere` allows for
  that file (`FileInPlace`) and only for it: the directories above are there.

## 7. Plan

Done: the queue, the executor, the graph, prepare and sessions, the templates,
process execution, the services of builders, the front end and the text
operations are modelled. Every safety property and every refinement of the
queue, the executor, the graph, prepare, the sessions, the templates, process
execution and the six services is proved. What is left, in this order:

1. The text operations that are folds (`DepParse`, `MangleArgs`), with an
   invariant of the scanner between characters in place of the fold's induction.
2. Deeper trees in `FileTree`: `Path` bounds the depth, and the proof uses the
   bound only for the paths' lengths.
3. `build/build.c` as a fourth template, with its two programs behind the library.

## 8. Not modelled

- Visualization (`zmm_bg_visualize`): writes the graph as text, changes nothing.
- CPU and clock queries: no state. Vectors and strings: containers, represented
  by sequences. The vendored `jsmn` and `khash`.
- `pthread_create` failing inside `zmm_bg_exec`: the code does not look, and what
  a join of an uninitialized handle does is undefined.
- `zmm_bg_exec` without a prepare that succeeded before it: nothing says what it
  should do.
- `build/build.c`, the script that builds the library, as a program of its own:
  it does what `practical-lib` does with other paths. Its graph is not `TopDown`
  either: the front end and the test are declared behind the library.
