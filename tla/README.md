# RayTask: TLA+ verification project

RayTask is a programming language with a bytecode VM (`src/vm.rs` and its helpers), an
optimizing compiler, native and C back ends, a built-in linker, a package manager and a
debug adapter. This directory holds TLA+ specifications of its core, configurations that
model-check them with TLC, and proofs checked by TLAPS. Paths below are those of the
repository.

## 1. Inventory

### Components with behaviour of their own

| Component (source) | State | Operations | Hard behaviour | What makes it correct |
|---|---|---|---|---|
| Event loop and tasks (`vm.rs`, `async_rt.rs`) | tasks with waiters, ready queue, parked coroutines, timers, joins, token and group scopes | spawn, await, delay, WhenAll / WhenAny, Cancel, return, throw | timer, return, error, join and cancellation race for the same task; joins of joins; failure at an await | no lost or spurious wakeup, a task settles once, joins report their members, Cancel reaches everything started in its scope, the owner of an ended coroutine is settled |
| Garbage-collected heap (`gc.rs`, `vm.rs`) | tracked objects, mark bits, pending finalizers; the VM's roots | allocate, collect, run destructors | collections nested in destructors and in callbacks of native functions; values that only a join, an await or a native function keeps | nothing in use is swept, each destructor runs exactly once |
| Frames and exceptions (`vm.rs`, `compiler.rs`) | frame stack, try stack, running native callbacks | call, callback, return, try, throw | handlers whose frame is gone, exceptions across native functions and destructors | the innermost enclosing catch takes the exception, a frame runs its own code |
| Threads and channels (`stdlib/threads.rs`) | channel queue with its closed flag, mutex value | Send, Recv, TryRecv, Close, Lock, Unlock, Thread.Run | a blocking receive on the VM's only thread, Lock that releases at once | FIFO, nothing lost, no message after the end |
| Lexer and parser (`lexer.rs`, `parser.rs`) | the tokens and the current one | tokenize, parse an expression, a statement, a declaration | telling types, casts, lambdas, patterns and ternaries from expressions by looking ahead | a text is read as what it was written for |
| Imports (`resolve.rs`) | set of loaded paths, merged items | depth-first load | cycles, diamonds, one file under two names | every file once, dependencies first |
| Type checker (`sema.rs`, `types.rs`) | tables of types and functions, scopes, errors | declare, check inheritance, check bodies | a chain of rules each of which is plausible; circular and generic bases | an accepted body keeps its types, an accepted class has what its bases promise |
| Monomorphisation (`mono.rs`) | queue of instances, templates, names | collect, specialize, rewrite | recursive generics, mangled names, kinds of places one of the walks forgets | closure under instantiation, no name twice |
| Bytecode compiler (`compiler.rs`) and interpreter (`vm.rs`) | chunks, scopes, open jumps; operand stack, frames, handlers | compile a function; execute an instruction | jumps out of nested loops, switches, tries and scopes; captures | compiled code does what the program means |
| SSA optimizer (`ssa/`) | control-flow graph, lattice values | lift, mem2reg, sccp, gvn, licm, inline and others, phi elimination, emit | parallel copies of phis, loads across stores, traps that move | an optimized program does what the program does |
| Built-in linker (`link/`) | merged sections, symbols, relocations, addresses | read, merge, resolve, lay out, relocate, emit | contributions of several objects to one section, weak and strong symbols, addends of two formats | contributions do not overlap, a reference reaches its definition |
| Packages and registry (`registry.rs`, `project.rs`) | install directory, lock files, local index | resolve, install, uninstall, fetch, update, publish | failures between remove, download and lock; two publishers | what a lock file or index says is so |
| Debug adapter (`dap.rs`, `vm.rs` debug_run) | session, breakpoints, pause flag, command queue | launch, continue, step, pause, restart, disconnect | a pause that arrives while the VM is about to run; callbacks that run within one instruction | every request is answered, a pause stops the program, no breakpoint is passed |
| Generators and streams (`stdlib/generator.rs`, `stdlib/streams.rs`) | cursor | Next, Reset, ToList | use after the end | not modelled, see section 8 |
| C task runtime (emitted by `codegen_c.rs`) | task pools | the same API as the event loop | pools that are used again while tasks are awaited | not modelled, see section 8 |

### Components without (data libraries, code generators, FFI, file and network wrappers,
command line)

They are functions from data to data, or calls into the operating system and other
libraries. `PROJECT.json` lists each with the reason it is left out.

### Interactions

- The event loop runs one coroutine at a time (`run_slice`). A coroutine that awaits is
  moved to `parked`; settling a task hands its waiters to the ready queue.
- Native functions (`List.Where` and others) call back into the interpreter
  (`invoke_function`), which steps the VM until the callback's frame is gone. Inside a
  callback no await may park.
- An array allocation may collect (`gc_maybe`); the collection asks the VM for its roots
  and then runs destructors through `invoke_function` on top of whatever was running.
- An instruction that fails unwinds to the last handler of `try_stack`, then fails the
  coroutine's task, then ends the run.
- The compiler emits the `TryBegin` / `TryEnd` pairs the VM relies on.
- The front end (imports, monomorphisation, optimizer) feeds either the VM or a back end,
  and the native back end feeds the linker. These are batch steps with no state between them.

## 2. Plan

The modules, in the order in which they were written; all of them exist.

1. `EventLoop` with the abstract `AsyncTasks`, the refinement `EventLoopRefines`, and the
   proofs `EventLoopProofs`.
2. `GcHeap` with `GcHeapProofs`.
3. `Unwind` with `UnwindProofs`.
4. `Dap` with `DapProofs`.
5. `Linker` with `LinkerProofs`, `Packages` with `PackagesProofs`, `Imports` with `ImportsProofs`, `Mono`,
   `Threads` with `ThreadsProofs`: state machines of the tool chain and the library.
6. `Machine`, `Compile`, `Ssa`, `SsaPasses`, `Lexer`, `Parser`, `Types`, `Sema`: functions of
   the tool chain, with their references `Meaning`, `Typing` and `MCParser`.
7. `Toolchain`, which composes 5 and 6, with one `MC` module of inputs for each; `MCProgress`,
   in which the liveness of the scheduler and of the heap is checked, and `MCEventLoop`.

What is left is out of the prover's reach, or not true of every instance: section 5 says which
and why.

## 3. The modules

### EventLoop

One VM, which is single threaded: nothing interleaves inside a handler. What the model
explores is the order in which handlers meet the same task. A handler that loops (waking
waiters, cancelling the tasks of a scope, polling the joins) is one action per iteration;
`pc` says which loop is running and `ret` where the running `poll_joins` returns to, so no
other action can come in between.

| Model | Code |
|---|---|
| `tstate`, `waiters`, `ttoken` | `TaskInner` (`async_rt.rs`) |
| `members`, `any`, `joins` | `JoinGroup`, `Vm.joins` |
| `cancelled`, `tracked` | `isCancelled` of a token object, `token_tasks`, `group.tasks` |
| `cstat`, `awaiting`, `cotask`, `tries` | `ParkedCo`, `co_task`, `try_stack` |
| `ready`, `timers`, `cur`, `sync` | `ReadyQueue`, `TimerQueue`, the loaded frames, `sync_depth` |
| `SettleTask`, `Push`, `AddWaiter`, `CreateTask` | `complete_task`, `fail_task`, `cancel_task`, `ReadyQueue::push`, `add_waiter`, `TaskInner::new_*` |
| `FireTimer`, `NothingReady`, `Poll`, `ResumeNext` | `fire_timers`, `event_loop`, `poll_joins`, `resume_next` |
| `Spawn`, `RunTask`, `Delay`, `Join`, `GroupJoin`, `Cancel` | `call_value`, and the `TASK_*`, `TASKGROUP_*`, `CTS_*` cases of `call_native_with_vm` |
| `AwaitPark`, `AwaitRaise`, `Throw`, `Finish`, `Halt` | `Op::Await`, `park_await`, the error path of `run_slice`, `finish_coroutine`, `Op::Halt` |

Program code is abstracted to the operations it may ask of the scheduler: a running
coroutine picks any of them at any point. Values are abstracted to the outcome of a task.
Deadlines are abstracted: any armed timer may be the next one due. `sync` counts the callbacks
of native functions the running coroutine is in: an await there raises (`AwaitRaise`), and
`CallbackOnTop` says that no coroutine is parked with one open.

### AsyncTasks and EventLoopRefines

`AsyncTasks` is what the async surface of the language promises: a task settles at most
once, a coroutine continues after its await only when the task completed and is over when
it failed, and a coroutine that is over has settled the task its caller holds.
`EventLoopRefines` maps the scheduler to it: queues, timers, joins and scopes are hidden,
and a coroutine that is parked without awaiting anything (just spawned) is able to run.

### GcHeap

Objects are numbered in the order of allocation; a box has a destructor, an array has none.
`Sweep` is `GcHeap::collect` in one step (it runs inside one instruction); `calls` is the
stack of `gc_collect` / `gc_maybe` calls, each with the finalizers it has still to run and
the receiver of the one that runs, because a destructor is ordinary program code that may
collect again. `Roots` is `collect_roots`. `native` holds what a native function keeps in
Rust locals while it calls back, `awaiting` the tasks of parked coroutines, `joins` is
`Vm.joins`, the joins of `Task.WhenAll` and `WhenAny` with their members: none of the three is
a root. `Live` is what the program can still get at: the roots, what a native function will
return, and the results of the tasks that it has, awaits or waits for through joins
(`Wanted`). `poll_joins` runs before anything else after each task that settles (`JoinsPolled`
in the guards): `PollAny`, `PollFailed` and `PollAll`, which makes the array of results.
`LetsGo` says which of these a program may let go of while only the runtime still holds it.
The token object that a task carries, and `root_done`, are left out: no property is about
them.

### Unwind

One coroutine's `frames`, `tries` (`try_stack`), `syncs` (the `invoke_function` loops on the
Rust stack) and `open`, which is not a variable of the VM: the try bodies the *program* is
in. `TryBegin`, `TryEnd`, `Return` and `Call` are the instructions together with the code
the compiler emits around them; `Raise` is any failing instruction: `ToHandler` when the
error reaches `run_slice`, `ToCollector` when a collection that runs a destructor drops it.
`Leaves` says in which other ways a program leaves a try body: by `return`, by `break` or
`continue`, or by an exception in a callback; or a destructor by an exception.

### Dap

A session from `configurationDone` on, with its four actors: the client, the reader thread,
the session loop and `debug_run`, which the session loop calls and waits for.

| Model | Code |
|---|---|
| `pipe`, `hand`, `reader`, `cmds`, `flag` | stdin with its channel, the command between parsing and `cmd_tx.send`, the reader thread, `cmd_rx`, `pause_flag` |
| `mode`, `bps`, `last`, `start` | `StepMode`, `VmDebug.breakpoints`, `last_line`, `start_line` with `start_depth` |
| `pending`, `told`, `wantsStop`, `confirmed` | what the client can know: requests without a response, the last event, a pause not yet seen to work, the breakpoints answered as verified |
| `Wait`, `WaitClosed`, `Drain`, `DrainDone` | the two loops of `run_debug_session` over its commands |
| `Start`, `PauseStop`, `BreakStop`, `StepStop`, `Step`, `Fail`, `Terminate` | `debug_run` and what the session does with its `DebugStop` |
| `inside`, `CallBack`, `CallbackStep`, `CallbackFail` | `invoke_function`, whose loop runs a callback or a destructor within one `self.step` |
| `NewSession`, `Restart` | `run_debug_session` up to its loop, entered again after `SessionEnd::Restart` |

The debugged program is a place, a line and a number of frames, which an instruction may
change in any way one instruction can. An instruction may also call back: the loop of
`invoke_function` then executes the callback's instructions with none of `debug_run`'s checks,
until the frames are back where they were; a callback may fail, and a destructor that fails
leaves its frames behind. A client sends as long as the reader reads (`Send`). Two things of the reader are separate steps because
the order matters: it stores the flag of a pause and then sends the command. A client is
*patient* when it waits for each answer and asks a running program for nothing but a pause;
other clients send what they like. Paths are left out (one file), as is what the requests
that only look return.

### Toolchain

The parts of the tool chain hand one another files and nothing else, and `bstd.threads` has
no state in common with the rest of the library. `Toolchain` is one model of them: each
behaviour takes one part through one of its inputs. Parts whose steps others can see, or
that leave something half done, go step by step (`Imports`, `Mono`, `Linker`, `Packages`,
`Threads`, which have initial states and steps of their own); a part that is a function (the
parser, the checker, the compiler, the optimizer) takes one step, from an input to a
verdict, and its property is about that step. `Toolchain` extends `Imports`, `Linker`,
`Packages` and `Threads`, so that its run checks the very properties that are proved about
them; a part that is not at work stays in an initial state.

A function is checked against a second definition that knows nothing of the code:

| Part | The code | The reference |
|---|---|---|
| parser | `Lexer`, `Parser` | `MCParser`: texts are generated together with the tree each is written for |
| checker | `Types`, `Sema` | `Typing`: an evaluator over values with their types, and what a class promises |
| compiler | `Compile`, then `Machine` runs its output | `Meaning`: an evaluator of the tree |
| optimizer | `Ssa`, `SsaPasses`, then `Machine` | the program before the passes, on `Machine` |

Where the code is known to do something else than the reference, the model says so with a
*note*: a name that `Meaning`, `SsaPasses`, `MCParser` or `Sema` attaches to the input in
which it came across the place. A property is about the inputs without a note. Section 7
lists every note with its place in the code.

### Threads

`messages` and `closed` are the channel, `cell` the mutex's value, `copies` what each
coroutine, and each function that `Thread.Run` calls on top of it, has read of the mutex.
A coroutine keeps its turn until it awaits, which no function inside `Thread.Run` may.
`Lock` and `TryLock` differ only when the lock is held, and it never is between two calls.

### Imports

`stack` is the recursion of `load_import`, one frame per file or directory with the next
import in it; `loaded` the set of keys, `merged` the files whose items are merged so far.
An import is a path by name (the file or directory beside the importing file, or a package),
a path as it is (`import @path`, of a file with or without `.rt`, or of a directory), or of
`bstd`. `broken` are the files and directories that cannot be read or parsed; a load fails
when it comes to one. All files are `.rt` files, a directory is written in one way, and the
candidates of a path by name (with `.rt`, as it is, and so on, in each of three places) are one
for each place.
`Entries` is the listing of a directory in the order of its names. What a program needs is
the least set of files that is closed under what their imports stand for (`Closure`), a
definition that knows nothing of the load.

### Mono

`queue`, `enqueued`, `done`, `made` and `items` are those of the code. A declaration is a
sequence of uses, and a use has a kind of place (a field, a local, a cast, a parameter
default, a catch and so on): whether the collection and the rewriting come there is what
the walks of `mono.rs` decide. Afterwards `declare_item` of the compiler enters the result.
`MaxInstances = 8` ends polymorphic recursion, which the code never does.

### Linker

`Parsed` is the reader of either format, `MergeObject` `merge`, then `Resolve`, the layout, one
step per relocation, and `emit`. A cell of a section is its own origin (object, section,
place) or a number that a relocation has stored, so that overlaps, wrong offsets and words
that are loaded elsewhere all show. A page is four words and addresses end at 64, which
scales 4096 and 2^32 down so that a small job can overflow them. The loops over sections
(`PutSections`, `OfKind`, `Addresses`) and relocations (`ParsedRelocs`) are recursive functions, so that they can be proved
about. `LinksAssumption` says what a compiler emits: the words of a section are all in the
file, or none is (`.bss`). A job may have an object with two sections of one name, as
compilers emit for functions that other objects may also have. Relocation types are those of
x86-64 and aarch64 in either format. The size of a COFF `.bss` is what the code reads, the
header's `VirtualSize`, which object files leave at 0. i686, ARM and the UEFI target are left
out.

### Packages

Each command is a process that works in steps on `external/`, `.raytask/packages` and the
local registry; it may be killed between two of them (`Kill`), and two processes interleave.
Each step that touches files or the network may fail, removals among them, which may leave a
part of the tree (`Remains`). `publish` goes to the local registry or to a remote one.
`disturbed` names the directories in which two commands worked at once, and the registry if a
publisher was killed or failed before the index was right: what can be said of those is less.
The order in which `resolve` asks the repositories is the one function sorted by `Before`, and
its loop is the recursive function in `ResolveCandidate`, one `Consider` per repository: both
can be proved about.

### Machine, Compile, Meaning

Values, instructions and chunks are those of `value.rs` and `bytecode.rs`. `Compile` turns a
construct into a listing of instructions, parts, scopes, labels and jumps, which is
flattened with `emit_jump` and `patch_jump`'s arithmetic. The numbers of the programs are small:
overflow and shifts by 64 and more are left out; `/` and `%` round towards zero, as Rust's do,
and the operations on bits are those of two's complement. `MCPrograms` nests every statement of
a list in every two contexts (loops, switch arms, try, catch, finally, using, lambdas,
functions), and applies every operation to every two operands.

### Ssa, SsaPasses

Functions are graphs of blocks; each pass of `ssa/passes` is an operator on a function and
`Optimized` the pipeline of `pass.rs` for speed or for size. The code keeps blocks in a
`HashMap`; passes are evaluated in the order of block numbers and in the reverse, and each
program is optimized by both pipelines in both orders. `SpillSlot` keeps the `u8` bound of
slots, which no program of the run reaches. Constants of type `uint` and `char` are left out.

### Lexer, Parser

Each function of the parser is a rule, a sequence of steps in the order of its body. Literals
are lexed too, but for the insides of interpolated strings. The texts of `MCParser` are spaced
in the tightest way their tokens allow, so that maximal munch is part of what is checked.

### Types, Sema, Typing

`Sema` is the checker's pass over declarations, inheritance, bodies. `Typing!KeepsTypes`
runs an accepted body over values of every kind of type and compares, at each assignment,
call and return, the type of the value with that of its place. `KeepsMembers` and
`KeepsConstraints` are what subtyping and bounds promise for accepted declarations.
`MCTyped` gives the library a small sample of types and functions.

## 4. The runs

| Run | Shows |
|---|---|
| `eventloop` | all invariants of the scheduler and the refinement of `AsyncTasks`, with three tasks, two spawned coroutines, synchronous callbacks, try frames, a token source and a task group |
| `progress` | `WokenRuns` and `DelaysFire` under fairness, with try frames and callbacks, and `FinalizersRun`, even if destructors store `this` away or write to it |
| `handler_dropped` | finding: a coroutine parked in a try is dropped when its await fails |
| `main_failure_lost` | finding: a failing async Main ends the run as a success |
| `gc_heap` | no live object is swept and no finalizer is lost or repeated: two objects, three tasks with joins of joins, a native function, nested collections, for programs with `LetsGo = {}` |
| `gc_joined_result` | finding: the result of a finished task is swept while a join of it waits for another task |
| `unwind` | handlers, callbacks and frames agree, five frames and five handlers deep, for programs with `Leaves = {}` |
| `stale_handler` | finding: the handler of a function that returned from its try body catches an exception of its caller |
| `dap` | pauses are fresh, nothing runs while the client believes the program stopped, accepted breakpoints hold across requests, steps, restarts and callbacks that return, fail or leave frames behind, and a patient client is answered |
| `dap_pause_lost` | finding: a pause of a patient client that arrives between the last look at the commands and the start of `debug_run` never stops the program |
| `toolchain` | each part of the tool chain keeps its promise, below |
| `linker_weak_first` | finding: an undefined name is bound to a weak definition although a later object has a strong one |

The properties of `toolchain`, each about one part:

| Property | Says |
|---|---|
| `ParsedAsWritten` | a phrase is parsed to the tree it was written for, whatever operators, types and declarations are combined, tightly spaced |
| `AcceptedKeepsTypes` | an accepted body raises no type error, keeps variables, results and constants of their types, and jumps out of nothing |
| `DeclarationsHold` | in accepted declarations a type has the members of those above it, none is above itself, and type arguments satisfy their constraints |
| `MergedOnceInOrder` | a file is merged once, after those it needs, and the program last (twice if it is on a cycle); nothing broken is merged, and a load fails only on an import of a needed file that stands for nothing or brings something that cannot be read or parsed |
| `InstancesClosed` | after monomorphisation no name refers to a template or to nothing, and no two instances share a name |
| `CompiledAsWritten` | the machine prints what the program means to print, ends as it should and leaves nothing on the stack or the try stack |
| `OptimizedAsWritten` | so does the optimized program, with each pipeline and each order of the blocks |
| `ContributionsKept` | the words of each contribution stay where `merge` put them unless a relocation is written there; what is put behind words shares no place with them; loaded sections share no address; symbols and relocations are moved with their sections, and an undefined symbol is bound to a definition of its name that is not local, if there is one |
| `LinkedAsWritten` | words are loaded where relocations assume them, references reach the definitions they mean, execution starts at the entry symbol, failures have a reason; but for the four kinds of input of section 7 |
| `PackagesTellTheTruth` | the resolved candidate is the newest by priority; a lock file names the version that is there; the index lists what is published; whatever steps fail or are killed half way |
| `ChannelDelivers` | messages arrive once, in order, none after the end |
| `UpdatesAddUp` | rounds of Lock and Unlock add up unless somebody awaits between them |

### Bounds and why they are enough

- `eventloop`: `MaxTask = 3` lets a join wait for two members, and a join of a join for a
  third; `MaxSync = 1` is inside a callback or outside; `MaxCo = 2` gives two spawned
  coroutines beside the root, so that two coroutines wait for one task and for each other's;
  one source and one group make every pair of token and group cancellations. A callback
  decides only whether an await raises, a try frame only where an error goes: they are looked at
  beside two tasks (`MCEventLoop!Focus`).
- `gc_heap`: two objects are a root's referent with what it refers to, a cycle, a box that a
  destructor allocates or collects, or the result of a task with the array that a join makes.
  Three tasks are a join with two members, or a join of a join. A native function is looked at
  beside one task and no joins, a destructor beside two tasks (`MCGcHeap!Focus`). All four properties are proved for
  any number of objects, tasks and native functions.
- `progress`: the scheduler and the heap share no state, and a behaviour is one of either
  (`part`), under its own fairness.
- `unwind`: five frames hold a callback inside a try body inside a callback's caller, with
  calls between them, and a collection on top.
- `dap`: two lines tell a step from a stay and an unconditional breakpoint from a
  conditional one, two frames a step over from a step in or out. Two requests are a pause
  with the request that resumes the program afterwards, or a change of breakpoints with one;
  the launch can already have set breakpoints.
- `toolchain`: two nested contexts are enough for every pair of constructs to meet in either
  order, and the compiler and the passes look no further than a construct and what is
  around it; phrases put every operator beside every other and every construct over every
  simple phrase. A main file and three others give a diamond and a cycle; two objects and
  a third give every pair of bindings, in either order, and each relocation type of each
  format and architecture; two package processes with two commands give every pair of commands with a failure or a kill in either; two coroutines,
  three messages and one nested thread give every order of two parties. Loops of programs
  run a few times; the evaluator gives up after 30 calls and iterations, which no program
  needs.
- The small bounds of the violation runs are those of the shortest counterexamples.

Bounds appear in guards only (`MaxTask`, `MaxCo`, `MaxObj`, `MaxNative`, `MaxFrames`,
`MaxTry`, `MaxSync`, `MaxJoinLen`, `MaxDepth`, `MaxReq`, `MaxInstances`,
`MaxCommands`, `MaxMessages`, `MaxUpdates`); the code has no such limits.
`GcHeap`, `Unwind`, `Dap`, `MCLinker` and `Toolchain` stop when a bound is used up or the work is done,
so their configurations do not ask for deadlock freedom; `EventLoop` has the step `Exited` and does.

### Fairness

`EventLoop!Fairness`: weak fairness of the VM's own loops (`event_loop`, `poll_joins`, the
waking loops), because nothing else runs on the thread; strong fairness of `FireTimer`,
because time passes and `fire_timers` fires whatever is due; strong fairness of the end of
a slice and of a callback, the assumption that the program does not compute for ever
without awaiting or returning. `GcHeap!Fairness`: weak fairness of the loop over the
finalizers, and strong fairness of the end of a destructor, even of one that collects
again and again: the one assumption about the program; and weak fairness of `poll_joins`. `Unwind` and `Toolchain` state
safety only.
`Dap!Fairness`: weak fairness of the reader, of the session loop (it polls its channel) and
of the run; strong fairness of `PauseStop`, because `debug_run` comes to its 64th turn again
and again, with frames to run as well as asleep for a timer. Nothing is assumed of the
client.

## 5. The proofs

TLC checks instances; the theorems hold for all values of the constants. The assumptions
on constants are the named `ASSUME`s of the modules.

- `EventLoopProofs`: `TypeCorrect`. `TypeOK` alone is not inductive: that a step of program
  code may use `cur` as an index needs `CurLoaded`. Then
  `NoWakeupLostOrSpurious`, `TasksSettleOnce` and `ResumesOnlyAfterSettled`. The invariant is `WakeInv`: beside the two wakeup properties, a
  waiter of a task is parked on that very task and the task is pending (otherwise handing
  it over could wake a coroutine that waits for something else), the ready queue has no
  repetitions (otherwise a resumed coroutine leaves a copy of its id behind), and exactly
  the loaded coroutine is running. One lemma (`WakeKept`) says what a step may do to tasks
  and coroutines; each action is shown to be such a step.
  The second half of the module is about who settles a task: `NoneWokenEarly`, `NoOrphans`, `CallersAnswered`, `CancelReaches`,
  `OnePassSuffices`, `JoinsReportMembers` and `Implements`. The invariant is `WakeInv` with
  `TaskInv`: ids are handed out in order and what is listed under an id is below the next
  one; a join is younger than its members, which is why one pass of `poll_joins` in the
  order of ids is enough (`Polling` says of a pass under way that what it has visited needs
  no second visit); and no coroutine, timer or scope owns the task of a join, which is why
  `poll_joins` alone settles it. `Implements` maps the initial states and then shows each
  action to be a step of `AsyncTasks` or a stutter under the mapping of `EventLoopRefines`,
  with `TaskInv` for the states in which a coroutine ends.
- `GcHeapProofs`: `HeapTypeCorrect`, `SweptBoxesFinalizedOnce` for every program, and under
  `LetsGo = {}` `LiveObjectsAreTracked` and `CollectionsSpareLiveObjects`. The invariant
  `Kept` says that native functions, awaits and destructors hold only what a root also
  holds, and the tasks that the program waits for, directly or through joins, are tasks whose
  handles it has; what is reachable from there is tracked. `Reach` is the least closed set,
  so the proofs need no induction over paths.
- `UnwindProofs`: under `Leaves = {}`, `UnwindTypeCorrect`, `HandlersAreTheTryBodies`,
  `CallbacksHaveTheirNatives` and `FramesKeepTheirCode`. The invariant adds `Nested`: try
  bodies are entered in the order of frames, callbacks wait for ever deeper frames, and no
  try body is inside a callback; from it follows that landing in a handler takes all
  callbacks above it along and leaves the function of each remaining frame as it was.

- `DapProofs`: `DapTypeCorrect`, `PausesAreFresh`, `StoppedMeansStopped` and
  `NoBreakpointPassed`, for every program, client and set of breakpoints. The last is about the
  instructions of `debug_run` itself, callbacks that fail or leave frames behind included: what
  a callback executes passes every breakpoint (section 7). The invariant adds
  that the VM has the breakpoints the session accepted; one lemma (`SettledIInv`) says how
  every command leaves the session.
- `ThreadsProofs`: `Delivered` and `RoundsAddUp`. The second needs `OneFreshCopy`: until a
  round lapses, at most the innermost call of the coroutine that runs has a copy of the
  mutex's value that it may still write back, and that copy is the value.
- `PackagesProofs`: `RecordsAreTrue`, which has two parts. That the
  resolver chooses what the rules of versions ask for is a proof about data: a sorted order
  of the repositories exists and is the only one (each gets the rank of those before it),
  the recursive function of the loop exists (a least place where it would not is a
  contradiction), and after k repositories the best candidate is the choice among the first
  k. `SemverGt` is replaced by the order it computes (`Above`: the first difference
  decides, or the longer one), which is total. The steps of commands are the other part:
  the invariant `PackagesInv` says for each phase of install and publish what the process
  found, what is in its directory and what the lock file and the index name, whichever steps
  failed half way, unless `disturbed` has the directory. The theorem assumes
  `VersionsAssumption` (versions are not empty) and `ConfigsAssumption` (a configuration is a
  list of repositories), which the `toolchain` run evaluates.

- `ImportsProofs`: `LoadedOnceInOrder`. The invariant `ImportsInv` is that of a depth-first
  search. A frame on the stack is for files that are below each frame under it, so a file
  whose imports are all seen and which is still waited for by one below it would be on a
  cycle: that is why what a file needs is merged before it. An import whose key is there is
  answered for by a file that is merged or on the stack, and a file that was reached has a
  key; where names are files, a key is one file, so no file is reached twice. `Closure` is
  the least closed set, so the proof needs no induction over paths. Files and directories may
  be broken: then the load fails there, at an import of a file that is needed. The theorem assumes
  `TreesAssumption` (finite trees of well-formed imports with the program in them) and
  `EarlierAssumption` (names are totally ordered, as strings are); that a sorted listing then
  exists and names every file is `SortExists`.
- `LinkerProofs`: `ContributionsAreKept`, for every set of link jobs. The invariant `LinkInv`
  says of the merged sections that each name is there once; of each contribution that it
  fits into its section and that its words are there but for fields of relocations applied
  so far; and of two contributions to a section that the later one lies behind the earlier
  one, if the earlier one has words (`.bss` contributions have none, and overlap).
  `PutWell` says what one turn of
  `merge` may do and `MergeOne` that this keeps the invariant; the loops exist and do what
  their turns say because a least place where they would not is a contradiction (`PutRuns`,
  `FoundRuns`, `NextRuns`). The layout pads and never moves a word (`PaddedSection`), and
  addresses go up from one loaded section to the next, each of them once
  (`LoadedPicks`, `AddressesApart`). `LinkRelocate` changes no size. `TableInv` is the
  invariant of symbols and relocations: while objects are merged, either table is made of
  those of the objects, moved and one behind the other (`Strung`). The symbol that takes
  the place of an undefined one is a definition of its name that is not local, if there is one
  (`ResolvedBecame`); which one is what the finding `linker_weak_first` is about. Because every
  kept section has a place, a symbol that is defined stays so (`MovedIs`). The theorem assumes
  `ScaleAssumption` and `LinksAssumption` (the lists of a file are lists, and what a
  compiler emits for a section, section 3), which the `toolchain` run evaluates. `SectionsRead`
  shows that either reader keeps what `LinksAssumption` says of sections.

The restrictions on `GcHeap` and `Unwind` are not conveniences: without them the
properties fail, and the runs `gc_joined_result` and `stale_handler` show it.

Only model-checked: liveness under fairness (`WokenRuns`, `DelaysFire`, `FinalizersRun`,
`PatientServed`), which the prover does not handle; `CallbackOnTop`; `LinkedAsWritten`, which says exactly when
words and references go astray, and of some job the "exactly" would be wrong, because two
different words have the same content or a misled field holds the right number by chance; and
the properties of `Mono`, `Compile`, `Ssa`, `Parser` and `Sema`
(`InstancesClosed`, `CompiledAsWritten`, `OptimizedAsWritten`, `ParsedAsWritten`,
`DeclarationsHold`, `AcceptedKeepsTypes`), whose modules, or the references they are compared
with, recurse over trees and graphs with RECURSIVE operators: no module with a theorem may
reach those, and a proof would be an induction over data.

## 6. Findings

1. `handler_dropped`: `resume_next` (`vm.rs:606`) drops a parked coroutine with its try stack
   when the awaited task failed; `tests/async.rs:86` expects the enclosing catch to run.
2. `main_failure_lost`: when async `Main` fails while the root awaits it, `event_loop`
   (`vm.rs:254`) returns as idle, and no failed assertion after an await ever fails a test.
3. `gc_joined_result`: `Vm.joins` keeps handles of finished tasks, and `collect_roots`
   (`vm.rs:165`) does not visit it: a collection while `WhenAll([A(), B()])` waits for `B`
   sweeps what `A` returned.
4. `stale_handler`: `return` out of a try body leaves its handler on the try stack
   (`compiler.rs:1221`); a later exception of the caller lands in code of the function that
   returned.
5. `dap_pause_lost`: `debug_run` clears `pause_flag` when it starts (`vm.rs:2041`), also that
   of a pause that arrived after the session loop had last looked at the commands; the program
   runs on.
6. `linker_weak_first`: a weak definition that comes first is preferred to a strong one
   (`link/resolve.rs:152`), against the comment above it: "keep first strong definition".

Everything else that was met is in section 7. It is excluded from a property by name, or the
property says when it happens.

## 7. Notes: where the code does something else than its references

A property of the tool chain is about inputs in which none of these was met. Each is a
place in the code, with what happens there.

How many inputs are left: of 6,946 phrases 6,626; of 4,276 programs 3,216; of 640 optimized
programs, each with two pipelines in two orders, 1,402 of 2,560; of the bodies, class tables and
instances that the checker accepts, 1,328 of 1,806, 586 of 1,002 and 81 of 492 (it refuses
3,790, 2,418 and 588 others). Most of the bodies left out have a `dyn` in them, most instances
a type argument inside another type.

### Heap and debugger

- `LetsGo` names what a program may let go of while only the runtime keeps it. `NothingLiveSwept`
  is violated with each of its members: *joined* is finding 3. *argument*: lists and results
  that `List.Where`, `Select`, `Any` and `All` keep in Rust locals are swept by a collection in
  their callback (`vm.rs:1450`). *awaited*: so is the result of a task that only the `awaiting`
  of a parked coroutine keeps (`vm.rs:174`). *this*: the mark bit of the receiver of a
  destructor stays set (`gc.rs:217`), so what it refers to is not marked by a collection in
  the destructor.
- A callback or destructor runs inside one instruction of `debug_run`, in the loop of
  `invoke_function` (`vm.rs:1529-1557`), which looks at no breakpoint, no step and no pause, against
  "Run until breakpoint, step boundary, pause, termination, or error" (`vm.rs:2026`).
  `BreakpointsHold` is about the instructions of `debug_run` itself (`vm.rs:2092`).

### Parser (marks of `MCParser`)

- *range or pattern* (`parser.rs:1459`): the end of a range pattern is read as an
  expression, which takes the `|` that separates patterns. `docs/GUIDE.md:498` has
  `case 1..5 | 10 | 20..25`.
- *expr? or ternary*, *nullable type or ternary* (`parser.rs:2117-2143`): a `?` after an
  expression is told from a conditional by the token after it.
- *cast or group*, *no cast* (`looks_like_cast`): a parenthesized name before an operator.
- *type or expression* (`looks_like_declaration`, `looks_like_type_args`): comparisons that
  look like type arguments.
- *items or fields*: a braced initializer that could be of an array or of an object.
- *keyword type of a catch*, *alias of a bare path*: `catch (int e)` is rejected
  (`parser.rs:1622`), and `import @a as b` takes `as` and `b` for parts of the path (`parser.rs:289`).
- `>>` at the end of nested type arguments is one token (`OneToken`).

### Compiler and machine (notes of `Meaning`)

- *many patterns or guard* (`compiler.rs:1513-1533`): a second pattern of a case, or a failed
  guard, leaves the switch value where the code does not expect it. `docs/GUIDE.md:466`
  documents the construct; `tests/spec_final_coverage.rs:484` calls it a known limitation.
- *default*, *nested break*: a default arm without `break` pops the switch value twice; a
  `break` inside a statement nested in an arm leaves it.
- *name taken*: a name bound by a pattern that a local has already.
- *finally skipped* (`compiler.rs:1667`): on return, break and uncaught exceptions.
- *try left early* (`compiler.rs:1221`, `:1428`): handlers stay; see `Unwind`.
- *owned left early*: jumps out of a scope do not dispose its owned and used locals, against
  `docs/GUIDE.md:192`.
- *global postfix*, *step of no int*, *step of no name*, *index*: increments of globals,
  fields and elements, and compound assignment to an element, which is plain assignment.
- *both sides*: `??` evaluates its right side also when it is not needed.
- *print of many*, *method of a global*: arguments after the first are dropped; a method is
  looked up on a copy.

### Optimizer (notes of `Ssa` and `SsaPasses`)

- *value of another block*, *value left*, *result not kept* (`ssa/lift.rs`): the lifter
  keeps no operand stack across blocks, so `&&`, `||`, conditionals and switch values are lost.
- *try*: handlers are dropped. `docs/spec/04-ssa-optimizer.md` says that effectful operations
  are not speculated across try regions.
- *closure*, *captured local*, *string test*, *type test*: instructions lifted to a constant or
  a copy.
- *loop at the entry*: a jump back to the first block.
- *assigned to itself* (mem2reg), *read before a write* (gvn and licm, across a store to a
  global), *value of a block beside* (gvn, without regard to dominance), *constant of one
  path* (sccp; the note is given more often than needed), *error raised early* (licm),
  *error not raised* (dce), *start taken for 0* (strength_reduce), *value of the callee*
  (inline), *panic* (a phi with an edge from a removed block).

### Monomorphisation (`Mono!Odd`)

- *not asked for*: kinds of places the collection leaves out (types in casts, `is`, `as` and
  catch, parameters of lambdas, and others; `mono.rs:321-625`); *not rewritten*: `typeof`,
  `sizeof`, parameter defaults, catch.
- *one name for two* (`mono.rs:35-59`), *name taken*: `Box__int` may be two things.
- *endless* (`mono.rs:151`): polymorphic recursion.
- *no arguments*, *number of arguments*, *qualified name* (`net.Box<int>` is never an
  instance), *base declared later* (`compiler.rs:210`: the base of an instance is entered
  after it).

### Type checker (notes of `Sema`)

- *dyn*, *cast*, *null*, *nullable*, *no value*: trusted on purpose or for want of flow
  analysis. `null` is accepted for a class, an array or a string; members of a nullable value
  are those of the value.
- *array*: arrays are covariant. *operator*: an operator of two values of one class.
  *index*: of a string, a dictionary or a class. *kept*: the result of `??=`. *caught*: the
  type of a caught value. *type*: a type's name as a value, and calls of instance methods on
  it. `docs/spec/02-type-system.md:45` says "Instance methods may only be invoked with an
  instance receiver."
- *shadowed*: a function is looked up before a local of its name. *arguments*: those of a
  function value or a static member are not checked.
- *target*: `p?.x = null`. *no return*: a function may end without one. *continue*,
  *lambda*: jumps accepted where no loop is.
- *override* (`sema.rs:1110`): only the number of parameters is compared, for bases and
  interfaces. `docs/spec/03-oop-async-conformance.md:7`: "Override compatibility must
  preserve parameter compatibility and return-type compatibility."
- *hidden field*, *second base* (lookups follow first bases), *own base*, and the error
  *endless* (`class C : A` with `A : B`, `B : A`: `is_ancestor` does not return).
- *inner* (`sema.rs:919`): type arguments inside another type are not validated.
  `docs/spec/02-type-system.md:37`: "Constraint validation is part of semantic analysis and
  must reject invalid instantiations before runtime or backend lowering." *default*: a
  nullable or abstract type passes for `new()`.

Without a note, because `Sema` shows it in what it accepts: `T?` is not assignable to `T?`
(`sema.rs:3144`), against `docs/spec/02-type-system.md:16`, "Exact type identity is
assignable."; subtyping ignores type arguments (`sema.rs:1197`), against `:41`.

### Threads, imports, packages, linker

- `examples/threads/main.rt:7` says that `Lock` blocks while the mutex is taken, `:9` that
  `TryLock` then returns null, `:40` that `Send` blocks. The code does none of these: `Lock`
  copies the value and lets go (`threads.rs:88`), so that an await between `Lock` and `Unlock`
  loses the updates of others (`lapsed`). `Recv` on an empty open channel stops the only thread
  for good (`threads.rs:178`).
- The key of an import is its text: the same text from two directories is one file to the
  loader, and a file that is imported as `@file` and by its name is merged twice
  (`NamesAreFiles` excludes both).
- A main program on an import cycle is merged twice (`resolve.rs:81`), though `resolve.rs:10` says
  that what it imports is merged "ahead of the main program"; `MergedOnceInOrder` says so.
- Packages: an archive cut short is installed as if it were whole (`registry.rs:378`, against
  `docs/REGISTRY_PROTOCOL.md:98`), and the half copy of a dependency passes for the package ever
  after (`project.rs:541`). `raytask update` reinstalls nothing that is there (`project.rs:538`,
  against `docs/REGISTRY_PROTOCOL.md:219`, "Reinstall dependencies"). An `index.json` that cannot be read counts as
  empty (`project.rs:503`). Two installs of one package interleave (`registry.rs:280`); two
  publishers, or one that dies, leave an index that does not list what is there (`disturbed`).
  `install` fills `external/`, dependencies are read from `.raytask/packages`; the dependency
  version `*` is looked up under `<name>-*`.
- Linker: the `.bss` of several objects overlap (`link/resolve.rs:78`, against the field of
  `object.rs:20`). A PE image ignores the gap that the layout leaves before a section of
  another kind behind data (`coff.rs:311`, `resolve.rs:433`; `OtherBehindData`). The COFF reader
  reads no addends in place and counts a `Rel32` from the start of its field (`coff.rs:74`;
  `AddendKnown`). 32-bit fields are cut without a check (`resolve.rs:271`; `FieldHolds`).
  `ReferencesReach` leaves out `addr32nb`, which is stored as an address and not as an offset from
  the image (`object.rs:70`), and an addend of `adrp` that crosses a page.

## 8. What is not modelled

- Of the interpreter: strings by their characters, fractions, byte accounting and the
  collection threshold, closures as heap nodes (a closure reachable from its own captured
  variable makes marking endless, `gc.rs:248`), unsafe memory, and addresses that are used
  again (`vm.rs:479`).
- Of the tool chain: interpolation, asm, layout attributes and the
  preprocessor; warnings and the table of library types; operands past 255 and async
  functions in the compiler; `emit_c.rs`; headers and string tables of object files;
  archives and the text of `project.rtp`.
- Generators and streams are a cursor or a wrapper used by one coroutine. Two things were
  noticed reading them: `ToList` slices past the end after `Next` went past it
  (`generator.rs:198`), and the comment at `streams.rs:268` promises a second `Close` that
  does nothing, which the code around it does not give.
- The C and native back ends emit C text whose meaning is that of C, the C task runtime
  among it; FFI, header parsing, files, network, console and the web runtime are the outside
  world; the bytecode container and debug symbols are formats.

`PROJECT.json` lists every component with its reason, and hazards without a property with a
note.
