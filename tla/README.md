# A TLA+ model of HClib

HClib is a task-parallel runtime: a program is a tree of tasks (`async`) joined
by `finish` scopes and ordered by promises and futures, run by a fixed set of
worker threads that steal work from one another and switch between lightweight
contexts when a task blocks. Parallel loops, memory at locales and communication
are built on it. This directory holds TLA+ models of these parts, TLC runs on
small instances, and TLAPS proofs, for every size, about the deque, the list of
pending operations, promises, finish scopes, recursive parallel loops and the
services of modules.

`PROJECT.json` maps every definition to the lines it models and lists the runs,
their mutants, the findings and the hazards.

## 1. The system

| Component | Source | State | Operations | What makes it hard |
|---|---|---|---|---|
| Work-stealing deque | `src/hclib-deque.c` | `head`, `tail`, ring `data` | push and pop by the owner, steal by others | no lock; the owner's store to `tail` may be delayed; the last task; wrap-around |
| Promises, futures | `src/hclib-promise.c` | `satisfied`, `datum`, `wait_list_head`; per task `waiting_on`, `waiting_on_index`, `next_waiter` | put, register, free | register and put race on the list head; a task travels from list to list while the list is walked |
| Scheduler | `src/hclib-runtime.c` | per worker current context, finish and task; done flags | spawn, find and run a task, work loop, launch, finalize | tasks run on top of other tasks; a context moves between workers |
| Finish scopes | `src/hclib-runtime.c` | `counter`, `parent`, `finish_dep` | start, end, end without blocking | check-in and check-out by different workers |
| Contexts | `src/inc/litectx.h` | stack, `prev` | create, swap, destroy | who may destroy which context, and when |
| Locality graph | `src/hclib-locality-graph.c`, affinities in `src/hclib-runtime.c` | locales, edges, deques per locale and worker, pop and steal paths, workers near each worker | load or generate a graph; push, pop and steal along a path; find locales | order and range of the searches; what other paths visit |
| C interface, `forasync` | `src/hclib.c` | loop domains | split and tile iteration spaces | boundaries of the split |
| C++ interface | `inc/hclib-async.h`, `inc/hclib-forasync.h` | lambdas | twenty-odd forms of `async`, the loops again | futures forwarded through layers; events at the right time |
| Pending operations | `modules/common/hclib-module-common.h` | a list of operations and one polling task | append, poll | append races with removal; restart of the poller |
| OpenSHMEM, SOS | `modules/openshmem`, `modules/sos` | lock contexts, waited-for conditions, a communication context per worker | calls of the library as tasks at the interconnect's locale | locks exclude PEs, not tasks; one worker makes all calls; puts complete late |
| MPI | `modules/mpi` | pending requests | blocking, collective and non-blocking calls | chains of requests, poller and promises |
| Memory at locales | `src/hclib-mem.c`, modules `system` and `cuda` | functions by type of locale | allocate, reallocate, set, copy, free | which module serves a copy; data moved through futures |
| Modules, function lists | `src/hclib_module.c`, `src/hclib-fptr-list.c` | lists of functions, types of locales, state in the workers | register, initialise, look up, finalise | order of registration |
| Atomics | `src/hclib_atomic.c`, `inc/hclib_atomic.h` | one value per worker | update, gather | no lock |
| Memory tree | `src/hclib-tree.c` | a search tree of address ranges | insert, find, remove | called from nowhere |
| Instrumentation, timers, statistics | `src/hclib-instrument.c`, `src/hclib-timer.c` | event buffers | record, print | nothing reads them back |
| UPC++, OpenSHMEM-AM | `modules/upcxx`, `modules/openshmem-am` | none | single calls into libraries | delivery is the library's |

How they interact. `hclib_async` makes a task, counts it in the current finish
scope and either pushes it on the worker's deque or hangs it on the wait list
of the first future that is not satisfied. `hclib_promise_put` closes the list
and moves each task on; a task without open futures goes to the deque of the
worker that did the put. A worker pops from its own deque and steals from the
others. A worker that reaches the end of a scope, waits for a future or yields
runs other tasks meanwhile: on its own stack when it may, otherwise on a new
context, leaving behind a *continuation*, a task that swaps back to the old
context. The last task of a scope ended without blocking puts the scope's
event. When the root scope is done, the finalizing context clears the done flags
and all workers leave their loops. A task may be placed at a locale; the workers
whose paths visit the locale take it from there. A module registers its types of
locales before the graph is loaded and its functions after; its calls into a
communication library are tasks at the interconnect's locale, which one worker
serves, and operations that take time are put on a list that a task polls.

What correctness means, component by component:

* deque: each pushed task is handed out once, to the owner youngest first and
  to thieves oldest first; "empty" is said of an empty deque only (to the
  owner); a task is not left behind;
* promises: a task is scheduled once, after all its futures hold their data,
  and is never forgotten; the promise is not used after it was freed;
* finish scopes: counters are exact, and a scope is over when all its tasks and
  inner scopes are;
* contexts: each is resumed once, when its future is satisfied; the code that
  goes on there is in the scope it left; only dead contexts are destroyed;
* launch: returns when everything has run, and does return;
* placement: a task at a locale is taken by a worker that visits it, by one worker
  only if the locale is private, and is not left behind;
* loops: every iteration is run once, and the event of the loop comes after the last;
* communication: locks exclude tasks and PEs, signals follow data, a barrier
  completes the puts before it, results reach their callers, calls return;
* memory and modules: a call is done by the module that owns the memory, after
  its futures, and the start of a legal set of modules succeeds in every order.

## 2. The modules

| Module | Models | Uses |
|---|---|---|
| `TaskDeque` | what a deque promises (abstract) | |
| `Deque` | `hclib-deque.c`, one step per shared access | refines `TaskDeque` |
| `DequeProofs` | theorems about `Deque` | `Deque` |
| `Chains` | what a chain of `next` pointers reaches, with lemmas about appending to it and unlinking from it | |
| `Promise` | `hclib-promise.c` and the scheduling test of `hclib-runtime.c`, one step per shared access | `Chains` |
| `PromiseProofs` | theorems about `Promise` | `Promise` |
| `Runtime` | the scheduler: contexts, finish scopes, waits, yields, launch | deques as in `TaskDeque`, put as one step |
| `RuntimeProofs` | theorems about finish scopes in `Runtime` | `Runtime`, `Chains` |
| `PendingOps` | the list of pending operations of the communication modules and its polling task, one step per shared access | `Chains` |
| `PendingOpsProofs` | theorems about `PendingOps` | `PendingOps` |
| `LoopDomain` | loop domains and the ways to cut them | |
| `ParallelFor` | what a parallel loop promises (abstract) | |
| `Forasync` | `hclib_forasync` of `hclib.c` and the tasks it makes | `LoopDomain` |
| `CppApi` | `hclib-async.h`, `hclib-forasync.h` | extends `Forasync`, refines `ParallelFor` |
| `ForasyncProofs` | theorems about the loops of `Forasync` and `CppApi` | `CppApi` |
| `Locality` | `hclib-locality-graph.c` and the affinities of `hclib-runtime.c` | deques as in `TaskDeque` |
| `Shmem` | the modules OpenSHMEM and SOS | polling as in `PendingOps`, tasks as in `Runtime` |
| `Mpi` | the module MPI | extends `Shmem` |
| `ShmemProofs` | theorems about the locks, fetching adds, barriers and signals of `Shmem` | `Mpi`, `Chains` |
| `ModuleServices` | `hclib_module.c`, `hclib-fptr-list.c`, `hclib-mem.c`, `hclib_atomic.c`, the modules `system` and `cuda` | |
| `ModuleServicesProofs` | theorems about `ModuleServices` | `ModuleServices`, `Chains` |
| `MCDeque`, `MCPromise`, `MCRuntime`, `MCCppApi`, `MCLocality`, `MCShmem`, `MCModuleServices` | the instances TLC checks | |

### Deque

`head`, `tail` and `data` are the fields of `hclib_internal_deque_t`; `pc`, `h`
and `t` are the program counters and locals of the owner and the thieves; `ret`
is what each last obtained. Each load, store and CAS of shared memory is an
action. The machine is x86-TSO: of all the stores only the owner's to `tail` can
be overtaken by a later load that matters, since the store of a slot is followed
by a fence and `head` is only written by locked instructions. So the store
buffer is the pair `tail` / `tailMem`: `Flush` drains it and `hc_mfence()` waits
until it is drained. The reset of `tail` at the end of `deque_pop` and the
increment at the end of `deque_push` are not followed by a fence and may stay in
the buffer. A thief that loses its CAS tests `success`, which is never
assigned: both outcomes are actions (`StealLose`, `StealRetry`).

`MaxIndex` stands for the largest `int`; pushes stop there.

### Promise

A worker is inside `spawn_handler` (registering a task on a future), inside
`hclib_promise_put`, or idle. `task` is the task it is registering, `walk` the rest
of the closed wait list it is walking (`SENTINEL` when none), `head` its copy of
the list head. `NextDep` is the loop of `register_on_all_promise_dependencies` over
`waiting_on` and `waiting_on_extra`, `Advance` the rest of it with
`try_schedule_async`. A task is private to one worker between leaving one list and
entering the next, so its fields change together with the step that uses them. The
caller's obligation to put a promise once, which the code asserts, is a guard of
`PutRead`; `FreeInTask` is a task that runs and frees the promise it waited for,
as the `fib` test does.

### Runtime

A context is a stack of frames: `loop` (`core_work_loop`), `task` (a user task at
an instruction), `help`, `wait`, `yield` (inside `help_finish`,
`hclib_future_wait`, `hclib_yield`), `swapped` (a wait or yield whose context is set
aside), `resume` (`_finish_ctx_resume`) and `start` (a new context in `_help_wait`
or `yield_helper`). `current[w]` is the worker's context, and the top frame says
what it does next. Local variables that outlive a call are fields of the frame:
`ws`, the worker state that `help_finish` and `hclib_future_wait` read once, and
`fin`, the finish they restore.

A user program is data: each task is a sequence of instructions (`Async`, `Await`,
`StartFinish`, `EndFinish`, `EndFinishNB`, `Put`, `Wait`, `Yield`), and `Init` chooses
the program from the family `Programs`. The entry task and the finalizing context
(`Main`, whose one instruction ends the root scope) are set up as
`hclib_entrypoint`, `hclib_launch` and `hclib_finalize` do.

Abstractions: one locale, so a worker has one deque; tasks are pushed, taken and
put atomically, which `Deque` and `Promise` justify; the loop of `help_finish` or `hclib_future_wait` looks at its
counter or flag and takes the next task in one step (`HelpRun`, `WaitRun`), and `hclib_end_finish_nonblocking` checks out of the
scope and of its parent in one step (`DoEndFinishNB`); the work loop looks at the done
flag before it looks for work (on a new context the code looks once more first, which can
only find a task of a scope that nobody awaits); the done flags, cleared one after the
other and read by one worker each, are one flag; `curr_task`, which no decision depends on, is left out. The
swap of `help_finish` (`_help_finish_ctx`) is dead code: `find_and_run_task` returns a task
only when called with `on_fresh_ctx` 0, and `help_finish` passes 1.

### PendingOps

Every operation is appended by a call of its own (`appender`), and a polling task is
known by the append that started it (`poller`, with its locals `prev`, `cur`, `rest`,
`nonEmpty`). The completion test of the library is the set `complete`, which only
grows: a request that has completed stays complete. An assertion of the code that
fails ends the program (`aborted`); the build of the modules keeps assertions on. The
yield between two passes lets other tasks run and changes nothing here.

### LoopDomain, Forasync, ParallelFor and CppApi

One call of a loop is followed from its arguments to its event. A `task` is the box
of iterations it still has to run or to hand on; the frame of the caller is the first
task. `Halve` is one level of `forasync*_recursive`: the task keeps the lower half and
spawns the upper. `Chunk` and `Chunks` are the loops of `forasync*_flat`, `runner` is the
innermost loop over a chunk. `Mid` and the default tile divide as C does, towards
zero. `counter` and `event` are the finish scope of `hclib_forasync_future`. A tile of 0 in flat
mode divides by zero and ends the program (`Abort`).

`CppApi` adds the C++ functions as operators from a lambda, futures and a locale to the
task they make (`async_await_at_helper` and the rest keep their names), the loops over
lambdas with their futures, distribution functions and sequential mode, and the
wrapper that puts a result. The combination of a non-blocking task and recursive mode
that the code asserts against is an abort. The functions for one, two or four futures leave NULLs out; those for a
vector hand it on as it is, and `Awaited` is what the runtime makes of it: a NULL in the first place means no
futures at all (`is_eligible_to_schedule`), one among the next three is skipped, and one behind the first
`MAX_NUM_WAITS` ends the list. `AwaitsAll` is stated for vectors that follow the rule of `hclib-runtime.c:545`, "If any
futures are non-null, the first must be non-null", and have no NULL behind the first four (`WellPassed`); the
run also has vectors that do not, whose task runs before some of their futures. `ParallelFor` knows only the iterations run
and the event; the refinement maps `ran` to the iterations of tasks that are done.

Left out: the construction and destruction of lambda objects. `forasync2D_future` and
`forasync3D_future` cannot be instantiated: they call functions with arguments that none
takes.

### Locality

`env` is what the process finds: a locality file or none, `HCLIB_WORKERS`, the
affinity, the processors and their NUMA nodes. A file is data: declarations,
reachability and paths whose labels contain expressions in the worker's number
(`id / n`, `id % n`). Labels are sequences of strings, the
number is spelled in digits, and types are recognised by prefix as in
`initialize_locale`. A file that fails one of the loader's assertions aborts. The matrix
of edges of a generated graph is not initialised: it is a choice over all
relations, and the distances that `ClosestIsNearest` speaks of count whatever edges the matrix then holds. `create_hwloc_cpusets` gives each worker its cpuset and the range of
workers near it, with `revert_to_naive_stealing`, which stays set for all later workers.

Then workers push tasks (`rt_schedule_async`), search their pop path from the first
locale and their steal path from the locale of the last success, and look at one deque
per step: first the workers of their own range, then the others. A deque is the
abstract one of `TaskDeque`. The queries `hclib_get_closest_locale_of_types`,
`hclib_get_central_place` and `hclib_get_thread_private_locales` are operators.

### Shmem and Mpi

The tasks of several PEs make sequences of calls. A call that goes through the
interconnect (`via = "nic"`) waits until the PE's one interconnect worker is free, runs
there, and returns to the caller when its task is done (`finish` around `async_nb_at`). A
call of SOS that takes the context of the worker runs in place. Calls with several
steps have a `stage`: a lock waits for the promise of the one before it in the chain
(`last`), then asks the library, then leaves its own promise in `live`; a wait for a
condition goes on the list that is polled. `set_lock` and `clear_lock` are split where the
code unlocks its mutex or waits, so that other tasks come in between. Adding a wait to the list and a visit
of the poller to it are one step each (`enqueue_wait_set`, `poll_on_waits`): the list is built, unlinked and
asserted about like that of `PendingOps`, where these steps are taken apart, and the assertion of
`hclib_openshmem.cpp:832` is the one that `pending_head` shows to fail.

The library is external. Puts and adds travel (`flight`) and are delivered in any order
unless a fence lies between them; `quiet` waits for those of its context; a barrier and
the other collectives block the PE's interconnect worker until all PEs have entered, and a
barrier completes the PE's puts on the default context first; `::shmem_set_lock` blocks until the library grants it to the
PE. In `Mpi` a send may be buffered or wait, and requests match in the order in
which they were made. An operation with a future is a task of one call, started by
its caller; its future is the promise that the poller puts.

Functions that differ in the data type are one kind of call with a name each.
`MPI_Comm_rank`, `MPI_Comm_size` and the like answer without state and are left out.

### ModuleServices

`Boot` is `hclib_entrypoint`: the static constructors register modules
(`hclib_add_module_init_function` searches for the name first), pre-initialisation adds
types of locales, the graph is loaded, post-initialisation registers functions and
adds state to the workers, and the program runs. `mpi` and `sos` look up the interconnect then (`nic`) and assert
that the graph has exactly one and that they have not done so before (`NicFound`); otherwise the start is aborted
(`PostInitNoNic`). `lists` has for each kind of function
an array as long as the highest type registered (`RegisterFunc` grows it as the code does), so
that a look-up beyond it is told apart from one that finds NULL; a priority read beyond the
array (`hclib_get_priority_for`) is a choice over both priorities. A module's state is its
words at its offset of `module_state`.

The main task makes the calls of the program: allocations, memsets, copies and
reallocations choose a function at once and run it in a task when their futures
are done (`Kernel`), frees run at once. `Effect` is what the functions of `system` and `cuda`
do to `mem`, where each pointer is in the space of a device or of the host; a function
given memory it cannot reach is noted in `wild`. An update of an atomic value is a
task that reads and writes in two steps the slot of the worker it runs on. `custom`
stands for a module of the user's, with state in the workers and an allocator for
`sysmem`.

## 3. The runs

All passing runs but `promise` check for deadlock; in `promise` workers may
have nothing left to spawn or put. (`runtime_owner` does not, as the program of its
violation may also get stuck, for the reason that `runtime_defunct` shows.) Every property of a passing run has a mutant in
the module it is about: a plausible mistake in the code that breaks it. Each module has
a type invariant `TypeOK`. In `deque` it is an invariant of its own, since it is also
proved; elsewhere it is the first conjunct of the structural invariant of the module
(`OnePlace`, `CounterExact`, `AwaitsAll`, `PrivateTasks`, `LockExclusion`, `ServedByOwner`,
`NoneLost`).

| Run | Instance | Shows |
|---|---|---|
| `deque` | 2 thieves, 3 tasks, ring of 2, indices to 4 | `TypeOK`, `WindowSound`, `CasTakesOldest`; `Deque` implements `TaskDeque` |
| `deque_live` | 2 thieves, 2 tasks, indices to 3 | `HandedOut`: no task stays for ever |
| `promise` | 2 workers, 3 promises, 4 tasks, two of which await the same promises in crossed orders and one has a future that does not fit inside the task | `DepsBeforeRun`, `OnePlace`, `NoUseAfterFree`; `Woken`: no lost wake-up |
| `runtime` | 2 workers, programs of nested, consecutive and non-blocking scopes, and of one waiting task among non-blocking ones; 1 worker, programs that wait and yield | `CounterExact`, `FinishJoins`, `RunOnce`, `ScopeCorrect`, `OneHandle`, `ResumedWhenReady`, `DefunctDestroyed`, `Terminates` |
| `cppapi` | loops of one to three dimensions, flat and recursive, in C and C++, and all forms of `async`, with NULLs among their futures and vectors of up to six | `Partition`: each iteration in one place; `AwaitsAll`; the loops implement `ParallelFor`, so the event comes after the last iteration |
| `locality` | 10 environments: two files, one of them wrong, more and fewer workers than they name, both affinities, a generated graph; 2 tasks | `PrivateTasks`, `LocaleQueries`; `EveryTaskTaken` |
| `shmem` | 2 PEs with up to 3 tasks, 13 programs through OpenSHMEM, SOS and MPI | `LockExclusion`, `SignalAfterData`, `BarrierCompletes`, `TicketsDistinct`, `ResultsDelivered`; `AllCallsReturn` |
| `modules` | 3 workers, 8 sets and orders of modules and graphs (one graph with two interconnects and one with none), 6 programs with two GPUs | `ServedByOwner`, `AbortJustified`, `DataDelivered`, `GatherExact`, `StatesKept`; `LaunchEnds` |
| `pending` | 4 operations | `NoneLost`, `OnePoller`, `NoUseAfterFree`, `ReportedOnce`; `Reported`: what completes is reported |

Three more runs end in a violation; each is a disagreement between the code and
what it says of itself:

| Run | The code says | What happens |
|---|---|---|
| `runtime_defunct` | the context that resumed this one is "now defunct" | an end-finish runs a continuation on its own context; the context is destroyed with the end-finish on it, and with it, for instance, the one that ends the program |
| `runtime_owner` | tail is "only manipulated by the thread owning a deque" | `help_finish` keeps the worker state it read first, and goes on with it on another worker |
| `pending_head` | "a new head whose next points to wait_set" | after two appends during one pass the new head is two links away; the assertion ends the program |

These are also the reason for the instances of `runtime`. Waits and yields that set a
context aside are checked with one worker and one blocking task, where the context
that resumes another is a work loop; with two workers the waiting task runs among
non-blocking ones. The programs await the events of their non-blocking scopes.

Some behaviour of the code is kept out of the instances or the properties because nothing can be
promised of it:

* a NULL among the futures that do not fit inside a task ends the list, so that the
  futures behind it are not awaited (`hclib-promise.c:184`); a vector that starts with a NULL is not awaited at
  all (`hclib-runtime.c:546`). The run `cppapi` has both, and `AwaitsAll` leaves them out;
* `shmem_int_wait_until` frees its promise when it sees it satisfied, which a put that has set
  the flag and not yet closed the list still uses (`hclib_openshmem.cpp:887`);
* a scope that is ended without blocking is taken out of its parent at once, so that
  a program that does not await its event may end before its tasks do
  (`hclib-runtime.c:1298`);
* a task at a locale that only pop paths visit can be taken by the worker that pushed
  it alone (`hclib-locality-graph.c:785`);
* the flat one-dimensional loop counts its tiles from zero and runs past its upper bound
  when its lower bound is not a multiple of the tile (`hclib.c:322`); `high + low` of a split
  may overflow, and a split may start its upper half off the stride (`hclib.c:168`);
* a default tile is written into the caller's array of domains (`hclib.c:457`);
* a path for a worker beyond `HCLIB_WORKERS` is written past the array of paths
  (`hclib-locality-graph.c:301`);
* the backlog of a worker is the difference of two indices read one after the other and
  may come out negative (`hclib-locality-graph.c:754`);
* tasks at the interconnect's locale may run in another order than they were spawned, so two
  sends with one tag or two collective futures may be exchanged (`hclib_mpi.cpp:234`), and
  MPI is initialised for calls of the main thread only (`hclib_mpi.cpp:81`);
* a condition on remote memory is polled, and a value that holds for a moment only may be
  missed (`hclib_openshmem.cpp:793`);
* the gather of the C++ atomic class starts from the default value, which every slot
  started from too (`hclib_atomic.h:131`), and an update function that blocks may go on on
  another worker with the slot of the first (`hclib_atomic.c:37`);
* `hclib_free_at` frees at once, while copies of the memory may be waiting
  (`hclib-mem.c:148`); the programs wait for their operations first.

Bounds. The ring of two slots wraps twice with indices to 4, and a slot is full,
reused and emptied under two thieves that can each hold a stale `head`. Two workers
let one put a promise while the other registers on it or walks a list that leads to it,
and the tasks make wait lists of length three whose members travel in opposite
directions. Four operations are one more than it takes for two appends to meet one
removal. The scheduler's programs have six tasks, scopes three deep, and every order of
two independent instruction sequences. `MaxCtx` is as large as the programs can use: no
action is disabled for the lack of a context. Loops have up to eight iterations a
side, below, on and above the tile, empty ones and negative bounds among them; the chunks
of three dimensions are limited to four, which is enough for each dimension to be cut.
Two PEs suffice for a lock to move between PEs while two tasks of one of them are
chained, and for puts of one to be on their way when the other enters the barrier. Three workers
are one more than the tasks that meet on one. Symmetry is used in `deque` only, which
checks no liveness: thieves and tasks are interchangeable.

Fairness. `deque_live`: a store buffer drains, an operation in progress goes on, and
thieves keep stealing (the loop in `find_and_run_task` ends only with a task or the end
of the program); starting a push or pop is left to the program. `promise`: a
worker inside spawn or put goes on. `pending`: an append and the polling task go on;
completion of an operation is up to the library. `runtime`: a worker that can take a
step takes one, since threads are scheduled by the operating system and a searching
worker visits all deques in turn. `locality`: likewise for the search of each worker. `cppapi`: some task that
can go on does, and the program puts the promises it made. `shmem`: each task and
the interconnect worker go on with a call they can go on with, and the network
delivers. `modules`: the main task goes on, and so does each worker. Nothing is
assumed about who wins a race.

## 4. The proofs

`DequeProofs` proves, for every capacity, every set of tasks and thieves and every
bound on the indices (`ConstantsAssumption`: the capacity and the bound are natural
numbers, the capacity not zero, the owner is not a thief, NULL is not a task):

* `DequeInvariant`: `Spec => []IInv`;
* `DequeTypeOK`, `DequeWindowSound`, `DequeCasTakesOldest`: the invariants the run
  `deque` checks;
* `DequeImplementsTaskDeque`: the refinement.

The three invariants are not inductive. `IInv` adds: `OwnerInv`, what the owner knows at
each step of a push or pop (the room that the size check found is still there, because
`head` only grows; in the race for the last task, `tail` is the `head` the owner read and
the store has drained; before the reset `tail` is one behind `head`); `VisibleInv`, the
`tail` that thieves can read is never beyond the tasks in the deque, which is what the
fence of `deque_pop` is for; and `ThiefInv`, a thief whose `head` is still current saw a
deque that is still not empty. The refinement maps the window `head .. EffTail - 1` of
the ring to a sequence. `EffTail` corrects `tail` for a pop under way, so that the owner's
pop takes effect where it decides: when it finds more than one task, with its CAS, or
when it finds none. All other steps leave the sequence alone.

The argument about the ring is in `SlotsDistinct`: two different indices less than the
capacity apart are different slots.

`ForasyncProofs` is about `CppSpec`, the specification the run `cppapi` checks, which has the loops of
the C and of the C++ interface (`CInterface`: the behaviours of `Forasync` are among its own). The calls
are any set of calls of one to three dimensions with any integers as bounds and tiles (`ForasyncAssumption`),
that pass the futures their signatures allow, NULLs among them (`CallsAssumption`; what `AwaitsAll` says of a vector
it says under `WellPassed`). It proves:

* `LoopPartition`: `Partition` always holds, for the calls that are `Whole`;
* `LoopAwaitsAll`: `AwaitsAll` always holds, for the calls that are `Tiled`;
* `LoopImplements`: under `Whole`, the initial states and the steps are those of `ParallelFor`, so that
  no iteration is run twice and the event is put when the last was run and not before.

`Tiled` says that a flat loop which is not empty has positive tiles; with a tile of 0 the program stops at a
division and with a negative one the loop that spawns the chunks does not end. `Whole` says in addition that the
strides are 1 and that a flat loop of one dimension starts at a multiple of its tile that is not negative. Both conditions are needed:
otherwise `Partition` is false, the loop runs past its bound (section 3) or a split starts its
upper half off the stride. Recursive loops may have any bounds and tiles. The instances of the run have loops with other strides whose
splits happen to fall on the stride; those are only model-checked.

`Partition` is not inductive, because what a task cuts off is disjoint and complete only if its box
has the shape of the call. `IInv` has `TaskInv` (the tasks have boxes of the call's dimension, and `counter` is the
number of tasks that have not returned), `FlatInv` (the task that cuts a flat loop keeps a `Rest`:
the domain with a greater lower bound, in one dimension still a multiple of the tile, and has nothing left when it returns), `WaitInv` (a task
waits for the futures of the call, and those of a task that has returned are satisfied), `AsyncInv`, `UnitInv`
(strides of 1) and `Partition`. The arithmetic is in lemmas of its own: `MidInside`, `HalvesOfLoop` and `HalvesOfBox` (the halves
of a box, also when the bounds are negative and the division truncates upwards); `TilesOfLoop` (the tiles of a loop
partition it, the last one cut at the bound), `SlabParts2D` and, with `Table`, which counts the cells of a table row
by row, `SlabParts3D` (the chunks of a slab); `NextMultiple` and `WithinBound` (the turns of the
one-dimensional loop). `Handed` says what a step of a task has to hand on, `StepKeeps` that a step which does keeps
`IInv`, and `HalfHanded`, `SlabHanded`, `TileHanded` and `LastHanded` that the loop functions
do. `AsyncFacts` goes through the functions of `hclib-async.h` by the futures they take: what they await is
`Waited`, and `AwaitedDeps` says that this is every future of a vector that is `WellPassed`.
For `LoopImplements`, `RanInv` adds that what was run is in the domain, and is the whole of it once
the counter is 0: an iteration is then in the box of a task that has returned.

`Chains` defines `Chain(next, x)`, what is reached from `x`, as the smallest set that
contains `x` and is closed under `next`, so that no induction is needed to reason
about it: `ChainUnfold`, `ChainPush` and `ChainUnlink` say what reading a link, putting an
element in front and moving a link past an element do to the set. A wait list and the
list of pending operations are such chains. `LeastExists`, a set of natural numbers
has a least one, takes the place of induction elsewhere.

`PendingOpsProofs` proves `NoneLost`, `OnePoller`, `NoUseAfterFree` and `ReportedOnce`
for every set of operations (`PendingOpsAssumption`: NULL is not one). `IInv` adds `ListInv` (the list has no cycle and no
two operations have one successor), `PollerInv` (what a poller has read of the list is
still so, although others append: the links from `prev` to `cur` and from `cur` to
`rest`), `NotifyInv` (an operation that was unlinked is in the hands of one poller) and
`ResponsibleInv` (there is one poller, or an append about to start one, exactly when the
list is not empty). The last is what makes the others inductive: two pollers could unlink
neighbours and lose one. `Alone` draws the conclusion for each step.

`PromiseProofs` proves `OnePlace` for every set of workers, promises and tasks with any
futures, NULLs among them. `DepsBeforeRun` and `NoUseAfterFree` are proved for tasks
whose futures are usable (`UsableFutures`): `is_eligible_to_schedule` looks at the first only, and
the loop over those that do not fit inside the task stops at a NULL, so without the
condition both are false; the instance of the run satisfies it (`MCPromise`). `IInv` describes where a task is
(`PlaceInv`), that the lists are lists (`ChainInv`), that a task has left behind only
closed lists and waits on the list of its `waiting_on_index` (`IndexInv`), that a
list is closed after `satisfied` is set and that after the datum (`ClosedInv`), and what a
worker knows at each step of a put or a registration (`WorkerInv`).

`RuntimeProofs` proves `CounterExact`, `FinishJoins`, `RunOnce` and `ScopeCorrect` for any
number of workers, any finite sets of tasks and scopes, and every program of spawns (with
or without a future), puts and nested blocking scopes. `SpawnJoin` says what these programs
are: an end belongs to a start of the same task, every scope is ended, and a task is spawned by one
instruction at most. Programs with waits and yields are outside, because of the finding of
`runtime_defunct` (a context that still has work is destroyed, and `RunOnce` and the
counters with it), and so are scopes that end without blocking, where the launch may return
first (section 3). `MCRuntime` has TLC check that the programs of nested scopes are of this kind. The
invariants are not inductive: that a counter is exact depends on who will check out, hence
on where every task is and in which scope its text says it is. `IInv` has `StackInv` (the
frames of a worker alternate between tasks and the end-finish each is in), `QueueInv` and
`TaskInv` (a task is in one deque, one wait list or on one stack, and started once), `TextInv` (what has been
spawned and started is what the tasks have passed in their text), `ParentInv` (from every scope one comes to the
root: a set of scopes that is closed under `parent` and not empty contains it), `ScopeInv` (the
scopes that are open in the text of a task are open, and `current_finish` is the innermost),
`RootInv` and `CountInv`. The action lemmas (`RunIInv`, `AsyncIInv`, `PutIInv`,
`StartFinishIInv`, `EndFinishIInv`, `HelpReturnIInv`, `TaskReturnIInv`, `ExitIInv`) have a
step for each of these. `RootLast` concludes that the root scope is empty only when all
tasks are done: otherwise take an unfinished task and climb from its scope.

`ModuleServicesProofs` proves `ServedByOwner`, `AbortJustified` and `StatesKept` for every set of
workers, every sequence of loaded modules, every graph and every program whose calls name
locales of the graph (`ModulesAssumption`, `SetupsAssumption`, `ProgramsAssumption`). The lists of functions,
the locales and the statics of the modules hold numbers of types, which depend on the
order of loading, and the properties speak of names. `IInv` says which name a number stands for
(`NameInv`; types are only added at the end, so that no number changes its meaning,
`AddTypesGrows`), that a function found in a list was put there by a module that is initialised and owns
the type, and that a module that is initialised finds its own (`ListInv`), that a module registers once
however often it is loaded (`RegInv`), that a communication module which is not yet initialised has looked up no
locale (`NicInv`, so that only the number of interconnects can make it give up), and how the states of the modules lie in the
workers (`StateInv`). `FoundOwner` is the result the calls use: what a list has for a
locale is the one owner of the locale, and nothing exactly if it has none.

`ShmemProofs` proves `LockExclusion` of `MpiSpec`, the specification the run `shmem` checks, for any finite
set of PEs, any tasks and locks, and every program in which a task clears the locks that it
has set, sets no lock of a chain twice without clearing it in between, and is started
once (`ProgramsAssumption`; a task may hold locks of several chains). Without the condition the property is
false: `shmem_clear_lock` puts the promise in `live` whoever calls it. The calls that set
locks are the places of a chain; a place is active from `shmem_set_lock` until its promise is
put, and free when it waits for no other. `LockInv` has `Control`, `BusyInv` and `ThroughInv`
(where a task is in its code, and which call the interconnect worker executes); `Chained`,
what the order in which `last_lock` is exchanged gives (`WaitInv`: each place is waited for by one
other at most, and nobody waits for the last; `LastInv`, `EndInv`: `last_lock` is a place of its chain, and its
promise is not put as long as the chain has a free place, so that a new place waits;
`SatisfiedInv`: a promise that was put belongs to a place that is over; hence `OneFree`: a
chain has one free place at most); and `Held` (`LiveInv`, `GrantedInv`, `PutInv`: the promise in
`live` is that of the place whose `shmem_set_lock` returned, until the task that clears the lock takes
it away to put it; `OwnerInv`: the PE of a task that was granted a lock owns it). Two holders of a lock are
then tasks of the PE that owns it, hence free places of one chain, hence the same.

It also proves `TicketsDistinct` for every program that only adds to its counters (`Counted`: no
put, get, swap, collective call or receive writes where a fetching add does, and what is added
is positive; values are integers without bound). `MCShmem` has TLC check that the programs of the run but one are of this kind; the
other puts to its counter first. `TicketInv` counts the result that the library has left for a task which was
not resumed yet as that task's next ticket, so that the resumption changes nothing: a ticket is less than its counter
(`DistinctInv`), what is on its way to a counter is an add (`CounterInv`), and no request receives into one
(`RequestInv`). A new ticket is the value of its counter, hence greater than all others.

`BarrierCompletes` is proved for every program that makes its collective calls in step (`InStep`): one task
of a PE makes them all, at the interconnect locale, the n-th collective call is a barrier on all PEs or on
none, and a task that puts on the contexts of workers uses the barrier of SOS, which quiets them. What is
true of one PE at a time has to be carried over to the others: `RoundInv` ties the calls that a PE has entered
(`entered`) to the position of its task and says that a task has returned only from rounds that every PE has
entered; `TurnInv` says which contexts a barrier has quieted when it is posted; `MessageInv` says that a
message on its way was sent after the last barrier that its task has entered, and not on a context that its
task has quieted since. `NicEnterRounds` is where these meet: a barrier of the library is entered with nothing on the
default context and, for the barrier of SOS, with every other context in `turn`. If a task had passed more
barriers than the sender of a message had made before it, the sender would have entered one after the
message (`BarrierImplies`).

`SignalAfterData` is proved for every program whose signals have a place of their own (`OwnSignals`: no other call,
collective call or receive writes there, and the signal differs from what is there at first). `ThereInv`, which
implies the property, is inductive only with `BehindInv`: what is on its way to the place of a signal is that
signal, and data of the same call that is still on its way has a smaller epoch, which is what `shmem_fence` between the two
puts gives and what `Deliver` respects; with `SentInv`: a call that was not executed has no messages; and with `ReceiveInv`: no
receive of MPI writes to the place. `MCShmem` has TLC check that all programs of the run meet both conditions.

Only model-checked:

* all liveness properties, since TLAPS does not reason about fairness;
* `OneHandle`, `ResumedWhenReady` and `DefunctDestroyed` of `Runtime`, which are about waits and yields
  and hold for the programs of the instances only;
* `GatherExact` and `DataDelivered` of `ModuleServices`, `Combined` and the other sums: a fold over
  a set of any size is defined by recursion, and what it computes is out of the prover's reach;
* loops with other strides than 1, and that a loop ends (the fairness of `ParallelFor`);
* `Locality`, whose graphs are read from concrete files and whose paths are sorted and folded;
* `ResultsDelivered` of `Mpi`, whose expected values are given with each program.

## 5. Not modelled

Instrumentation, statistics and timers (no decision depends on them); the memory tree, which no
code calls; `hclib_run_on_main_ctx`, which only passes a function to the context of
worker 0 and asserts that no other is under way; the vendored context switch and JSON
parser; CUDA kernels and streams, whose completion goes through the list of `PendingOps`;
UPC++ and OpenSHMEM-AM, whose calls have the form of those of `Shmem` and whose
messages are delivered by the library. Overflow of the deque's indices after 2^31 pushes
and the assertion on a full deque are outside the models. The deadlock of
`test/deadlock`, in which a blocking task runs on top of the frames it waits for, is a
known limit of the scheduler; the programs of the runs have one blocking task. Programs
that hold two locks, or a lock across a barrier, can block the interconnect workers for good,
as they can with the library itself. With the module two locks suffice even if no task holds both: the
interconnect workers of two PEs can each be inside `::shmem_set_lock` for the lock that a task of the other PE
holds, and then neither executes what would release it. `AllCallsReturn` is checked for programs with one lock.

## 6. Plan

All modules of the plan are written, and the safety properties of `Deque`, `PendingOps`, `Promise`,
`Forasync`, `CppApi` and `Shmem`, the accounting of finish scopes in `Runtime` and the structure of
`ModuleServices` are proved. What is left are proofs, in this order:

1. `Runtime`: `IInv` for programs that wait and yield, and from it `OneHandle` and `ResumedWhenReady`;
2. `Locality`: `PrivateTasks`, with the paths as an assumption about the graph;
3. `Mpi`: that a receive gets the message of the send that it was matched with, in the order of both.
