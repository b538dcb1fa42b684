# A TLA+ model of the subscript runtime

subscript is an embedded scripting language with a TypeScript-subset syntax. A
program is parsed, checked, lowered to HIR and then to LIR, and run by one of
three tiers: a Cranelift JIT with hot reload (development), C emission (ship) and
an interpreter (reference). The tiers share one runtime, and the runtime is where
state lives: Contexts, traps and exceptions, coroutines and their scheduler, task
groups, host operations, workers and memory.

This directory models that state. The compiler passes are sequential functions
from one program to another; what they promise matters here where generated code
relies on it at run time: the protocol of coroutines, and the plan by which the
values of a function share the slots that the collector scans.

## 1. The system

| Part | State | Operations | Interacts with |
|---|---|---|---|
| Async scheduler (`runtime/src/context/async_scheduler.rs`) | registered frames with count, completion and waiters; ready queue; parked list; stopped frames | register, retain, release, park, await, start, kick, step, complete, result | generated coroutines, traps, exceptions, groups, host operations |
| Generated coroutines (`codegen/src/lower/func/coroutine.rs`, `func.rs`) | state word, child slot | create, suspend, await, resume checks, unwind exit | scheduler, reload epoch |
| Traps (`runtime/src/context/lifecycle.rs`) | trap word, trap record, trapping job | trap, clear_trap | everything that runs script |
| Exceptions (`runtime/src/exception.rs`) | pending exception, cached completions | raise, catch, settle, complete an async body | traps, scheduler |
| Task groups (`runtime/src/context/task_group.rs`) | inputs, remaining, failures, join | create, add, join, scope end, react | scheduler |
| Promise.all (`async_scheduler.rs`) | inputs, remaining, reported | create, react | scheduler |
| Host operations (`runtime/src/context/host_operation.rs`) | operation ids, producer counts | create, three completion calls | scheduler, host |
| Workers (`runtime/src/worker.rs`) | threads, two queues each, outcomes | spawn, post, poll, wait, close, join, shutdown | reload, Context drop |
| Hot reload (`codegen/src/reload.rs`) | code table, loaded modules, epoch | call, reload, drop | scheduler, workers |
| Host boundary (`lifecycle.rs`, `ffi/callbacks.rs`, `cemit/emitter.rs`) | host-entry flag, script depth | export, step, fire a callback, clear the trap | traps, exceptions |
| Callback registrations (`runtime/src/registration.rs`) | live records, active calls | register, release, fire | host boundary, memory |
| Context memory (`runtime/src/context/memory.rs`, `lifecycle.rs`) | headers, chunks and free lists, retained allocations, literal table, RegExp store | alloc, intern, delete, mark, sweep | roots of script and registrations |
| Associations (`runtime/src/assocops.rs`, `lower/func/iterator.rs`) | entry vector with holes, bucket index, iteration depth | get, set, delete, clear, loops, set algebra, copy | memory, traps |
| Root storage (`codegen/src/root_storage.rs`, `lir/liveness.rs`, `lir/verify_*.rs`, `lower/func.rs`) | live intervals, slots of the shadow frame | verify, plan; store, read, clear, raise, branch, return, unwind | the collector's roots |

What makes these hard is order. A frame is reachable from several places (a
script variable, its own queue entry, an awaiting frame, a group, the host), and
each of them can end first. A trap can interrupt any step and the host decides
later whether to clear it. A reload makes every existing coroutine stale between
two checkpoints. Host completions arrive early, late, twice, or in the middle of
a host call that script makes. Workers are real threads that sleep, spawn workers
of their own and run code that the session wants to replace. A freed block is
handed out again, while tables keyed by its address, free lists threaded through
its payload and stale handles still name it. A loop body changes the container it
runs over. A raise leaves a block in the middle, with slots in use that no other
edge out of the block would carry.

`PROJECT.json` lists every component, including those not modelled, and the
hazards with the line at which each one bites.

## 2. Modules

| Module | What it is |
|---|---|
| `AsyncRuntime` | The Context record and the runtime functions on it, as operators from Context to Context. |
| `AsyncScheduler` | Script, host and drain actions over that Context: the scheduler with generated coroutines, traps, exceptions and reload. |
| `TaskLifecycle` | The abstract specification: the inspection states of a task and the steps between them, without queues, counts or traps. |
| `AsyncSystem` | `AsyncScheduler` composed with task groups, Promise.all and host operations. |
| `Workers` | Worker threads, their queues and lifetimes, with the reload session. |
| `HostBoundary` | Host entries, callback trampolines and registrations over an explicit C stack. |
| `Heap` | The abstract specification of managed memory: live allocations, what they hold, reachability. |
| `ContextMemory` | The allocator in its three modes, the retention window and the mark-and-sweep collector. |
| `OrderedCollection` | The abstract specification of a Map or a Set with the loops that run over it. |
| `Associations` | The entry vector with its open-addressing index, packing, growth, failing allocations and generated loops. |
| `RootStorage` | The LIR verifier's rules, liveness, interference and the slot plan of a function, and the function running over its slots. |
| `MCAsyncScheduler`, `MCAsyncSystem`, `MCWorkers`, `MCHostBoundary`, `MCContextMemory`, `MCAssociations`, `MCRootStorage` | Small instances for TLC. |
| `AsyncInvariants` | The inductive invariants of `AsyncScheduler` and the relations between Contexts that its proofs use. |
| `AsyncSchedulerProofs`, `AsyncPlacesProofs`, `AsyncHoldersProofs`, `AsyncScriptProofs`, `AsyncOwnershipProofs` | Theorems about `AsyncScheduler`, each module resting on the one before: types and exceptions, where a frame is, who holds it, the steps of script, the steps of host and drain with the theorems of ownership and the refinement of `TaskLifecycle`. |
| `WorkersProofs`, `HostBoundaryProofs`, `ContextMemoryProofs` | Theorems about the other components. |

### How the state corresponds

`ctx` is the Context struct as far as the async machinery owns it. `ctx.meta[f]`
is the `AsyncFrameMeta` of the frame at address `f` together with the count word
of its header; kind `"none"` is an address that `async_frames` does not hold. A
member of `Frames` that is registered again after it was freed is an allocation
that reuses the address, so every property also covers address reuse.
`ctx.word` is the word at offset 0 of the Context, which generated code tests;
`ctx.trap` is the trap record and `ctx.trapping` the job that
`clear_trap` handles.

`stack` is the native stack reduced to its activations: which frame runs and
which of `async_start`, `async_kick` and `async_drain` resumed it. `state` and
`slot` are the state word and the saved child handle of a frame. `held` counts
what script variables own. `dirty` is a history variable: the frames whose body
ran on from its last suspension.

A script body is any sequence of the script actions. That over-approximates
every program the compiler accepts, so an invariant of the model holds for all
of them; the runtime functions are exact.

In `Workers`, a node is a Context with the thread that drives it. Every queue
operation holds the queue's mutex and is one step. A sleep on the condition
variable ends only by a notification. `sent`, `got` and `lost` are history.

In `HostBoundary`, `stack` is the C stack: exports, scheduler steps, fired
callbacks and foreign calls. Script runs while a script frame is on top; the host
runs on an empty stack or in a foreign call, and there it may enter script, fire
a callback, release a registration or clear the trap. A frame keeps what its
return needs: whether it raised the host-entry flag, the registration it came
through, and whether it has read a raised trap word and is unwinding. The host
brackets an export or a step with `enter_script` and `exit_script`, as the
tutorial tells it to; a fired callback has no such bracket. Memory is reduced to
which userdata objects are live and which of them script still reaches.

In `ContextMemory`, an address is a block of a chunk, named by the chunk and its
place in it, or one that the system allocator returned. `state[a]` is the header
word. `word[a]` is the payload, one word of it: what an object holds, or the
free-list link of a dead chunk block. A string's word is whatever its bytes look
like; the marker must not follow it. `config` is chosen once: the ship mode with
its arena, and the exact-size modes without and with diagnostics of freed
handles. `collect` is several steps, one for each word off the work list and each
block swept, although no script runs in between: the invariants then speak about
the inside of a collection too. A use through a stale handle is undefined outside
diagnostics and script makes none there.

In `Associations`, `entries` is the ordered vector, an inactive entry is a hole,
and `buckets` holds entry numbers, `EMPTY` or `TOMBSTONE`. `Hash` is a constant.
A loop has the position of its cursor. Every allocation may fail, which traps and
unwinds the loops. `outcome` records how the last step ended, so that the
refinement can compare answers.

In `RootStorage` the state is one function that the verifier accepts, its plan,
the place that runs, the meaning of each SSA name (`env`) and the shadow frame
(`slots`). `env` is what the form says; `slots` is what the generated code does.
Every run of a definition makes a value different from the one before, so a slot
that kept an old value is seen.

### What is abstracted

Result bytes, positions, messages and record contents. A completion is none, a
value or an exception; a queue record is its number. `created_epoch` is kept as
the result of its only comparison, `stale`. Payloads are one word and sizes are
powers of two. A group of interfering values is the set of its members, where the
code keeps the merged intervals and rule memberships of them. Types of LIR values
are three: no managed words, a managed scalar, and an aggregate held by address.

## 3. Runs

| Run | Instance | Question |
|---|---|---|
| `scheduler_safety` | 3 frames, counts to 2, budgets 1 and unlimited | Is a frame in exactly one place, counted, freed when nobody holds it and never before, is every exception reported, and does each step implement `TaskLifecycle`? |
| `scheduler_replay` | 2 frames | Does clearance stop an interrupted frame for good? (It does not, see below.) |
| `async_tasks` | 3 frames; programs with one group, with aggregates of up to 2 inputs, and with 2 host operations | Every order of add, join, completion, exception, drop and scope end; aggregates, also empty, of one handle twice and of aggregates; completions early, late, twice, dropped, under a trap, across a reload. |
| `async_liveness` | 2 frames, 1 group of 1 input; budget 1, and unlimited where no group meets an exception | Is every ready or parked frame resumed or stopped by its own trap, and does a join settle once its inputs have completed? |
| `worker_tree` | 2 workers, 2 messages, 1 reload | Delivery once and in order, also past a failed receive; no code freed or replaced under a worker, no orphan, no silent failure. |
| `worker_liveness` | 2 workers, 1 message | A message wakes a sleeper, joins return and the release of a session ends. |
| `host_boundary` | 2 registrations, 2 userdata objects, 5 C frames | Is there one host entry at a time, does a registration live as long as its calls and no longer, and does no exception reach C code? |
| `host_boundary_clear` | 1 registration, 1 object, 3 C frames | Is clearance refused while a script frame is live? (It is not, see below.) |
| `context_memory` | 5 configurations: two chunks, a chunk beside a large block, exact sizes, two diagnostics budgets | Do free lists, retained queue and byte counts balance, do the side tables follow the storage, and do allocator and collector implement `Heap`? |
| `associations` | 3 keys on two hashes, 2 values, 2 nested loops, 2 operand sets | Is lookup exact in every state, and does the storage implement `OrderedCollection`? |
| `root_storage` | about 8300 functions of 2 to 5 blocks | Does every read find its value although slots are shared, and does no slot keep a value the program is done with? |
| `root_storage_edges` | one loop that swaps two aggregates | Does each parameter take the argument of the edge? (It does not, see below.) |

### Bounds

Three frames give a chain of awaits, two waiters of one handle, and one frame
that is unrelated to the other two. Two counts per handle are needed for a
handle that is copied and dropped while it is awaited. A budget of one dispatch
puts a checkpoint boundary after every job; an unlimited one drains. Two inputs
distinguish the first failure from the last reaction; `async_liveness` has one,
since its second frame is the join and a group of two inputs would never have
both pending. Two workers are siblings
or parent and child. Two messages over all queues make an order in one queue,
a loss before a delivery or after it, or a message each way. Five C frames are an entry, a foreign call, a callback, a
foreign call in it and a second callback, through the same registration or the
other one.

An `AsyncSystem` program is a set of features, chosen in the initial state; the
sets of `async_tasks` are what groups, aggregates and host operations each need,
because one program with all of them is out of reach. Groups and aggregates run
under exceptions, aggregates also with copied handles, operations once with
exceptions and traps and once across reloads. `"drain"` is a host that steps
without a budget. Two blocks in a small
chunk and one in a large chunk make free lists longer than one link, a full chunk
and a new one; three live allocations make a chain in which the middle is
deleted. One diagnostics budget refuses a large block outright and evicts for
small ones; the other does not retain small payloads. An order capacity of two
and a bucket capacity of four put growth, packing and a rebuild of the index
within four entries, and two keys with one hash next to a third make probe chains
that cross. The functions of `root_storage` are all choices of operands and
arguments, among the values in scope, in six shapes: a join, a loop with two
carried values, a protected call, two protected calls with a landing block each,
a protected call that a loop retries, and an address used in a later block.
Functions that the verifier rejects are dropped.

Symmetry is used where the frames, workers, values or system addresses are
interchangeable, and never in a run with a liveness property. `MaxHeld`,
`MaxInputs`, `MaxOperations`, `MaxPosts`, `MaxReloads`, `MaxStack`, `MaxLive`,
`MaxTabled`, `MaxRoots`, `MaxEntries` and `MaxLoops` are the only counters that
are cut off.

### Fairness

`FairSysSpec` assumes that script bodies end, that a checkpoint
which has begun goes on, and that the host keeps clearing traps and stepping.
The last two are what an embedding loop does; the first is needed because a body
that never suspends blocks its thread. Strong fairness is used for the ends of
bodies and for the host's steps because other steps disable them in between.
Reloads are left out of the liveness runs: a stale frame stays ready and reports
again on every step, so a program that is never re-entered makes no progress by
design.

`Workers!FairSpec` assumes that threads are scheduled and that an entry which
does not block returns. The liveness properties are checked with
`Orderly = TRUE`: script closes a worker before it joins it. Without the close a
join of a sleeping worker blocks, which the language leaves to the script.
The worker runs do not check deadlock, because a system of threads that have all
ended, or that wait for each other as just described, is a state the program
can be in. `root_storage` does not, because a function that returned has no next
step.

### Findings

`async_scheduler.rs:608` says that clearance stops a trapped frame permanently,
except for reload staleness, and that a stale frame remains ready.
`await_async_handle` raises the same trap kind in the middle of a body when the
*awaited handle* is stale and the body's own frame is not. `clear_trap` decides
by the kind alone, keeps the job, and the next step resumes the body from its
old state word: what it did before the await happens again. `scheduler_replay`
reaches that state.

`lifecycle.rs:638` says of clearing while a script frame is live that
`script_depth` is the check, and `docs/tutorial-c-cpp.md:767` that the call then
refuses. `fire_callback` never moves the depth. A callback that C fires from the
host loop, outside any entry, runs at depth 0, so a foreign function under it can
clear the trap with the callback's frame on the stack; the frame then reads a
lowered word and goes on. `host_boundary_clear` shows it. Under an export or a
step the refusal does hold (`ClearsOutsideEntries`, proved).

`docs/tutorial-c-cpp.md:77` says that a value class is copied on assignment, and
a test (`codegen/tests/cemit/operations.rs:709`) asserts that a swap of two
locals in a loop gives the swapped values on both tiers; the test swaps integers.
In the development tier the branch argument of a managed aggregate is the address
of its root slot, and `emit_graph` stores the parameters of the target one after
the other (`lower/func.rs:581`). Storing the first parameter of a swap overwrites
the slot from which the second is then copied, and both end with one value. The C
tier orders its edge copies and breaks a cycle with a temporary
(`cemit/terminator.rs:195`). `root_storage_edges` shows the loop; `root_storage`
shows that edges with at most one aggregate are right.

Two observations that no run states. A generated loop over a Map or a Set raises
the iteration depth of the container (`lower/func/iterator.rs:66`) and nothing
lowers it, so a container that was looped over once never packs its holes again;
`Associations` has that behaviour, and contents and order do not suffer from it.
An entry added after a `clear` in the body of a loop lands behind the cursor and
that loop passes over it, where `specs/blocks/collisions.md:450` says that an
append during the loop is visited; `OrderedCollection` allows it for a loop whose
collection was cleared, and for no other.

## 4. Proofs

TLC checks the instances above; the theorems hold for all values of the
constants, from the `ASSUME`s of the modules only: the set of frames is finite,
`None` is no address, `MaxHeld` is positive, a limit is positive or unlimited;
`Root` and `None` are no workers and the worker bounds are naturals; `Null` is no
address and no record; chunks and blocks are numbered from one and system
addresses are no chunk blocks.

- `TypeCorrect`. The inductive invariant adds `Good(ctx)` to `TypeOK`: every
  registered frame of this module is an invocation, and a trapped Context has a
  trap record. Both are needed where a trapped resume records the kind of its
  trap and where clearance handles the recorded job.
- `BoundaryHasNoException`, `UnobservedIsReported`, `ExceptionIsKept`. The
  invariant `ExceptionInv` adds to it that an address which is not registered has
  no completion and that only a completion is observed (`Clean`), that every
  activation but the outermost was started by a call (`Shape`), and that no
  script is on the stack between host entries (`Framed`). The runtime functions
  are composed in each action, so the step argument uses one relation, `Keeps`
  (an unobserved exception stays cached or the Context is trapped), that each
  function satisfies and that composes.
- `PlacesAreExclusive`, `CountsAreExact`, `AwaitsFindTheirHandle`. The invariant
  `OwnInv` adds `Owned` to `ExceptionInv`, and its parts need each other. `Rest`
  says that an unfinished frame is in one of five places, once (`Place`), that a
  waiter waits for the unfinished handle its child slot names (`Waiting`), and
  what a place says of the slot, the epoch and the history of the frame (`Fine`).
  `Balance` says that the count word covers the holders (`Need`: script, the frame
  itself while it will run, the frames that await it) and equals them while nothing
  was stopped or invalidated. The places alone are not inductive: a frame may only
  be freed when nobody refers to it, which is what the counts show; and the counts
  are not, since a release is paid by the holder whose place it was. `Trapping` is
  needed where clearance stops the frame at the head of the queue. An action
  composes runtime functions on intermediate Contexts in which one frame is in no
  place (`Placed` with a set of absent frames) or one count has no holder (`Plus`,
  `Minus`), so the lemmas are about single Context values and compose: a function
  that moves no frame is `Tame`, one that moves f satisfies `Moves` for the places
  and `Shifts` or `Settles` for the holders.
- `FollowsTheLifecycle`: the scheduler implements `TaskLifecycle`. In a state of
  `OwnInv` the inspection state of a frame is its place (`StatusAgrees`), so a
  step of the scheduler is a step of the lifecycle if it moves frames between
  places as `Flow` says: a frame that does not run is finished by nobody else, a
  parked one stays or becomes ready, a ready one stays, runs or is stopped, a
  waiter stays with an unfinished handle and is ready once the handle is not, one
  frame starts to run, and the parked list leaves whole. `Flow` is proved of every
  action together with `Owned` (`Flows`), by a lemma per move and `FlowTame` for
  the releases that follow the move. The invariant is needed twice: a place
  excludes the others, so a frame that was ready cannot show as something else,
  and the slot of a waiter names its handle, which is what the lifecycle's
  `awaited` maps to.
- `WorkersTypeCorrect`, `NoWorkerIsOrphaned`, `CodeStaysLoaded`. The invariant
  `Tree` says that a running worker hangs under a running spawner through a
  thread that is not joined, and that the spawner relation has a rank. The rank
  is needed for `CodeStays`: reload looks only at the session's own workers, and
  that is enough because from any running worker the chain of running spawners
  ends at the session, so one of the session's workers is live.
- `QueuesDeliver`, `JoinReportsFailure`. `DeliveryInv` adds, per queue, that the
  queue holds the last records posted, that those received and those dropped are
  increasing, disjoint and together all the others (`InOrder`), that a worker which
  dropped one is trapped and received nothing after it (`DropTraps`), and that a
  worker not yet started dropped nothing (`Fresh`). Each action leaves a queue and
  its history alone, posts at its end, or takes its head (`Moves`).
- `BoundaryTypeCorrect`, `OneEntryAtATime`, `DepthIsExact`, `HostSeesNoException`,
  `TrapHoldsInEntries`. `BoundaryInv`
  adds that script and foreign frames alternate from a script frame at the bottom
  (`Alternates`), that a pending exception belongs to the unwinding frame on top
  (`ExceptionUnwinds`) and that the depth is that of the bottom frame
  (`DepthIsBottom`). Alternation is what lets a foreign return find the frame
  that reads the word; the depth fact is what makes `exit_script` settle.
- `RecordsCountTheirCalls`. `CountInv` relates `active_calls` to the cardinality
  of the frames that run through the record; each push, pop and mark of the stack
  has a lemma on that set. The count being exact gives both directions: a record
  that a frame came through exists when the frame returns, and one that no frame
  runs through has ended if it was released.
- `RecordsKeepUserdata` needs no invariant: the roots are read in the step that
  collects.
- `Implements` and `TablesSafe`. A step of the allocator maps to a step of `Heap`
  only if what it hands out is not live, so `Storage` says that free lists are
  made of dead blocks, none named twice (`FreeListShape`), that blocks beyond the
  watermark of their chunk were never used (`Watermarks`) and that retained
  allocations are dead and distinct (`RetainedDead`). The free-list facts are
  about single links, so no induction along a list is needed. The collection is
  one step of `Heap`, taken when marking ends: the mapping counts the condemned
  as gone from then on (`Survivors`). `Marking` carries both halves of why the
  marked blocks are the reachable ones: what a root or a marked block names is
  marked or on the work list, and every closed set contains all of these.
  `Tables` is what makes deletion and reuse of an address safe for the literal
  table and the RegExp store.

Only model-checked, by the runs above:

- all liveness (`EventuallyResumed`, `ReleaseEnds`, `JoinReturns` and the like),
  which is out of the prover's reach;
- `BooksBalance` and the types of `ContextMemory`, whose byte sums and free-list
  lengths are folds, and the refinement of `OrderedCollection` with
  `LookupIsExact`, where growth reinserts every entry by a fold: what a fold
  computes for every input needs induction over data;
- `RootStorage`, whose sets are fixed points of a dataflow over a given function;
- `NoReplay`, which the code violates;
- `AsyncSystem`, which repeats the count, place and exception arguments of
  `AsyncScheduler` with host operations and `Promise.all`; the proofs cover the
  functions they share.

## 5. Not modelled

Exhaustion of task and operation ids and the wrap of the reload epoch; the
generator `.next()` epoch check; the storage of buffered results; an aggregate
input with another result size; a worker handle that belongs to another Context.
Declaration hashing in reload: the models let every reload that passes the other
guards succeed. Exceptions parked around cleanup hooks, and trap observers.

Memory: payloads of several words, arrays with buffers of their own, task handles
that an unreachable object holds and a collection releases, and the trace of a
collection. Associations: grouping, `forEach` callbacks, counted values, deletion
of a container under a loop, and traversals of arrays and strings. Root storage:
the values that a suspension carries into another block, closure environments
(kept for each value, outside the slots), constants as arguments, storage of
locals whose address is taken, and the variables and edge copies of the C tier.
The verifier compares only the reads of a handler block with the definitions
behind its raise site; the functions of the runs make no such read further on,
and source scopes prevent it.

The rest of the compiler (parser, checker, construction of LIR, C emission, the
interpreter), the binding generator, the command line, and the conversions of
text, numbers and dates have status `not_modelled` in `PROJECT.json`, with the
reason: they are sequential functions over text, trees or floating point, whose
answers are data. They are most of the repository's lines, and a model of them
would restate them.
