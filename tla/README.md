# Verification of the compute runtime

TLA+ models of the concurrent core of the OpenCL compute runtime (`src/runtime`),
TLC configurations that check them on small instances, and TLAPS proofs that hold
for every instance.

## 1. Inventory

The runtime is a user-mode driver: applications call the OpenCL API on any number
of threads, the runtime writes commands into command streams, hands them to the
kernel driver and learns of their completion from a *tag* the GPU writes. It has no
scheduler of its own. Work is carried on by whichever thread comes along, so most of
what can go wrong lies between two threads, or between a thread and the GPU.

| Part | State | Operations | Interacts with | What makes it hard, and correct |
|---|---|---|---|---|
| Deferred deletion (`deferred_deleter.cpp`, `deferrable_allocation_deletion.cpp`) | list of deletions, counter, worker, clients | defer, drain, addClient, removeClient, clearQueue, run, stop | memory manager (destroy), contexts (clients), engines (tags) | the list is emptied by several threads without the mutex: nothing freed twice, lost, or under the GPU; no lost wakeup; blocking drain complete |
| Events (`event.cpp`, `user_event.cpp`, `event_builder.cpp`) | status, parent count, children, task level and count, command, callbacks | setStatus, addChild, unblockEventBy, submitCommand, updateExecutionStatus, waitForEvents, addCallback | queues, receiver, async handler | atomics without a lock; a command is submitted once, after its parents, in queue order; aborts reach the children; nobody hangs |
| Command queues (`enqueue_common.h`, `command_queue.cpp`, `finish.h`, `task_information.cpp`) | virtual event, task count and level | enqueue (blocked or not), isQueueBlocked, finish | events, receiver | checks under the queue's ownership, use after it was released |
| Async events handler (`async_events_handler.cpp`) | register list, own list, thread | registerEvent, processList, openThread, closeThread | events | polls events on behalf of nobody; thread start and stop |
| Linux buffer objects (`drm_memory_manager.cpp`, `drm_buffer_object.cpp`, `drm_gem_close_worker.cpp`, `drm_command_stream.inl`) | reference counts, shared objects, GEM handles, worker queue | flush, push, free, import, unreference, worker, destructor | kernel driver, GPU | last reference dropped by thread or worker; handle shared by imports; worker that sleeps when it is told to stop |
| Command stream receiver (`command_stream_receiver*.{cpp,inl}`, `submissions_aggregator.cpp`) | task counts, tag, batched buffers, residency | flushTask, flushBatchedSubmissions, waitForCompletion, destruction | everything above | waits without the lock; a wait for what was never flushed; merging; memory reused by task counts others are assigning |
| Internal allocation storage (`internal_allocation_storage.cpp`) | temporary and reusable allocations | store, obtain, clean | receiver, memory manager | the list is detached and walked without a lock |
| Reference tracked objects (`reference_tracked_object.h`, `base_object.h`) | API and internal counts, ownership | retain, release, takeOwnership, destructors | every OpenCL object | last reference on any thread; a queue and its virtual event refer to each other |
| Tag allocator and time stamp packets (`tag_allocator.h`, `timestamp_packet.h`, `csr_deps.cpp`) | free, used and deferred tags, their counts, containers | getTag, returnTag, assign and swap nodes, program semaphores | queues, events, blocked commands, several GPUs' contexts | a tag reused while a semaphore waits on it; order across receivers |
| Heap allocator (`heap_allocator.h`) | two bounds, two lists of freed chunks | allocate, free, defragment | memory managers | a long sequence of legal calls; unsigned arithmetic |
| Host pointer manager (`host_ptr_manager.cpp`) | stored fragments with counts and buffer objects | prepareOsStorageForAllocation, releaseHandleStorage | memory manager, temporary allocations, GPU | overlaps; saved pointers into a map; freeing by other threads; abort |
| Map operations (`map_operations_handler.cpp`) | mapped ranges | add, find, remove | memory objects | a short list behind a mutex |
| WDDM residency (`wddm_residency_controller.cpp`) | trim candidates, fences | makeResident, trim callback | kernel driver callbacks | a callback against a submission |
| Kernels, programs, memory objects, compiler interface, platform, sharings, AUB/TBX, built-ins, GTPin, offline compiler, generation code | mostly data | translation, validation, queries | | sequential; left to tests |

`PROJECT.json` lists all of them, the hazards at their lines, and which property
covers which hazard.

## 2. Modules

| Module | Models | Instances |
|---|---|---|
| `DeferredDeleter` | DeferredDeleter with its two users | `MCDeferredDeleter`, `MCMultiContextDestructor` |
| `DeletionService` | what its callers rely on: an abstract specification | |
| `DeferredDeleterRefinement` | the mapping that shows the first implements the second | used by both instances |
| `DeferredDeleterProofs`, `DeferredDeleterRefinementProofs` | theorems about `DeferredDeleter`, and that it implements `DeletionService` | |
| `EventTree` | events, enqueue, blocked commands, finish, waits, callbacks, async polling | `MCEventTree` |
| `ObjectLifetime` | reference counts, destructors and ownership of OpenCL objects | `MCObjectLifetime` |
| `CommandStreamReceiver` | the receiver, its batches, residency and allocation storage | `MCCommandStreamReceiver` |
| `CommandStreamReceiverProofs`, `CommandStreamReceiverMemoryProofs` | theorems about task counts, waits and residency; about when memory is freed or reused | |
| `TimestampPackets` | tag allocators, tag containers, semaphores between receivers | `MCTimestampPackets` |
| `TimestampPacketsProofs`, `TimestampPacketsTagProofs` | the control of the threads, the streams and the reference counts; theorems about the places of tags and their reuse | |
| `DrmBufferObjects` | buffer objects, imports, flush and the close worker on Linux | `MCDrmBufferObjects` |
| `DrmBufferObjectsProofs` | theorems about reference counts, deletion, handles and the destructor | |
| `HostPtrManager` | fragments of host memory and the temporary allocations made of them | `MCHostPtrManager` |
| `HeapAllocator` | the allocator of GPU address ranges | `MCHeapAllocator` |
| `HeapAllocatorProofs` | theorems about the ranges it hands out and the requests it refuses | |

The modules meet at the tag and the task counts. `CommandStreamReceiver` is the full
receiver; `EventTree`, `HostPtrManager` and `DeferredDeleter` have the part of it they
depend on (a task gets the next count, the GPU reaches it), with the same names.
`EventTree` and `ObjectLifetime` follow the same calls, once for the order of
submissions and once for the references; a frame of `EventTree` may assume its event
alive because `ObjectLifetime` checks that it is.

Operators whose name has an underscore and a suffix (`ClearPop_Peek`) are deliberate
mistakes in the operator of the same name. No specification uses them: each shows that
a property notices that mistake.

### DeferredDeleter and DeletionService

`queue`, `elementsToRelease`, `doWorkInBackground`, `worker`, `numClients` and the two
mutexes are the members of the class; `held` is the `unique_ptr` of `clearQueue`;
`life`, `usage`, `tag` and `flushed` are the allocations and what the GPU did with
them. A step goes from one access of shared state to the next: `deferDeletion` is
count (under the mutex), push and notify; `clearQueue` is pop, `apply` engine by
engine, then count down or push back; the list operations are single steps because
`IDList` has a spin lock of its own. `stop` and `run` follow the mutex and condition
variable operations one by one, with spurious wakeups. The caller's discipline is that of
the code: an allocation is destroyed once, `removeClient` pairs with `addClient`, and
the destructor is the last call.

`DeletionService` knows only which deletions are pending and freed, which threads are in a
blocking drain, and the GPU. `ImplementsService` maps a deletion to *pending* when
`deferDeletion` has counted it and to *freed* when `apply` has succeeded. The worker makes no
promise of its own, because without a client it is not there; the multi context destructor, whose
callers drain after each deferral, implements `PromptSpec`: everything accepted is freed.

### EventTree

Each thread has a stack of frames, one per active function, because the recursion
`setStatus` - `unblockEventsBlockedByThis` - `unblockEventBy` - `submitCommand` -
`setStatus` of the child is where the interleavings are. A step runs the top frame to its
next access of shared state. `Scenarios` gives each thread the API calls it makes;
their interleaving, the GPU and the async handler are free. Abstractions: a
task level is reduced to whether it is `eventNotReady`; a flush is an entry in
`flushed`, whose length is the task count; there is one receiver, without batching;
queues are in-order; a command buffer's content does not exist. The receiver's recursive
mutex and the queue's ownership are derived from the labels on the stacks. Reference
counts are left to `ObjectLifetime`.

### ObjectLifetime

An object has `refApi` and `refInternal`, and `Holds` says what its constructor retained, in the
order its destructor gives it back. A thread has a stack of operations that each touch one
object; an operation is replaced by those it calls, so that a destructor cascades on the thread
that dropped the last reference, the async handler's included. Events keep their children,
their command (which keeps a kernel or a memory object), their queue and context; a queue
keeps its virtual event. `takeOwnership` is recursive and has a list of waiters. Programs
are the one kind that others retain through the API count, as in the code. The references that a blocked command
takes to the events of its wait list when time stamp packets are on (`task_information.cpp:119`) are in `TimestampPackets`. What a command
*does* is abstracted to its status and whether it is still blocked.

### CommandStreamReceiver

`taskCount`, `latestFlushedTaskCount`, `tag`, `ownershipMutex`, `cmdBuffers` (the aggregator's
list), the residency containers and the two lists of `InternalAllocationStorage` are the
code's. An enqueue allocates what it needs (a host pointer surface, a fill pattern, a new stream
when one is full), takes the ownership, and `flushTask` sends or records it; a batch is
aggregated under a memory budget, the tag writes inside it are nooped, and it becomes one
submission. Waits compare the counts without the ownership and flush when they must. Allocations
have size 1, and a command buffer is the set of allocations it accesses. `submitted` lists the tasks in the order the GPU
executes them, each with what it accesses and what was resident for the submission it came with. The aggregation is in closed form:
`aggregateCommandBuffers` says how many recorded buffers the next submission takes (the longest prefix in which each
next one is compatible and fits into the budget), `resourcePackage` what they
reference, `Inspected` which allocations the walk marks, `Merged` the tasks that result. What bounds a behaviour is in the
guards: an allocation needs a free one (`Free # {}`), an enqueue a task count below `eventNotReady`. A host surface that cannot be allocated
makes the enqueue return before it takes the ownership (`EnqueueOutOfResources`, `command_stream_receiver.cpp:366`); the other allocations always succeed here, because the code
does not ask whether they did. State commands,
preemption, scratch space, the low priority timeout and the timeouts of `waitForCompletion` are
left out: no property here depends on them.

### TimestampPackets

For each receiver the lists `freeTags`, `usedTags` and `deferredTags`, whose pools grow by
`TagCount` tags; for each tag its reference count, `implicitDependenciesCount` and whether the GPU
has written it; for each queue, event and blocked command the tags its container holds. `getTag`
on an empty pool detaches the deferred tags, examines them one by one and splices both parts back, and adds a
pool when that did not help; `returnTag` drops the reference and then moves the tag. Each is a step per list operation. A GPU executes
the commands of its receiver in order and stops at a semaphore until the tag is
written. One tag per command; debug flags that add packets are left out.

A marker or barrier takes no tag (`enqueue_common.h:225`). Its event, if it has one, inherits the tags of its wait list and of its queue, so that
whoever waits for that event waits for them; the queue's own container stays as it was, so that the next kernel of the queue
waits for the queue's last kernel and not for what the marker waited for. `Follow` records just that in `after` and
`latest`, and `ExecutedInOrder` promises no more. A marker that meets a
blocked command is itself blocked and becomes the queue's virtual event (`EnqueueBlockedMarker`); unlike a kernel it keeps neither tags nor the
events of its wait list. When it is submitted it flushes an empty task and waits, with the ownership, for all that its receiver was given before (`SubmitMarker`).
The stalling pipe control that a barrier asks of the next flush (`enqueue_common.h:222`) orders the work of one receiver, which this GPU executes in order anyway.

`Scenarios` gives each thread its sequence of calls, in which a command is enqueued once, and submits blocked commands in the order in which the event tree lets them go;
the memory of each allocator's tags (`TagMemory`) bounds the pools that `populateFreeTags` may create.

### DrmBufferObjects

`refCount`, `sharing`, `mtx` and the worker's members are the code's. A buffer
object is of a command buffer, of a host pointer fragment, imported, or the pinning
object. `unreference` is one routine of five steps that threads and the worker run.
`RefCountExact` counts who refers to an object: the handles the threads hold, the allocations that own it
(`Allocated`), the calls about to drop it (`Running`) and its entries in the worker's two queues.
The kernel is external: a dma-buf has one GEM handle as long as it is open, one
GEM_CLOSE closes it, GEM_WAIT returns when the GPU is done. PRIME_FD_TO_HANDLE and `new
(std::nothrow)` may fail; failing GEM_WAIT and EXECBUFFER2 abort the process in the code and
are left out, as are GPU address ranges, pinning submissions, the close of the
application's file descriptor, the mode without a worker, and `close(true)`, which only
tests call. `active` is a plain `bool` that the worker reads while another thread
writes it; every read is separated from the next by a call on the mutex or the condition
variable, so the model rereads it each time.

### HostPtrManager

`partialAllocations` is the map of stored fragments with size, `refCount` and OsHandle;
`allocations` are the graphics allocations with their `fragmentsStorage`;
`temporaryAllocations`, `tasks` and `tag` the receiver's side. `getAllocationRequirements`, `findElement` and
`getFragmentAndCheckForOverlaps` are operators on addresses, with a page of two units so that ranges
may begin and end inside one. `prepareOsStorageForAllocation` holds `allocationsMutex` from its
first step to `populateOsHandles` or the abort; in between it checks fragment by fragment,
cleans, waits and cleans again, while other threads send, finish, detach and splice the list and
free allocations up to their next `releaseHostPtr`, which needs the mutex. A saved pointer to a map
entry is its start and its OsHandle: after the entry was erased a count through it is lost.
`seen` and `sent` are history, used only by `FatalOnlyWhenInevitable`. Creation of a buffer object may fail in
the three ways `populateOsHandles` distinguishes. `Failures` of the passing run leaves one of them out, `pin_error`: a pinning error other than EFAULT leaks
the buffer objects even of a request of one fragment, which `FailedFragments.cfg` shows (section 5). Left out: the call of `drain(true)` in front
(`DeferredDeleter`), batched dispatch, a second receiver, and the entries of the driver's own
allocations.

### HeapAllocator

Every call holds the allocator's mutex, so a call is a step. The two bounds, the two lists in their
order and `availableSize` are the code's; `allocations` is what callers hold. Sums and differences
are taken modulo `AddressSpace`. Best fit, splitting, joining, absorbing the last freed chunk
and defragmenting are operators of their own. `defragment` is stated by its result: a chunk for every run of chunks that touch
(`Joined`), in the order of `std::sort` (`Ascending`, `Descending`). The loop over neighbours itself is `JoinTouching`, and
the assumption `LoopJoinsRuns` of `MCHeapAllocator`, which TLC evaluates, says for every set of chunks in six pages that it has that result. Only the result can be reasoned
about for lists of any length, because what a loop over a list computes is an induction over data.

## 3. What is checked

Passing runs are exhaustive for their bounds.

| Run | Shows |
|---|---|
| `deferred_deleter` | two threads, two deletions, up to two clients, with worker: ownership, counter, wakeups, blocking drain, stop, destructor; implements `DeletionService!Spec` |
| `multi_context_destructor` | two engines, deletions used by both, work that is only batched: freed only when every engine is done; implements `DeletionService!PromptSpec` |
| `event_tree` | five scenarios of three threads: a tree of commands finished while its user events are set; one command waited for, or polled, and watched while it is unblocked; a marker of a second queue; a chain aborted while it is watched, and then waited for. Parent counts, order of submission, what finish and waits guarantee, callbacks once and on time, aborts reach every child, nobody hangs |
| `object_lifetime` | four scenarios with a device, context, queue, program, kernel, buffer, sub-buffer, user event and two commands released in every order: no use after delete, nothing left, every call returns |
| `command_stream_receiver` | three scenarios in both dispatch modes, with host surfaces that cannot be allocated: residency, honest task counts, nobody waits for a batch nobody flushes, memory freed or reused only when idle, destruction leaves nothing and is reached |
| `timestamp_packets` | five scenarios with two receivers and three queues, kernels and a marker blocked, submitted or terminated: every tag accounted for, none reused in flight, dependency order on the GPUs, everything submitted is executed |
| `drm_buffer_objects` | one command buffer flushed up to twice, a fragment, imports of one dma-buf by two threads, destruction at any quiet moment |
| `host_ptr_manager` | two threads with three allocations of four ranges that share, contain and exceed each other, and creation that fails in the two ways that are cleaned up: exact fragments; an abort only when the overlap could not be removed |
| `heap_allocator` | every sequence of requests of seven sizes in a heap of ten pages: each address exactly once, and a refusal only when no run is large enough |

The other three runs, `finish_during_enqueue`, `wait_during_abort` and `dangling_fragment`, expect a violation; so do four
more configurations that are kept beside the runs: see section 5.

**Type invariants.** `DeferredDeleter`, `EventTree`, `DrmBufferObjects`, `CommandStreamReceiver` and
`ObjectLifetime` have a `TypeOK`. It holds in their instances, and for `DeferredDeleter`, `CommandStreamReceiver` and
`DrmBufferObjects` it is proved; no run lists it, because the properties listed would fail with it.

**Bounds.** Two or three threads, because every race described in the hazards is between
two threads and a third party (worker, GPU, handler). Two deletions: one held, one queued.
Commands are one blocked command, one behind it, one that overtakes if it can; a
tree of depth two with a shared parent. Pools of one tag make every `getTag` meet an empty
pool. `Budget = 3` lets two small tasks, not three, share a submission. The sizes asked of the heap go
from less than a page to the whole heap, on both sides of the threshold, so that the sides meet in every way;
`Base = sizeThreshold`, because section 5 applies below. The host ranges are those without both a leading page and whole pages, for the same
reason; two threads with two and one allocations are enough for one to
meet the other's half-freed one. `MaxClients`, `MaxCalls`, `MaxAllocations`, `MaxFinishes` and the scenarios are the only bounds
on how long a behaviour goes on; `eventNotReady` stands for 0xFFFFFFF0 and is
above every task count reached (an `ASSUME` says so), so 32-bit wrap of the counts is not modelled. A user event
is set by one thread only (setting it again afterwards is covered).

**Fairness.** A thread inside a call goes on (weak fairness of its steps), the worker and the async
handler are scheduled, the GPU finishes what was submitted. `DeferredDeleter` needs
strong fairness for `deferDeletion`, `stop` and `run`, which repeatedly lock a mutex
other threads keep taking and releasing: `stop` itself unlocks and relocks in a loop until
the worker has started, so with a mutex that may starve one waiter for ever it would not end.
`CommandStreamReceiver` assumes the same of `ownershipMutex`. The loops of
`drain(true)`, `finish`, `waitForEvents`, the waits for a tag and `closeThread` are steps that may leave
the state as it is. In scenarios a thread goes on to its next call; elsewhere no call has
to be made, and no spurious wakeup has to come. `HeapAllocator` and `HostPtrManager` have safety
properties only; that no thread of the latter is stuck is the deadlock check.

**Deadlock** is checked everywhere except in `drm_buffer_objects`, which ends when the
memory manager is destroyed; there `DestructorReturns` and `PushedIsUnreferenced` say that
nobody is stuck before. Scenarios end in a state that may only stutter.

## 4. What is proved

The theorems hold for every value of the constants that satisfies the named `ASSUME`s of the module
they are about; TLC evaluates those on each run. All proofs have the same shape: an inductive
invariant, one lemma for the initial states, and for the steps one lemma or named step per action, with one
step per conjunct the action can disturb.

### Deferred deletion

`DeferredDeleterProofs`, for all finite sets of deletions, any threads, engines, task
counts and client bound:

| Theorem | Statement |
|---|---|
| `TypeCorrect` | `Spec => []TypeOK` |
| `OwnershipCorrect` | `Spec => []OwnedOnce`: no double free, no leak |
| `NoUseAfterFree` | `Spec => []FreedOnlyWhenGpuIsDone` |
| `CounterExact` | `Spec => []CountMatchesPending` |
| `BlockingDrainCorrect` | `Spec => BlockingDrainFreesAll`, an action property |

They follow from the inductive invariant
`IInv == TypeInv /\ OwnInv /\ UsageInv /\ CountMatchesPending`. None of the properties is
inductive alone: that `queue` holds only deletions needs to know that a thread at a push
label holds one (`HeldInv`); that a deletion is owned once needs the phase of life each
label and each place stands for (`PhaseInv`), uniqueness (`UniqueInv`) and no loss
(`NoLeakInv`); that nothing is freed under the GPU needs that an engine whose usage
was released or that `apply` has passed is done (`UsageInv`); the counter
is the cardinality of the accepted deletions and uses `OwnInv` for each push and pop. There is one
lemma per kind of change to ownership (`OwnHandOver`, `OwnPhaseChange`, `OwnPush`, `OwnPop`,
`OwnFreed`) and one step per action in each `Next...` lemma.

`DeferredDeleterRefinementProofs`, from the same assumptions:

| Theorem | Statement |
|---|---|
| `WorkerCorrect` | `Spec => []WorkerIffClients` |
| `WakeupNotLost` | `Spec => []NoLostWakeup` |
| `ServiceImplemented` | `Spec => ImplementsService`: every behaviour is one of `DeletionService!Spec` |

The first two need `ControlInv`: which operation each label belongs to (`OpInv`), and that whoever is in `stop`
has `threadMutex`, no client is left and the worker exists until it is joined (`StopInv`). For the refinement, the initial
states map to initial states, and each action maps to one of the service or to a stutter: the count of
`deferDeletion` is `Accept`, a successful `apply` is `Free`, the call and return of a blocking drain are `BeginDrain` and `EndDrain`,
those of the destructor `BeginClose` and `EndClose`, the GPU's step is `Advance`, and all else stutters. That a drain may return uses `BlockingDrainFreesAll`'s argument: the counter, which the drain reads, is the number of
accepted deletions.

### Command stream receiver

`CommandStreamReceiverProofs` and `CommandStreamReceiverMemoryProofs`, from `CsrAssumption`: any allocations, threads, budget, scenarios of
legal calls and value of `eventNotReady`; at least one allocation per stream that is not a memory object. The bounds that let the
scenarios come to their end are assumed in `MCCommandStreamReceiver` only.

| Theorem | Statement |
|---|---|
| `TypeCorrect` | `Spec => []TypeOK` |
| `TaskCountsCorrect` | `Spec => []TaskCountsAreHonest`: no gap, none ahead of what it counts |
| `WaitsAreForSubmitted` | `Spec => []NobodyWaitsForABatch` |
| `ResidencyCorrect` | `Spec => []SubmissionIsResident` |
| `MemoryCorrect` | `Spec => MemoryIsIdle`, an action property: what is freed or taken for reuse is accessed by no task still to be executed |
| `DestroyedCorrect` | `Spec => []NothingLeftWhenDestroyed` |

The first four use `IInv == TypeOK /\ ControlInv /\ CountInv /\ ResidencyInv` and the three properties. `ControlInv` says who owns the mutex at which label
and that the destructor is alone. `CountInv` relates the counters: submitted plus recorded tasks are `taskCount`, or one more while a
task is counted, and `latestFlushedTaskCount` lags only between a flush and its note; a spinning thread's count is then at most what was
submitted, although it compared it without the ownership. `ResidencyInv` says that nothing keeps a residency mark from an earlier task
or inspection, so that nothing is left out of a submission because it seems to be in it. `MergedSubmission` is
the lemma about the aggregator: for any number of merged buffers, what becomes a task and what stays recorded.

The memory theorems add `MemInv`. Each held allocation has exactly one owner: a memory object, a stream or a call
(`StreamInv`, `BufferInv`, `OwnInv`, `HeldInv`); each detached one is in exactly one thread's list
(`ListInv`); whatever a task still to be executed accesses is a stream's, or stored with a task count at least as large as the task's
(`UseInv`, with `SurfaceInv` for the task being built). A clean-up compares that count with a tag read earlier; tags only grow and
`TaskCountsAreHonest`, so the task was executed.

### Buffer objects on Linux

`DrmBufferObjectsProofs`, from `ProcsAssumption` and `BosAssumption`: any finite set of threads, any sets of buffer objects and
dma-bufs, any bound on the calls.

| Theorem | Statement |
|---|---|
| `TypeCorrect` | `Spec => []TypeOK` |
| `RefCountsCorrect` | `Spec => []RefCountExact` |
| `DeleteCorrect` | `Spec => []NoUseAfterDelete` |
| `HandlesCorrect` | `Spec => []SharedHandleOpen` |
| `DestroyedCorrect` | `Spec => []NothingLeftWhenDestroyed` |

All follow from `Inductive`, `Spec => []IInv`. `RefCountExact` is a conjunct of `IInv`, and the argument turns on it: an object that does not
live has count 0 (`LiveInv`), and an exact count of 0 means that no allocation, no call and no queue entry refers to it (lemma
`Unreferenced`). One process at most is between the drop of the last reference and the deletion (`DeleterInv`), because whoever
drops to 0 is the only one who could. `mtx` is held from the lock of `unreference` on a shared object until it is out of
`sharing`, and by every lookup (`MtxInv`), so that no lookup finds a dying object (`ListedInv`, `ErasedInv`, `FinderInv`). What the GPU
executes from keeps its holder's reference until the wait (`GpuInv`, `HolderInv`). At the end the worker has left with empty queues,
because `workCount` is what is in both plus what it is closing (`WorkerInv`, `MutexInv`, `DestroyInv`). The counts
are cardinalities; a family of lemmas (`Count...`, `Allocated...`, `Running...`) says how each changes.

### Heap allocator

`HeapAllocatorProofs`, from `HeapAssumption`: a heap of any size at any page, any threshold, and any set of requested sizes, any number of
which may be outstanding.

| Theorem | Statement |
|---|---|
| `HeapInvariant` | `NoWrapAround => (Spec => []HeapInv(heap, allocations))` |
| `EveryAddressOnceAlways` | `NoWrapAround => (Spec => []EveryAddressOnce)` |
| `RefusedOnlyWhenFragmentedAlways` | `NoWrapAround => (Spec => []RefusedOnlyWhenFragmented)` |

`NoWrapAround` says that no small request, rounded up to pages, is larger than `Base`. It is needed: below it `pRightBound - sizeToAllocate` wraps, which is the
first finding without a run in section 5. The heaps of the memory managers that begin at or above their threshold satisfy it.

`HeapInv` is `Tiles` and the sum: freed big chunks lie left of `pLeftBound`, freed small ones right of `pRightBound`, a held range lies on one side and is
big on the left, any two of all these are apart, every address of the heap is in one of them or in the middle, and `availableSize` is the size
of the heap less what is held. `EveryAddressOnce` says it of sets of addresses and is not inductive: that a joined chunk is a
range again, and that the last chunk of a list may join the middle, need the order of the bounds and the side of each
chunk. `Tiles` is about ranges, and a small set of moves keeps it (lemmas `Take...`, `Give...`, `Widen...`, `Carve...`,
`Regroup...`): each branch of `allocate` and `free` is one or two of them.

The lemmas on operators carry the rest. `JoinedTiles`: joining the runs of any finite set of chunks covers the same addresses, and no two
results touch. `SortedLists`: the sorted list lists the same chunks, and its last one is the highest (or lowest). `StoreKeeps` and
`GetTakes`: what the two list operations add and take out. `LeastNatural`, `GreatestNatural`: the well-foundedness the former rest on. For
refusals, `Settled` says that after `defragment` no chunk touches another or the middle, so that a run of free addresses lies in one part
(`NoRunLeft`), and the second attempt finds each part that is large enough.

### Tags and time stamp packets

`TimestampPacketsProofs` has lemmas only; `TimestampPacketsTagProofs` extends it. From `PacketsAssumption`: any finite sets of threads, receivers,
queues and commands, any kernels and markers, blocked or not, wait lists and in-order or out-of-order queues, pools of any size, and any scenarios in which each command
is enqueued at most once (a command stands for one call). The memory of two tags is not the same.

| Theorem | Statement |
|---|---|
| `TagsAlwaysAccountedFor` | `Spec => []TagsAccountedFor` |
| `NoTagEverReusedInFlight` | `Spec => []NoTagReusedInFlight` |

The first follows from `AccountInv`, of four parts:

* `ControlInv`: types; what a thread has in its hands at each label (`ThreadInv`); a command still to be enqueued is new and has empty
  containers (`CallInv`), so that nothing is lost when enqueueing fills them.
* `StreamInv`: each semaphore in a stream is followed at once by the decrement of the counter of the same tag (`PairInv`), what is in a stream
  belongs to submitted commands, and what is dispatched to its command (`ByInv`).
* `RefInv`: the count of a tag is the number of places in all containers and pending returns that have it. Containers are lists, and
  an inherited tag may be in one twice, so the count is the cardinality of a set of positions; the lemmas `Occ...` and `Sites...`
  say what concatenation, removal at a position, swap and hand-over do to it.
* `PlaceInv`: the contents of all places (three per allocator, four per thread) partition the tags created so far; a tag stays with
  the allocator that made it; no list has it twice; it is used as long as it is referred to or being returned.

`returnTag` drops the reference and moves the tag in two steps without a lock, and `releaseDeferredTags` has tags out of every list
between three more. The partition says that each of these steps takes a tag from exactly one place and puts it into exactly one.

The second theorem adds `FlightInv`. `CountInv`: at most as many decrements of a tag are in flight as its counter says, and at most one write, none
once it is written. `BusyInv`: what is in flight names the command its tag was taken for, and that tag is used, deferred or being
examined, and no thread is about to put it back to the free list. `FreshInv`: the tag that a thread is about to dispatch is its command's, not yet
written, with no write in flight. A tag goes to the free list only where `canBeReleased` holds, that is, written and with counter 0: then neither a
decrement nor a write of it is in flight and, by `PairInv`, no semaphore either. Without the pairing the counter would say nothing of
semaphores. The property is about the streams and the command buffers of blocked commands alike: the counter is raised when the
semaphore is programmed, long before a blocked command is submitted.

### Only model-checked

All liveness and everything under fairness: the prover handles neither fairness nor `ENABLED`. This is
`CallsReturn`, `PushedIsUnreferenced`, `DestructorReturns`, the returns of the deleter's calls, `ImplementsPromptService`, and
the liveness of events and tags. `LoopJoinsRuns` is what a loop computes for every list. `ExecutedInOrder` of
`TimestampPackets` also depends on how long an event lives: a wait list's events must not be released before they are used, which is a property of the
scenarios, and for all of them the proof needs the counts of references to events as well. And the safety properties of `EventTree`,
`ObjectLifetime` and `HostPtrManager`: see section 7.

## 5. Findings

Three runs expect a violation. Each is a disagreement between the code and what a comment, an
assertion or a test of the repository says.

* `finish_during_enqueue`: `finish` reads the task count after it gave up the queue
  (`finish.h:25`) and may wait for `eventNotReady`.
* `wait_during_abort`: the task count of a terminated command is stored before the negative status
  (`event.cpp:497`); a wait in between passes, trips its own assertion (`event.cpp:337`, `WaitedForIsReady`) and reports success. A wait for the
  user event itself also reports success when the event is terminated between the test of its status and the call of `wait` (`event.cpp:541`).
* `dangling_fragment`: `checkAllocationsForOverlapping` keeps the address of the entry it found for the leading
  page while it frees allocations for the middle pages (`host_ptr_manager.cpp:282`); the entry may be
  gone when it is counted, and its release finds nothing.

Four more configurations are beside the runs. Each adds the situation that the passing run of its module stays clear of, and TLC refutes the property:

| Configuration | Module | Property | What it shows |
|---|---|---|---|
| `BatchCompatibility.cfg` | `MCCommandStreamReceiver` | `MergedAreCompatible` | `aggregateCommandBuffers` compares the settings of the first command buffer with those of the second only (`submissions_aggregator.cpp:44`), against its comment and `submissions_aggregator_tests.cpp:389`: a third one with other settings is merged |
| `EnqueueOnAborted.cfg` | `MCEventTree` | `AbortPropagates` | `addChild` re-checks its parent only for `CL_COMPLETE` (`event.cpp:391`), so a command enqueued on a terminated user event stays pending until the application releases that event (its destructor notifies the children, `event.cpp:144`); no race is needed |
| `HeapBelowThreshold.cfg` | `MCHeapAllocator` | `EveryAddressOnce` | the unsigned difference at `heap_allocator.h:62` wraps in a heap that begins below the size threshold, and the range given lies outside the heap; the external 32-bit heap (`drm_memory_manager.cpp:91`) begins at one page |
| `FailedFragments.cfg` | `MCHostPtrManager` | `NoHandleLeaks` | a pinning error other than EFAULT marks no fragment as to be freed (`drm_memory_manager.cpp:651`), so `cleanOsHandles` closes none of the new buffer objects; the test of this path (`drm_memory_manager_tests.cpp:608`) sets the mark itself |

The following have no configuration of their own:

* Failing requests of several fragments (`host_ptr_manager.cpp:261`, `drm_memory_manager.cpp:631`): with `FailingRequests` of
  several fragments `FragmentsAreExact` fails. Counts of reused fragments stay, buffer objects made before the failure leak.
* Two threads that each release one of the last two references to a queue (`queue_helpers.h:16`) both
  read 2, neither breaks the cycle with the virtual event, and `NothingLeaks` fails.
* Spurious abort (`host_ptr_manager.cpp:257`): the allocation in the way may be complete and merely in the hands of another
  thread's clean-up. `FatalOnlyWhenInevitable` admits this case and excludes all others. A batched task
  makes the wait before it (`host_ptr_manager.cpp:296`) depend on somebody else's flush.
* Finish after abort: `isQueueBlocked` resets the queue's task count
  (`command_queue.cpp:160`), so `clFinish` does not wait for a kernel still running in front of
  the aborted command.
* Enqueue behind an aborted command, with time stamp packets (off by default, `hw_helper_common.inl:95`): the new command waits on the GPU for a tag that
  is never written (`command_queue.cpp:552`).
* Dependency on another queue: an event gets its task level before its command is flushed
  (`event.cpp:574`), so a command of another queue may overtake it.
* One of a command's two user events is terminated while the other completes: the completing thread can
  take the command first and flush it (`event.cpp:568`).
* Two threads set one user event, to `CL_COMPLETE` and to an error: the test in
  `clSetUserEventStatus` (`api.cpp:1744`) lets both pass, and a command can be flushed with the
  task level `eventNotReady`.
* A marker of another queue that inherits a task count not yet
  known (`enqueue_common.h:287`) completes, when polled, with the receiver's current
  count, and if it is never polled a wait for it does not end; the scenario polls it.

The passing scenarios stay clear of these situations: the queue is finished by
the thread that enqueues its blocked commands, an abort comes after the commands it reaches are enqueued, and precedes whatever else the same thread enqueues, finishes or waits for,
kernels of `EventTree` only depend on their own queue, and a queue has one API reference when it is released.

## 6. Not modelled

* The start and stop of the async handler's thread; profiling time stamps.
* Error paths that are visibly incomplete: an import whose buffer object cannot be created keeps its GEM handle and range
  (`drm_memory_manager.cpp:494`), and some callers go on without a GPU range (`drm_memory_manager.cpp:519`).
* Destruction of `DrmMemoryManager`'s members in reverse order, in front of the worker that uses them
  (`drm_memory_manager.h:97`), and an async handler that is closed while an event is registered (`async_events_handler.cpp:99`).
* Entries of driver allocations in the host pointer manager (`drm_memory_manager.cpp:556`), and a heap at address 0 in
  32-bit builds (`os_agnostic_memory_manager.cpp:257`).
* 32-bit task counts that reach `eventNotReady` (`event.cpp:31`).
* WDDM residency and the rest of the WDDM memory manager: the trim callback depends on a kernel driver of which
  the repository has only headers.
* Map operations: a short list behind a mutex, covered by unit tests.
* Kernels, programs, compiler interface, memory objects, images, samplers, platform, device queues, sharings,
  AUB and TBX, built-ins, GTPin, the debugger, command encoding and the offline compiler: sequential translation,
  validation or I/O, and generated hardware formats, which make up most of the lines of the repository. Their
  state either does not outlive a call or is one of the objects of `ObjectLifetime`.

## 7. Plan

The modules were written in the order of the concurrency they carry: `DeferredDeleter` with its
proofs, `EventTree`, `DrmBufferObjects`, `CommandStreamReceiver`, `ObjectLifetime`, `TimestampPackets`,
`HostPtrManager`, `HeapAllocator`; then `DeletionService`. Open:

1. Proofs: disjointness in `FragmentsAreExact` of `HostPtrManager`; `ExecutedInOrder` of `TimestampPackets`, from `FlightInv` and
   an invariant on the references to events.
2. Proofs: `ParentCountExact` of `EventTree`. Its stacks of frames need an invariant per frame, and
   `ObjectLifetime` is driven by scenarios, so that a theorem would have to be about their shape.
3. The async handler's thread; batched dispatch in `HostPtrManager`, with the entries of driver allocations.
4. An abstract dependency graph, whose commands are submitted after their parents, that `EventTree`
   without aborts implements.
