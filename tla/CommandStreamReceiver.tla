----------------------- MODULE CommandStreamReceiver -----------------------
(***************************************************************************)
(* CommandStreamReceiver (command_stream_receiver.cpp and _hw.inl) with    *)
(* its SubmissionAggregator (submissions_aggregator.cpp) and its           *)
(* InternalAllocationStorage (internal_allocation_storage.cpp), driven by  *)
(* the enqueue, flush, finish and release calls of several threads.        *)
(*                                                                         *)
(* A task gets the next task count.  It is flushed at once, or recorded    *)
(* and later merged with its successors into one submission.  The GPU      *)
(* writes the task count of a finished task to the tag, and memory is      *)
(* freed or used again when the tag has passed the task count stored with  *)
(* it.  Enqueues hold the receiver's recursive ownershipMutex; waits and   *)
(* the lists of the allocation storage do not.                             *)
(*                                                                         *)
(* An allocation has size 1.  What is written into a command buffer is     *)
(* abstracted to the allocations a task accesses.  The lists of the        *)
(* storage are sets: whichever element fits may be taken.                  *)
(***************************************************************************)
EXTENDS Integers, Sequences, FiniteSets, SequencesExt

CONSTANTS Threads,
          Allocations,    \* names for graphics allocations
          Buffers,        \* those of the application's memory objects
          Scenarios,      \* functions from threads to the calls they make
          DispatchModes,  \* subset of {"ImmediateDispatch", "BatchedDispatch"}
          Budget,         \* memory budget of one submission
          eventNotReady,  \* Event::eventNotReady, above every task count
          None

\* The linear streams whose allocations are replaced when they are full: a heap
\* of the receiver, its command stream and the queue's command stream.
Streams == {"heap", "csr", "queue"}
NotUsed == eventNotReady + 1   \* objectNotUsed and objectNotResident, 2^32 - 1

\* uses: a buffer argument.  memory: a host pointer surface or a fill pattern
\* of the command's own.  full: the stream that has no space left.  csrWork:
\* state is programmed in the receiver's command stream.  compat: coherency,
\* priority and throttle.  outOfOrder: the tag write may be nooped.
Dispatch == [uses : SUBSET Buffers, memory : {"none", "hostPtr", "fillBuffer", "svmMemFill"},
             full : Streams \cup {"none"}, csrWork : BOOLEAN, compat : BOOLEAN,
             outOfOrder : BOOLEAN, implicitFlush : BOOLEAN, blocking : BOOLEAN]

Call == [op : {"enqueue"}, on : Dispatch] \cup [op : {"flush", "finish"}, on : {None}]
          \cup [op : {"release"}, on : Buffers]

\* A scenario is any assignment of calls to the threads; each stream has an
\* allocation of its own to begin with.
ASSUME CsrAssumption ==
  /\ Buffers \subseteq Allocations
  /\ Scenarios \subseteq [Threads -> Seq(Call)]
  /\ \E f \in [Streams -> Allocations \ Buffers] : IsInjective(f)
  /\ DispatchModes \subseteq {"ImmediateDispatch", "BatchedDispatch"}
  /\ Budget \in Nat /\ eventNotReady \in Nat \ {0}
  /\ None \notin Allocations \cup Threads \cup Dispatch

VARIABLES dispatchMode,
          taskCount, latestFlushedTaskCount,
          queueTaskCount,        \* CommandQueue::taskCount of the threads' queue
          ownershipMutex,        \* the owner
          stream,                \* the allocation of each linear stream
          buffers,               \* memory objects that have not been released
          residencyAllocations,
          cmdBuffers,            \* SubmissionAggregator::cmdBuffers
          inspectionId,          \* SubmissionAggregator::inspectionId
          inspected,             \* GraphicsAllocation::inspectionId
          lastTask,              \* GraphicsAllocation::taskCount
          residencyTaskCount,    \* GraphicsAllocation::residencyTaskCount
          where,                 \* who has the allocation, see Places
          type,                  \* GraphicsAllocation::allocationType
          submitted,             \* what was handed to the operating system
          executed, tag,         \* tasks the GPU has finished, and the tag
          pc, loc,               \* where each thread is, and its locals
          todo,                  \* calls each thread still makes
          destroyed              \* the receiver has been destroyed

countVars == <<taskCount, latestFlushedTaskCount, queueTaskCount>>
batchVars == <<cmdBuffers, inspectionId, inspected>>
allocVars == <<where, type, lastTask>>
residencyVars == <<residencyAllocations, residencyTaskCount>>
gpuVars == <<executed, tag>>
threadVars == <<pc, loc, todo>>
vars == <<dispatchMode, countVars, ownershipMutex, stream, buffers, batchVars, allocVars,
          residencyVars, submitted, gpuVars, threadVars, destroyed>>

\* held: of a stream, a memory object or a call.  detached: in a list that
\* freeAllocationsList walks.
Places == {"free", "held", "temporary", "reusable", "detached"}

Labels == {"idle", "e_lock", "e_resident", "e_submit", "e_flushed", "e_implicit",
           "e_count", "e_store", "fb_lock", "fb_loop", "fb_flushed", "f_read",
           "w_read", "w_spin", "w_stamp", "c_detach", "c_free",
           "d_store", "d_clean"}

\* Locals: the dispatch, its own memory, the label to return to from
\* flushBatchedSubmissions, the task count waited for, the one up to which the
\* temporary list is cleaned, whether the wait may time out, and the detached list with what is left of it.
NoLocals == [call |-> None, mine |-> None, ret |-> "idle", n |-> 0, clean |-> 0, timeout |-> FALSE,
             list |-> {}, left |-> {}]

Locals == [call : Dispatch \cup {None}, mine : Allocations \cup {None}, ret : Labels, n : Nat,
           clean : Nat, timeout : BOOLEAN, list : SUBSET Allocations, left : SUBSET Allocations]

\* CommandBuffer: accesses is what the GPU reads and writes, surfaces what the
\* receiver recorded; noop: its tag write may be nooped.
CommandBuffer == [n : Nat, cb : Allocations, surfaces : SUBSET Allocations,
                  accesses : SUBSET Allocations, compat : BOOLEAN, noop : BOOLEAN]
\* A task that was handed to the operating system: with what its submission made
\* resident, and the task count of the submission's first command buffer
Task == [n : Nat, accesses : SUBSET Allocations, compat : BOOLEAN, noop : BOOLEAN,
         resident : SUBSET Allocations, primary : Nat]

TypeOK ==
  /\ dispatchMode \in DispatchModes
  /\ taskCount \in Nat /\ latestFlushedTaskCount \in Nat /\ queueTaskCount \in Nat
  /\ ownershipMutex \in Threads \cup {None}
  /\ stream \in [Streams -> Allocations \cup {None}]
  /\ buffers \subseteq Buffers
  /\ residencyAllocations \subseteq Allocations
  /\ cmdBuffers \in Seq(CommandBuffer) /\ submitted \in Seq(Task)
  /\ inspectionId \in Nat /\ inspected \in [Allocations -> Nat]
  /\ lastTask \in [Allocations -> 0..NotUsed]
  /\ residencyTaskCount \in [Allocations -> 0..NotUsed]
  /\ where \in [Allocations -> Places]
  /\ executed \in Nat /\ tag \in Nat
  /\ pc \in [Threads -> Labels] /\ loc \in [Threads -> Locals]
  /\ todo \in [Threads -> Seq(Call)] /\ destroyed \in BOOLEAN

\* The streams have their allocations, and nothing has been enqueued.
Init ==
  /\ dispatchMode \in DispatchModes
  /\ taskCount = 0 /\ latestFlushedTaskCount = 0 /\ queueTaskCount = 0
  /\ ownershipMutex = None
  /\ stream = CHOOSE f \in [Streams -> Allocations \ Buffers] : IsInjective(f)
  /\ buffers = Buffers
  /\ residencyAllocations = {} /\ cmdBuffers = <<>> /\ inspectionId = 1
  /\ inspected = [a \in Allocations |-> 0]
  /\ lastTask = [a \in Allocations |-> NotUsed]
  /\ residencyTaskCount = [a \in Allocations |-> NotUsed]
  /\ where = [a \in Allocations |-> IF a \in Buffers \cup Range(stream) THEN "held" ELSE "free"]
  /\ type = [a \in Allocations |-> IF a = stream["heap"] THEN "heap"
                                   ELSE IF a \in Range(stream) THEN "csr" ELSE "none"]
  /\ submitted = <<>> /\ executed = 0 /\ tag = 0
  /\ pc = [t \in Threads |-> "idle"] /\ loc = [t \in Threads |-> NoLocals]
  /\ todo \in Scenarios
  /\ destroyed = FALSE

----------------------------------------------------------------------------
(* Threads and allocations.                                                *)

\* The next call of the thread's scenario
Calls(t, o) == pc[t] = "idle" /\ todo[t] # <<>> /\ Head(todo[t]).op = o
Argument(t) == Head(todo[t]).on
Start(t, l, x) == /\ pc' = [pc EXCEPT ![t] = l]
                  /\ loc' = [loc EXCEPT ![t] = x]
                  /\ todo' = [todo EXCEPT ![t] = Tail(@)]
Goto(t, l) == pc' = [pc EXCEPT ![t] = l]
SetLocals(t, l) == loc' = [loc EXCEPT ![t] = l]
Owns(t) == ownershipMutex = t
Acquire(t) == ownershipMutex = None /\ ownershipMutex' = t

Free == {a \in Allocations : where[a] = "free"}
\* MemoryManager::allocateGraphicsMemoryWithProperties: a new object.  Which
\* one it is makes no difference; Allocations bounds how many there are.
Fresh == CHOOSE a \in Free : TRUE
allocate(a, ty, place, n) ==
  /\ Free # {}
  /\ where' = [where EXCEPT ![a] = place]
  /\ type' = [type EXCEPT ![a] = ty]
  /\ lastTask' = [lastTask EXCEPT ![a] = n]

\* Types of the reusable allocations: the receiver's and the queue's command
\* streams are both COMMAND_BUFFERs.
AllocationType(s) == IF s = "heap" THEN "heap" ELSE IF s = "svmMemFill" THEN s ELSE "csr"

\* InternalAllocationStorage::storeAllocationWithTaskCount
storeAllocation(a, place, n) ==
  /\ where' = [where EXCEPT ![a] = place]
  /\ lastTask' = [lastTask EXCEPT ![a] = n]

\* AllocationsList::detachAllocationImpl
Reusable(ty, w, n) == {a \in Allocations : w[a] = "reusable" /\ type[a] = ty /\ tag >= n[a]}

----------------------------------------------------------------------------
(* An enqueue, up to CommandStreamReceiver::flushTask.                     *)

\* Mutant: a host pointer surface counts as unused until it is flushed
HostPtrTaskCount_Zero == 0
\* createAllocationForHostSurface: a task count that no wait has reached
HostPtrTaskCount == eventNotReady

\* The memory of a command's own is allocated before the ownership is taken.  A
\* host pointer surface goes to the temporary list at once.
\* enqueueSVMMemFill takes a reusable allocation if it can.
BeginEnqueue(t) ==
  /\ Calls(t, "enqueue")
  /\ LET d == Argument(t)
         found == IF d.memory = "svmMemFill" THEN Reusable(d.memory, where, lastTask) ELSE {}
         Begin(a) == Start(t, "e_lock", [NoLocals EXCEPT !.call = d, !.mine = a])
     IN /\ d.memory = "svmMemFill" => ownershipMutex = None
        /\ CASE d.memory = "none" -> Begin(None) /\ UNCHANGED allocVars
             [] d.memory = "hostPtr" ->
                  Begin(Fresh) /\ allocate(Fresh, d.memory, "temporary", HostPtrTaskCount)
             [] found # {} ->
                  /\ \E a \in found : Begin(a) /\ where' = [where EXCEPT ![a] = "held"]
                  /\ UNCHANGED <<type, lastTask>>
             [] OTHER -> Begin(Fresh) /\ allocate(Fresh, d.memory, "held", NotUsed)
  /\ UNCHANGED <<dispatchMode, countVars, ownershipMutex, stream, buffers, batchVars,
                 residencyVars, submitted, gpuVars, destroyed>>

\* createAllocationForHostSurface returns false when there is no memory for the
\* surface: CL_OUT_OF_RESOURCES, and nothing has changed.
EnqueueOutOfResources(t) ==
  /\ Calls(t, "enqueue") /\ Argument(t).memory = "hostPtr"
  /\ todo' = [todo EXCEPT ![t] = Tail(@)]
  /\ UNCHANGED <<dispatchMode, countVars, ownershipMutex, stream, buffers, batchVars, allocVars,
                 residencyVars, submitted, gpuVars, pc, loc, destroyed>>

\* getIndirectHeap stores the full heap before it looks for another one,
\* ensureCommandBufferAllocation the full command buffer afterwards.
ReplaceStream(s) ==
  LET old == stream[s]
      stored == [where EXCEPT ![old] = "reusable"]
      counted == [lastTask EXCEPT ![old] = taskCount]
      found == IF s = "heap" THEN Reusable(AllocationType(s), stored, counted)
                             ELSE Reusable(AllocationType(s), where, lastTask)
  IN \/ \E a \in found :
          /\ stream' = [stream EXCEPT ![s] = a]
          /\ where' = [stored EXCEPT ![a] = "held"]
          /\ lastTask' = counted
          /\ UNCHANGED type
     \/ /\ found = {} /\ Free # {}
        /\ stream' = [stream EXCEPT ![s] = Fresh]
        /\ where' = [stored EXCEPT ![Fresh] = "held"]
        /\ lastTask' = [counted EXCEPT ![Fresh] = NotUsed]
        /\ type' = [type EXCEPT ![Fresh] = AllocationType(s)]

\* The ownership is taken; streams without space are replaced.  eventNotReady
\* bounds the task counts.
EnqueueLock(t) ==
  /\ pc[t] = "e_lock"
  /\ taskCount + 1 < eventNotReady
  /\ Acquire(t)
  /\ Goto(t, "e_resident")
  /\ LET s == loc[t].call.full IN
       IF s = "none" THEN UNCHANGED <<stream, allocVars>> ELSE ReplaceStream(s)
  /\ UNCHANGED <<dispatchMode, countVars, buffers, batchVars, residencyVars, submitted,
                 gpuVars, loc, todo, destroyed>>

\* What the task accesses; the first buffer of it is submitted or chained.
CommandBufferOf(d) == IF d.csrWork THEN stream["csr"] ELSE stream["queue"]
SurfacesOf(t) ==
  LET d == loc[t].call IN
  d.uses \cup {stream["heap"]} \cup ({loc[t].mine} \ {None})
         \cup (IF d.csrWork THEN {stream["queue"]} ELSE {})

\* makeResident, for every surface of the task
MakeResident(t) ==
  /\ pc[t] = "e_resident"
  /\ LET n == taskCount + 1
         new == {a \in SurfacesOf(t) :
                   residencyTaskCount[a] = NotUsed \/ residencyTaskCount[a] < n}
     IN /\ residencyAllocations' = residencyAllocations \cup new
        /\ lastTask' = [a \in Allocations |-> IF a \in new THEN n ELSE lastTask[a]]
        /\ residencyTaskCount' =
             [a \in Allocations |-> IF a \in SurfacesOf(t) THEN n ELSE residencyTaskCount[a]]
  /\ Goto(t, "e_submit")
  /\ UNCHANGED <<dispatchMode, countVars, ownershipMutex, stream, buffers, batchVars, where,
                 type, submitted, gpuVars, loc, todo, destroyed>>

\* makeSurfacePackNonResident
MakeNonResident(S) ==
  residencyTaskCount' = [a \in Allocations |-> IF a \in S THEN NotUsed ELSE residencyTaskCount[a]]

\* The command buffer of the task that flushTask is building
NewCommandBuffer(t) ==
  LET d == loc[t].call IN
  [n |-> taskCount + 1, cb |-> CommandBufferOf(d), surfaces |-> residencyAllocations,
   accesses |-> SurfacesOf(t) \cup {CommandBufferOf(d)}, compat |-> d.compat,
   noop |-> d.outOfOrder]
\* It is submitted.
Submit(b, noop, resident, primary) ==
  [n |-> b.n, accesses |-> b.accesses, compat |-> b.compat, noop |-> noop,
   resident |-> resident, primary |-> primary]

\* flushTask: flush, or record the command buffer
SubmitTask(t) ==
  /\ pc[t] = "e_submit"
  /\ LET b == NewCommandBuffer(t) IN
       \/ /\ dispatchMode = "ImmediateDispatch"
          /\ submitted' = Append(submitted, Submit(b, FALSE, b.surfaces \cup {b.cb}, b.n))
          /\ Goto(t, "e_flushed")
          /\ UNCHANGED <<cmdBuffers, residencyAllocations>>
       \/ /\ dispatchMode = "BatchedDispatch"
          /\ cmdBuffers' = Append(cmdBuffers, b)
          /\ residencyAllocations' = {}
          /\ Goto(t, "e_implicit")
          /\ UNCHANGED submitted
  /\ UNCHANGED <<dispatchMode, countVars, ownershipMutex, stream, buffers, inspectionId,
                 inspected, allocVars, residencyTaskCount, gpuVars, loc, todo, destroyed>>

TaskFlushed(t) ==
  /\ pc[t] = "e_flushed"
  /\ latestFlushedTaskCount' = taskCount + 1
  /\ MakeNonResident(residencyAllocations)
  /\ residencyAllocations' = {}
  /\ Goto(t, "e_implicit")
  /\ UNCHANGED <<dispatchMode, taskCount, queueTaskCount, ownershipMutex, stream, buffers,
                 batchVars, allocVars, submitted, gpuVars, loc, todo, destroyed>>

\* A blocking call and an exhausted memory budget flush the batch.
ImplicitFlush(t) ==
  /\ pc[t] = "e_implicit"
  /\ LET d == loc[t].call IN
       IF dispatchMode = "BatchedDispatch" /\ (d.blocking \/ d.implicitFlush)
         THEN Goto(t, "fb_loop") /\ SetLocals(t, [loc[t] EXCEPT !.ret = "e_count"])
         ELSE Goto(t, "e_count") /\ UNCHANGED loc
  /\ UNCHANGED <<dispatchMode, countVars, ownershipMutex, stream, buffers, batchVars,
                 allocVars, residencyVars, submitted, gpuVars, todo, destroyed>>

\* ++taskCount; the queue takes the completion stamp, the ownership ends.
CountTask(t) ==
  /\ pc[t] = "e_count"
  /\ taskCount' = taskCount + 1
  /\ queueTaskCount' = taskCount'
  /\ ownershipMutex' = None
  /\ SetLocals(t, [loc[t] EXCEPT !.clean = taskCount'])
  /\ Goto(t, "e_store")
  /\ UNCHANGED <<dispatchMode, latestFlushedTaskCount, stream, buffers, batchVars, allocVars,
                 residencyVars, submitted, gpuVars, todo, destroyed>>

\* enqueueFillBuffer and enqueueSVMMemFill store their pattern with the queue's
\* task count as it is by now.  A blocking call goes on to wait.
EndEnqueue(t) ==
  /\ pc[t] = "e_store"
  /\ LET d == loc[t].call IN
       /\ CASE d.memory = "fillBuffer" -> storeAllocation(loc[t].mine, "temporary", queueTaskCount)
            [] d.memory = "svmMemFill" -> storeAllocation(loc[t].mine, "reusable", queueTaskCount)
            [] OTHER -> UNCHANGED <<where, lastTask>>
       /\ IF d.blocking
            THEN /\ Goto(t, "w_read")
                 /\ SetLocals(t, [NoLocals EXCEPT !.n = queueTaskCount, !.clean = loc[t].clean,
                                                   !.timeout = TRUE])
            ELSE Goto(t, "idle") /\ SetLocals(t, NoLocals)
  /\ UNCHANGED <<dispatchMode, countVars, ownershipMutex, stream, buffers, batchVars, type,
                 residencyVars, submitted, gpuVars, todo, destroyed>>

enqueueHandler(t) ==
  \/ BeginEnqueue(t) \/ EnqueueOutOfResources(t) \/ EnqueueLock(t) \/ MakeResident(t)
  \/ SubmitTask(t) \/ TaskFlushed(t) \/ ImplicitFlush(t) \/ CountTask(t) \/ EndEnqueue(t)

----------------------------------------------------------------------------
(* SubmissionAggregator::aggregateCommandBuffers: how many command buffers *)
(* from the first on make one submission, and what it needs resident.      *)

\* What the primary command buffer and the ones up to the k-th refer to, and the
\* allocations among it that this inspection is the first to meet
Referenced(bufs, k) ==
  Head(bufs).surfaces
    \cup UNION {(bufs[i].surfaces \cup {bufs[i].cb}) \ {Head(bufs).cb} : i \in 2..k}
resourcePackage(bufs, k) == {a \in Referenced(bufs, k) : inspected[a] < inspectionId}

\* The loop is entered when the second one is compatible, and goes on while the
\* next one fits.
Compatible(bufs) == Len(bufs) > 1 /\ bufs[2].compat = Head(bufs).compat
Fits(bufs, k) ==
  \/ k = 1
  \/ Compatible(bufs) /\ \A j \in 2..k : Cardinality(resourcePackage(bufs, j)) <= Budget
aggregateCommandBuffers(bufs, k) ==
  k \in 1..Len(bufs) /\ Fits(bufs, k) /\ (k < Len(bufs) => ~Fits(bufs, k + 1))

\* The buffer that does not fit has marked its allocations all the same.
Inspected(bufs, k) == IF Compatible(bufs) /\ k < Len(bufs) THEN k + 1 ELSE k

\* Mutant: the tag write of the last buffer is nooped as well
Merged_NoopLast(bufs, k, resident) ==
  [i \in 1..k |-> Submit(bufs[i], bufs[i].noop, resident, Head(bufs).n)]

\* The tag write of a merged buffer is nooped when another one follows it.
Merged(bufs, k, resident) ==
  [i \in 1..k |-> Submit(bufs[i], bufs[i].noop /\ i < k, resident, Head(bufs).n)]

----------------------------------------------------------------------------
(* flushBatchedSubmissions.                                                *)

FlushBatchedLock(t) ==
  /\ pc[t] = "fb_lock"
  /\ IF dispatchMode = "ImmediateDispatch"
       THEN Goto(t, loc[t].ret) /\ UNCHANGED ownershipMutex
       ELSE Acquire(t) /\ Goto(t, "fb_loop")
  /\ UNCHANGED <<dispatchMode, countVars, stream, buffers, batchVars, allocVars,
                 residencyVars, submitted, gpuVars, loc, todo, destroyed>>

\* Mutant: the inspection id is kept
NextInspection_Same == inspectionId
NextInspection == inspectionId + 1

\* One submission of the loop, up to the return of flush
FlushBatch(t) ==
  /\ pc[t] = "fb_loop"
  /\ \E k \in 1..Len(cmdBuffers) :
       /\ aggregateCommandBuffers(cmdBuffers, k)
       /\ submitted' = submitted \o
            Merged(cmdBuffers, k, resourcePackage(cmdBuffers, k) \cup {Head(cmdBuffers).cb})
       /\ cmdBuffers' = SubSeq(cmdBuffers, k + 1, Len(cmdBuffers))
       /\ inspected' =
            [a \in Allocations |->
               IF a \in resourcePackage(cmdBuffers, Inspected(cmdBuffers, k))
                 THEN inspectionId ELSE inspected[a]]
       /\ SetLocals(t, [loc[t] EXCEPT !.list = resourcePackage(cmdBuffers, k)])
  /\ inspectionId' = NextInspection
  /\ Goto(t, "fb_flushed")
  /\ UNCHANGED <<dispatchMode, countVars, ownershipMutex, stream, buffers, allocVars,
                 residencyVars, gpuVars, todo, destroyed>>

\* Mutant: everything recorded counts as flushed
LastTaskCount_All == taskCount + 1
LastTaskCount == Last(submitted).n

BatchFlushed(t) ==
  /\ pc[t] = "fb_flushed"
  /\ latestFlushedTaskCount' = LastTaskCount
  /\ MakeNonResident(loc[t].list)
  /\ SetLocals(t, [loc[t] EXCEPT !.list = {}])
  /\ Goto(t, "fb_loop")
  /\ UNCHANGED <<dispatchMode, taskCount, queueTaskCount, ownershipMutex, stream, buffers,
                 batchVars, allocVars, residencyAllocations, submitted, gpuVars, todo, destroyed>>

\* The mutex is recursive: flushTask keeps it.
FlushBatchedReturn(t) ==
  /\ pc[t] = "fb_loop"
  /\ cmdBuffers = <<>>
  /\ Goto(t, loc[t].ret)
  /\ ownershipMutex' = IF loc[t].ret = "e_count" THEN t ELSE None
  /\ UNCHANGED <<dispatchMode, countVars, stream, buffers, batchVars, allocVars,
                 residencyVars, submitted, gpuVars, loc, todo, destroyed>>

flushBatchedSubmissions(t) ==
  FlushBatchedLock(t) \/ FlushBatch(t) \/ BatchFlushed(t) \/ FlushBatchedReturn(t)

\* clFlush and clFinish start with it.
clFlush(t, op, after) ==
  /\ Calls(t, op)
  /\ Start(t, "fb_lock", [NoLocals EXCEPT !.ret = after])
  /\ UNCHANGED <<dispatchMode, countVars, ownershipMutex, stream, buffers, batchVars,
                 allocVars, residencyVars, submitted, gpuVars, destroyed>>

FinishRead(t) ==
  /\ pc[t] = "f_read"
  /\ Goto(t, "w_read")
  /\ SetLocals(t, [loc[t] EXCEPT !.n = queueTaskCount, !.clean = queueTaskCount, !.timeout = TRUE])
  /\ UNCHANGED <<dispatchMode, countVars, ownershipMutex, stream, buffers, batchVars,
                 allocVars, residencyVars, submitted, gpuVars, todo, destroyed>>

----------------------------------------------------------------------------
(* waitForTaskCountWithKmdNotifyFallback.                                  *)

\* Mutant: waits without flushing
WaitRead_NoFlush(t) ==
  /\ pc[t] = "w_read"
  /\ Goto(t, "w_spin")
  /\ UNCHANGED <<dispatchMode, countVars, ownershipMutex, stream, buffers, batchVars,
                 allocVars, residencyVars, submitted, gpuVars, loc, todo, destroyed>>

\* waitForCompletionWithTimeout reads latestFlushedTaskCount without the
\* ownership.
WaitRead(t) ==
  /\ pc[t] = "w_read"
  /\ IF latestFlushedTaskCount < loc[t].n
       THEN Goto(t, "fb_lock") /\ SetLocals(t, [loc[t] EXCEPT !.ret = "w_spin"])
       ELSE Goto(t, "w_spin") /\ UNCHANGED loc
  /\ UNCHANGED <<dispatchMode, countVars, ownershipMutex, stream, buffers, batchVars,
                 allocVars, residencyVars, submitted, gpuVars, todo, destroyed>>

\* The tag is there, or the first wait timed out.
WaitSpin(t) ==
  /\ pc[t] = "w_spin"
  /\ \/ tag >= loc[t].n /\ Goto(t, "c_detach")
     \/ tag < loc[t].n /\ loc[t].timeout /\ Goto(t, "w_stamp")
  /\ UNCHANGED <<dispatchMode, countVars, ownershipMutex, stream, buffers, batchVars,
                 allocVars, residencyVars, submitted, gpuVars, loc, todo, destroyed>>

\* waitForFlushStamp, a call of the operating system that may return early, and
\* the second wait, without timeout
WaitAgain(t) ==
  /\ pc[t] = "w_stamp"
  /\ Goto(t, "w_read")
  /\ SetLocals(t, [loc[t] EXCEPT !.timeout = FALSE])
  /\ UNCHANGED <<dispatchMode, countVars, ownershipMutex, stream, buffers, batchVars,
                 allocVars, residencyVars, submitted, gpuVars, todo, destroyed>>

----------------------------------------------------------------------------
(* waitForTaskCountAndCleanAllocationList, for the temporary allocations:  *)
(* the list is detached, walked without a lock and put back.               *)

Listed(place) == {a \in Allocations : where[a] = place}

CleanDetach(t) ==
  /\ pc[t] = "c_detach"
  /\ tag >= loc[t].clean
  /\ SetLocals(t, [loc[t] EXCEPT !.list = Listed("temporary")])
  /\ where' = [a \in Allocations |-> IF where[a] = "temporary" THEN "detached" ELSE where[a]]
  /\ Goto(t, "c_free")
  /\ UNCHANGED <<dispatchMode, countVars, ownershipMutex, stream, buffers, batchVars, type,
                 lastTask, residencyVars, submitted, gpuVars, todo, destroyed>>

CleanOne(t) ==
  /\ pc[t] = "c_free"
  /\ \E a \in loc[t].list :
       IF lastTask[a] <= loc[t].clean
         THEN /\ where' = [where EXCEPT ![a] = "free"]
              /\ SetLocals(t, [loc[t] EXCEPT !.list = @ \ {a}])
         ELSE /\ SetLocals(t, [loc[t] EXCEPT !.list = @ \ {a}, !.left = @ \cup {a}])
              /\ UNCHANGED where
  /\ UNCHANGED <<dispatchMode, countVars, ownershipMutex, stream, buffers, batchVars, type,
                 lastTask, residencyVars, submitted, gpuVars, pc, todo, destroyed>>

CleanSplice(t) ==
  /\ pc[t] = "c_free"
  /\ loc[t].list = {}
  /\ where' = [a \in Allocations |-> IF a \in loc[t].left THEN "temporary" ELSE where[a]]
  /\ SetLocals(t, NoLocals)
  /\ Goto(t, "idle")
  /\ UNCHANGED <<dispatchMode, countVars, ownershipMutex, stream, buffers, batchVars, type,
                 lastTask, residencyVars, submitted, gpuVars, todo, destroyed>>

wait(t) == FinishRead(t) \/ WaitRead(t) \/ WaitSpin(t) \/ WaitAgain(t)
             \/ CleanDetach(t) \/ CleanOne(t) \/ CleanSplice(t)

----------------------------------------------------------------------------
(* Releasing a memory object that no call is using, and the end.           *)

\* The application releases a memory object once, after the enqueues that use it.
WillUse(u, a) ==
  \/ loc[u].call # None /\ a \in loc[u].call.uses
  \/ \E i \in DOMAIN todo[u] : todo[u][i].op = "enqueue" /\ a \in todo[u][i].on.uses

\* MemoryManager::checkGpuUsageAndDestroyGraphicsAllocations
checkGpuUsageAndDestroyGraphicsAllocations(t) ==
  /\ Calls(t, "release")
  /\ LET a == Argument(t) IN
       /\ a \in buffers /\ \A u \in Threads : ~WillUse(u, a)
       /\ buffers' = buffers \ {a}
       /\ where' = [where EXCEPT ![a] =
                      IF lastTask[a] # NotUsed /\ lastTask[a] > tag THEN "temporary" ELSE "free"]
  /\ Start(t, "idle", NoLocals)
  /\ UNCHANGED <<dispatchMode, countVars, ownershipMutex, stream, batchVars, type, lastTask,
                 residencyVars, submitted, gpuVars, destroyed>>

\* ~CommandQueue stores its command stream; Device::~Device flushes the batch
\* before the receiver is destroyed.
DestroyDevice(t) ==
  /\ \A u \in Threads : pc[u] = "idle" /\ todo[u] = <<>>
  /\ buffers = {} /\ ~destroyed
  /\ destroyed' = TRUE
  /\ storeAllocation(stream["queue"], "reusable", taskCount)
  /\ stream' = [stream EXCEPT !["queue"] = None]
  /\ Goto(t, "fb_lock")
  /\ SetLocals(t, [NoLocals EXCEPT !.ret = "d_store"])
  /\ UNCHANGED <<dispatchMode, countVars, ownershipMutex, buffers, batchVars, type,
                 residencyVars, submitted, gpuVars, todo>>

\* Mutant: the heap is dropped
DestroyStore_Drop(t) ==
  /\ pc[t] = "d_store"
  /\ stream' = [stream EXCEPT !["heap"] = None]
  /\ Goto(t, "d_clean")
  /\ UNCHANGED <<dispatchMode, countVars, ownershipMutex, buffers, batchVars, allocVars,
                 residencyVars, submitted, gpuVars, loc, todo, destroyed>>

\* ~CommandStreamReceiver stores the heap.
DestroyStore(t) ==
  /\ pc[t] = "d_store"
  /\ storeAllocation(stream["heap"], "reusable", taskCount)
  /\ stream' = [stream EXCEPT !["heap"] = None]
  /\ Goto(t, "d_clean")
  /\ UNCHANGED <<dispatchMode, countVars, ownershipMutex, buffers, batchVars, type,
                 residencyVars, submitted, gpuVars, loc, todo, destroyed>>

\* cleanupResources waits for the last flush; then both lists are emptied.
DestroyClean(t) ==
  /\ pc[t] = "d_clean"
  /\ tag >= latestFlushedTaskCount
  /\ where' = [a \in Allocations |->
                 IF where[a] \in {"temporary", "reusable"} \/ a = stream["csr"]
                   THEN "free" ELSE where[a]]
  /\ stream' = [stream EXCEPT !["csr"] = None]
  /\ Goto(t, "idle")
  /\ UNCHANGED <<dispatchMode, countVars, ownershipMutex, buffers, batchVars, type, lastTask,
                 residencyVars, submitted, gpuVars, loc, todo, destroyed>>

Destroy(t) == DestroyDevice(t) \/ DestroyStore(t) \/ DestroyClean(t)

----------------------------------------------------------------------------
(* The GPU executes the submissions in order.                              *)

GpuExecute ==
  /\ executed < Len(submitted)
  /\ executed' = executed + 1
  /\ tag' = IF submitted[executed'].noop THEN tag ELSE submitted[executed'].n
  /\ UNCHANGED <<dispatchMode, countVars, ownershipMutex, stream, buffers, batchVars,
                 allocVars, residencyVars, submitted, threadVars, destroyed>>

----------------------------------------------------------------------------
Step(t) == enqueueHandler(t) \/ flushBatchedSubmissions(t) \/ wait(t) \/ Destroy(t)
Invoke(t) == \/ clFlush(t, "flush", "idle") \/ clFlush(t, "finish", "f_read")
             \/ checkGpuUsageAndDestroyGraphicsAllocations(t)

Destroyed == destroyed /\ \A t \in Threads : pc[t] = "idle"
\* while (*getTagAddress() < taskCountToWait)
Spin(t) == /\ \/ pc[t] = "w_spin" /\ tag < loc[t].n
              \/ pc[t] = "c_detach" /\ tag < loc[t].clean
              \/ pc[t] = "d_clean" /\ tag < latestFlushedTaskCount
           /\ UNCHANGED vars

Next == \/ \E t \in Threads : Step(t) \/ Invoke(t) \/ Spin(t)
        \/ GpuExecute
        \/ Destroyed /\ UNCHANGED vars

Spec == Init /\ [][Next]_vars

\* A thread goes on, and gets the ownership when it is released
\* again and again; the GPU executes what was submitted.
Fairness == /\ \A t \in Threads : SF_vars(Step(t) \/ Invoke(t))
            /\ WF_vars(GpuExecute)
FairSpec == Spec /\ Fairness

----------------------------------------------------------------------------
(* Properties.                                                             *)

\* What the GPU still has to access, or a call is about to let it access
InUse ==
  (UNION {submitted[i].accesses : i \in executed + 1..Len(submitted)})
    \cup (UNION {cmdBuffers[i].accesses : i \in DOMAIN cmdBuffers})
    \cup {loc[t].mine : t \in {u \in Threads : loc[u].call # None /\ pc[u] # "e_store"}}

\* freeAllocationsList, detachAllocationImpl and the release of a memory object
\* go by task counts that other threads are assigning: still, memory is freed
\* or handed out again only when no task that was submitted, or is batched, or
\* is being built, accesses it.
MemoryIsIdle ==
  [][\A a \in Allocations :
       \/ where[a] # "free" /\ where'[a] = "free"
       \/ where[a] = "reusable" /\ where'[a] = "held"
       => a \notin InUse]_vars

\* However command buffers are merged, and whatever an earlier inspection that
\* ran out of budget has marked, each submission makes resident all that its
\* tasks access.
SubmissionIsResident ==
  \A i \in DOMAIN submitted : submitted[i].accesses \subseteq submitted[i].resident

\* A thread that spins on the tag waits for a task that was submitted, although
\* it compared latestFlushedTaskCount without the ownership and others record
\* and flush batches meanwhile.
NobodyWaitsForABatch == \A t \in Threads : pc[t] = "w_spin" => loc[t].n <= Len(submitted)

\* Task counts are given out without gap in the order of submission, also
\* through a batch; neither latestFlushedTaskCount nor the tag, whose writes are
\* nooped inside a batch, is ever ahead of what it counts.
TaskCountsAreHonest ==
  /\ \A i \in DOMAIN submitted : submitted[i].n = i
  /\ \A i \in DOMAIN cmdBuffers : cmdBuffers[i].n = Len(submitted) + i
  /\ latestFlushedTaskCount <= Len(submitted)
  /\ tag <= executed

\* Destroying the receiver waits for the GPU and frees every allocation.
NothingLeftWhenDestroyed == Destroyed => \A a \in Allocations : where[a] = "free"

\* Every call returns, as no wait is for a task that nobody flushes: the
\* scenarios come to their end and the receiver is destroyed.
CallsReturn == <>[]Destroyed

\* Command buffers that need different coherency, priority or throttle are not
\* merged.
MergedAreCompatible ==
  \A i, j \in DOMAIN submitted :
    submitted[i].primary = submitted[j].primary => submitted[i].compat = submitted[j].compat
=============================================================================
