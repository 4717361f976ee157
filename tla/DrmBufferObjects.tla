-------------------------- MODULE DrmBufferObjects --------------------------
(***************************************************************************)
(* The life of the buffer objects of the Linux memory manager              *)
(* (runtime/os_interface/linux): DrmMemoryManager and DrmBufferObject,     *)
(* DrmCommandStreamReceiver::flush, and the thread of DrmGemCloseWorker.   *)
(*                                                                         *)
(* A buffer object is deleted by whoever drops its last reference.  flush  *)
(* takes a reference to the command buffer and hands it to the worker,     *)
(* which drops it when the GPU is done.  A buffer object imported from a   *)
(* dma-buf is shared by all imports of that dma-buf: it is looked up,      *)
(* referenced, dropped and closed under the memory manager's mtx.  A GEM   *)
(* handle has no count of its own: one GEM_CLOSE ends it for every import. *)
(***************************************************************************)
EXTENDS Integers, Sequences, FiniteSets, SequencesExt

CONSTANTS Threads,     \* application threads
          Worker,      \* the thread of DrmGemCloseWorker
          Destroyer,   \* the thread that deletes the memory manager
          CmdBos,      \* buffer objects of command buffers
          Fragments,   \* buffer objects of host pointer fragments
          pinBB,       \* the memory manager's own buffer object
          SharedBos,   \* buffer objects that imports may still create
          DmaBufs,     \* dma-bufs, named with the GEM handle they get
          HolderOf,    \* the thread that has the allocation of a private object
          MaxCalls,    \* bound: flushes and imports of each thread
          Nobody,      \* owner of a free mutex
          None

Procs == Threads \cup {Worker}
PrivateBos == CmdBos \cup Fragments \cup {pinBB}
Bos == PrivateBos \cup SharedBos

ASSUME ProcsAssumption ==
  /\ Worker \notin Threads /\ Nobody \notin Procs /\ Destroyer \in Threads
  /\ IsFiniteSet(Threads)
ASSUME BosAssumption ==
  /\ CmdBos \cap Fragments = {} /\ pinBB \notin CmdBos \cup Fragments
  /\ PrivateBos \cap SharedBos = {} /\ None \notin Bos \cup DmaBufs
  /\ HolderOf \in [PrivateBos -> Threads] /\ HolderOf[pinBB] = Destroyer
  /\ MaxCalls \in [Threads -> Nat]

VARIABLES life,        \* "none" before new, then "live", then "deleted"
          refCount,    \* BufferObject::refCount
          handle,      \* dma-buf whose GEM handle a shared object has, or None
          openHandles, \* GEM handles of dma-bufs the kernel has open
          sharing,     \* sharingBufferObjects
          holds,       \* holds[t][b]: DrmAllocations of t that refer to b
          gpu,         \* buffer objects the GPU still executes from
          mtx,         \* owner of DrmMemoryManager::mtx, or Nobody
          queue, localQueue, workCount, active, workerDone,
          closeWorkerMutex,
          pc, bo,      \* where each process is, and the object it works on
          calls        \* flushes and imports each thread has made

boVars == <<life, refCount, handle, openHandles, sharing, holds, mtx>>
workerVars == <<queue, localQueue, workCount, active, workerDone, closeWorkerMutex>>
vars == <<boVars, gpu, workerVars, pc, bo, calls>>

Labels == {"idle", "flush_reference", "push", "push_notify",
           "free_wait", "clean_wait", "import_handle", "import_find",
           "u_spin", "u_lock", "u_sub", "u_close", "u_delete",   \* unreference
           "d_notify", "d_pin", "d_worker", "d_close", "destroyed",
           "w_loop", "w_lock", "w_check", "w_sleep", "w_wait", "w_wake",
           "w_close", "w_count", "w_final", "w_drain", "w_done", "w_exit"}

TypeOK ==
  /\ life \in [Bos -> {"none", "live", "deleted"}]
  /\ refCount \in [Bos -> Nat]
  /\ handle \in [SharedBos -> DmaBufs \cup {None}]
  /\ openHandles \subseteq DmaBufs
  /\ sharing \subseteq SharedBos
  /\ holds \in [Threads -> [Bos -> Nat]]
  /\ gpu \subseteq Bos
  /\ mtx \in Procs \cup {Nobody}
  /\ queue \in Seq(Bos) /\ localQueue \in Seq(Bos)
  /\ workCount \in Nat
  /\ active \in BOOLEAN /\ workerDone \in BOOLEAN
  /\ closeWorkerMutex \in Procs \cup {Nobody}
  /\ pc \in [Procs -> Labels]
  /\ bo \in [Procs -> Bos \cup DmaBufs \cup {None}]
  /\ calls \in [Threads -> Nat]

\* After the constructor: the worker runs, each private object has its
\* allocation, nothing was flushed or imported.
Init ==
  /\ life = [b \in Bos |-> IF b \in PrivateBos THEN "live" ELSE "none"]
  /\ refCount = [b \in Bos |-> IF b \in PrivateBos THEN 1 ELSE 0]
  /\ handle = [b \in SharedBos |-> None]
  /\ openHandles = {} /\ sharing = {} /\ gpu = {}
  /\ holds = [t \in Threads |-> [b \in Bos |->
                IF b \in PrivateBos /\ HolderOf[b] = t THEN 1 ELSE 0]]
  /\ mtx = Nobody /\ closeWorkerMutex = Nobody
  /\ queue = <<>> /\ localQueue = <<>> /\ workCount = 0
  /\ active = TRUE /\ workerDone = FALSE
  /\ pc = [p \in Procs |-> IF p = Worker THEN "w_loop" ELSE "idle"]
  /\ bo = [p \in Procs |-> None]
  /\ calls = [t \in Threads |-> 0]

Goto(p, l) == pc' = [pc EXCEPT ![p] = l]
NotifyAndGoto(p, l) ==
  pc' = [pc EXCEPT ![p] = l, ![Worker] = IF @ = "w_wait" THEN "w_wake" ELSE @]
\* Calls start while the memory manager exists.
Begin(t, l, b) == /\ active /\ pc[t] = "idle"
                  /\ Goto(t, l) /\ bo' = [bo EXCEPT ![t] = b]
Counted(t) == calls[t] < MaxCalls[t] /\ calls' = [calls EXCEPT ![t] = @ + 1]
At(p, l) == pc[p] = l /\ UNCHANGED calls

----------------------------------------------------------------------------
(* DrmCommandStreamReceiver::flush and DrmGemCloseWorker::push.            *)

FlushExec(t, b) ==
  /\ b \in CmdBos /\ holds[t][b] > 0
  /\ Begin(t, "flush_reference", b) /\ Counted(t)
  /\ \E residency \in SUBSET {f \in Fragments : holds[t][f] > 0} :
        gpu' = gpu \cup {b} \cup residency
  /\ UNCHANGED <<boVars, workerVars>>

FlushReference_Skip(t) ==
  /\ At(t, "flush_reference") /\ Goto(t, "push")
  /\ UNCHANGED <<boVars, gpu, workerVars, bo>>

FlushReference(t) ==
  /\ At(t, "flush_reference") /\ Goto(t, "push")
  /\ refCount' = [refCount EXCEPT ![bo[t]] = @ + 1]
  /\ UNCHANGED <<life, handle, openHandles, sharing, holds, mtx, gpu, workerVars, bo>>

\* workCount++ and queue.push under closeWorkerMutex.
Push(t) ==
  /\ At(t, "push") /\ closeWorkerMutex = Nobody
  /\ queue' = Append(queue, bo[t])
  /\ workCount' = workCount + 1
  /\ Goto(t, "push_notify")
  /\ UNCHANGED <<boVars, gpu, localQueue, active, workerDone, closeWorkerMutex, bo>>

PushNotify_Silent(t) ==
  /\ At(t, "push_notify") /\ Goto(t, "idle")
  /\ UNCHANGED <<boVars, gpu, workerVars, bo>>

PushNotify(t) ==
  /\ At(t, "push_notify") /\ NotifyAndGoto(t, "idle")
  /\ UNCHANGED <<boVars, gpu, workerVars, bo>>

----------------------------------------------------------------------------
(* freeGraphicsMemory and cleanOsHandles: wait for the GPU, then drop the  *)
(* allocation's reference.                                                 *)

Release(t, b, l) ==
  /\ holds[t][b] > 0
  /\ holds' = [holds EXCEPT ![t][b] = @ - 1]
  /\ Begin(t, l, b)
  /\ UNCHANGED <<life, refCount, handle, openHandles, sharing, mtx, gpu,
                 workerVars, calls>>

freeGraphicsMemory(t, b) == b \in CmdBos \cup SharedBos /\ Release(t, b, "free_wait")
cleanOsHandles(t, b) == b \in Fragments /\ Release(t, b, "clean_wait")

\* BufferObject::wait(-1): DRM_IOCTL_I915_GEM_WAIT.
WaitIdle_Skip(t) ==
  /\ \/ At(t, "free_wait") /\ Goto(t, "u_lock")
     \/ At(t, "clean_wait") /\ Goto(t, "u_spin")
  /\ UNCHANGED <<boVars, gpu, workerVars, bo>>

WaitIdle(t) ==
  /\ bo[t] \notin gpu
  /\ \/ At(t, "free_wait") /\ Goto(t, "u_lock")
     \/ At(t, "clean_wait") /\ Goto(t, "u_spin")
  /\ UNCHANGED <<boVars, gpu, workerVars, bo>>

----------------------------------------------------------------------------
(* DrmMemoryManager::unreference.                                          *)

isReused(b) == b \in SharedBos
AfterUnreference(p) ==
  IF p = Worker THEN "w_count" ELSE IF bo[p] = pinBB THEN "d_worker" ELSE "idle"

\* synchronousDestroy
UnreferenceSpin(p) ==
  /\ At(p, "u_spin") /\ refCount[bo[p]] <= 1 /\ Goto(p, "u_lock")
  /\ UNCHANGED <<boVars, gpu, workerVars, bo>>

UnreferenceLock_Never(p) ==
  /\ At(p, "u_lock") /\ Goto(p, "u_sub")
  /\ UNCHANGED <<boVars, gpu, workerVars, bo>>

UnreferenceLock(p) ==
  /\ At(p, "u_lock") /\ Goto(p, "u_sub")
  /\ IF isReused(bo[p]) THEN mtx = Nobody /\ mtx' = p ELSE UNCHANGED mtx
  /\ UNCHANGED <<life, refCount, handle, openHandles, sharing, holds, gpu, workerVars, bo>>

Unlocked(p) == IF mtx = p THEN Nobody ELSE mtx

UnreferenceSub(p) ==
  /\ At(p, "u_sub")
  /\ refCount' = [refCount EXCEPT ![bo[p]] = @ - 1]
  /\ \/ refCount[bo[p]] = 1 /\ Goto(p, "u_close") /\ UNCHANGED mtx
     \/ refCount[bo[p]] # 1 /\ Goto(p, AfterUnreference(p)) /\ mtx' = Unlocked(p)
  /\ UNCHANGED <<life, handle, openHandles, sharing, holds, gpu, workerVars, bo>>

\* eraseSharedBufferObject, BufferObject::close, unlock.
UnreferenceClose(p) ==
  /\ At(p, "u_close") /\ Goto(p, "u_delete")
  /\ sharing' = sharing \ {bo[p]}
  /\ IF isReused(bo[p])
       THEN /\ openHandles' = openHandles \ {handle[bo[p]]}
            /\ handle' = [handle EXCEPT ![bo[p]] = None]
       ELSE UNCHANGED <<openHandles, handle>>
  /\ mtx' = Unlocked(p)
  /\ UNCHANGED <<life, refCount, holds, gpu, workerVars, bo>>

UnreferenceDelete(p) ==
  /\ At(p, "u_delete") /\ Goto(p, AfterUnreference(p))
  /\ life' = [life EXCEPT ![bo[p]] = "deleted"]
  /\ UNCHANGED <<refCount, handle, openHandles, sharing, holds, mtx, gpu, workerVars, bo>>

----------------------------------------------------------------------------
(* createGraphicsAllocationFromSharedHandle: the ioctl and the lookup are  *)
(* done with mtx held.                                                     *)

Import(t, d) ==
  /\ Begin(t, "import_handle", d) /\ Counted(t)
  /\ UNCHANGED <<boVars, gpu, workerVars>>

\* DRM_IOCTL_PRIME_FD_TO_HANDLE may fail; a dma-buf has one handle while it is
\* open.
ImportHandle(t) ==
  /\ At(t, "import_handle") /\ mtx = Nobody
  /\ \/ /\ openHandles' = openHandles \cup {bo[t]}
        /\ mtx' = t /\ Goto(t, "import_find")
     \/ Goto(t, "idle") /\ UNCHANGED <<openHandles, mtx>>
  /\ UNCHANGED <<life, refCount, handle, sharing, holds, gpu, workerVars, bo>>

SharedWith(d) == {b \in sharing : handle[b] = d}

findAndReferenceSharedBufferObject(t, b) ==
  /\ b \in SharedWith(bo[t])
  /\ refCount' = [refCount EXCEPT ![b] = @ + 1]
  /\ UNCHANGED <<life, handle, sharing>>

createSharedBufferObject(t, b) ==
  /\ SharedWith(bo[t]) = {}
  /\ life[b] = "none"
  /\ life' = [life EXCEPT ![b] = "live"]
  /\ refCount' = [refCount EXCEPT ![b] = 1]
  /\ handle' = [handle EXCEPT ![b] = bo[t]]
  /\ sharing' = sharing \cup {b}

ImportFind(t) ==
  /\ At(t, "import_find") /\ Goto(t, "idle") /\ mtx' = Unlocked(t)
  /\ \/ \E b \in SharedBos :
          /\ \/ findAndReferenceSharedBufferObject(t, b)
             \/ createSharedBufferObject(t, b)
          /\ holds' = [holds EXCEPT ![t][b] = @ + 1]
     \/ /\ SharedWith(bo[t]) = {}                  \* new (std::nothrow) failed
        /\ UNCHANGED <<life, refCount, handle, sharing, holds>>
  /\ UNCHANGED <<openHandles, gpu, workerVars, bo>>

----------------------------------------------------------------------------
(* DrmGemCloseWorker::worker.                                              *)

WorkerLoop ==
  /\ At(Worker, "w_loop") /\ Goto(Worker, IF active THEN "w_lock" ELSE "w_final")
  /\ UNCHANGED <<boVars, gpu, workerVars, bo>>

WorkerLock ==
  /\ \/ At(Worker, "w_lock") /\ Goto(Worker, "w_check")
     \/ At(Worker, "w_wake") /\ Goto(Worker, "w_check")
     \/ At(Worker, "w_final") /\ Goto(Worker, "w_drain")
  /\ closeWorkerMutex = Nobody /\ closeWorkerMutex' = Worker
  /\ UNCHANGED <<boVars, gpu, queue, localQueue, workCount, active, workerDone, bo>>

\* active is written without closeWorkerMutex: it may change between this test
\* and the wait.
WorkerCheck ==
  /\ At(Worker, "w_check")
  /\ \/ /\ queue = <<>> /\ active /\ Goto(Worker, "w_sleep")
        /\ UNCHANGED <<queue, localQueue, closeWorkerMutex>>
     \/ /\ queue # <<>> \/ ~active
        /\ localQueue' = queue /\ queue' = <<>>                     \* swap
        /\ closeWorkerMutex' = Nobody /\ Goto(Worker, "w_close")
  /\ UNCHANGED <<boVars, gpu, workCount, active, workerDone, bo>>

WorkerSleep ==
  /\ At(Worker, "w_sleep") /\ Goto(Worker, "w_wait")
  /\ closeWorkerMutex' = Nobody
  /\ UNCHANGED <<boVars, gpu, queue, localQueue, workCount, active, workerDone, bo>>

SpuriousWake ==
  /\ At(Worker, "w_wait") /\ Goto(Worker, "w_wake")
  /\ UNCHANGED <<boVars, gpu, workerVars, bo>>

\* close(bo): wait(-1), then unreference.
WorkerClose ==
  /\ At(Worker, "w_close")
  /\ \/ /\ localQueue # <<>> /\ Head(localQueue) \notin gpu
        /\ bo' = [bo EXCEPT ![Worker] = Head(localQueue)]
        /\ localQueue' = Tail(localQueue)
        /\ Goto(Worker, "u_lock")
     \/ localQueue = <<>> /\ Goto(Worker, "w_loop") /\ UNCHANGED <<localQueue, bo>>
  /\ UNCHANGED <<boVars, gpu, queue, workCount, active, workerDone, closeWorkerMutex>>

WorkerCount ==
  /\ At(Worker, "w_count")
  /\ workCount' = workCount - 1
  /\ Goto(Worker, IF closeWorkerMutex = Worker THEN "w_drain" ELSE "w_close")
  /\ UNCHANGED <<boVars, gpu, queue, localQueue, active, workerDone, closeWorkerMutex, bo>>

WorkerDrain_Skip ==
  /\ At(Worker, "w_drain") /\ Goto(Worker, "w_done")
  /\ closeWorkerMutex' = Nobody
  /\ UNCHANGED <<boVars, gpu, queue, localQueue, workCount, active, workerDone, bo>>

\* What was pushed after the last swap is closed with the mutex held.
WorkerDrain ==
  /\ At(Worker, "w_drain")
  /\ \/ /\ queue # <<>> /\ Head(queue) \notin gpu
        /\ bo' = [bo EXCEPT ![Worker] = Head(queue)]
        /\ queue' = Tail(queue)
        /\ Goto(Worker, "u_lock") /\ UNCHANGED closeWorkerMutex
     \/ /\ queue = <<>> /\ Goto(Worker, "w_done")
        /\ closeWorkerMutex' = Nobody /\ UNCHANGED <<queue, bo>>
  /\ UNCHANGED <<boVars, gpu, localQueue, workCount, active, workerDone>>

WorkerDone ==
  /\ At(Worker, "w_done") /\ Goto(Worker, "w_exit")
  /\ workerDone' = TRUE
  /\ UNCHANGED <<boVars, gpu, queue, localQueue, workCount, active, closeWorkerMutex, bo>>

----------------------------------------------------------------------------
(* ~DrmMemoryManager: close(false), the pinning object, ~DrmGemCloseWorker.*)

Destroy ==
  /\ \A t \in Threads : pc[t] = "idle"
  /\ active /\ active' = FALSE
  /\ Goto(Destroyer, "d_notify")
  /\ UNCHANGED <<boVars, gpu, queue, localQueue, workCount, workerDone,
                 closeWorkerMutex, bo, calls>>

DestroyNotify ==
  /\ At(Destroyer, "d_notify") /\ NotifyAndGoto(Destroyer, "d_pin")
  /\ UNCHANGED <<boVars, gpu, workerVars, bo>>

DestroyPin ==
  /\ At(Destroyer, "d_pin") /\ Goto(Destroyer, "u_lock")
  /\ bo' = [bo EXCEPT ![Destroyer] = pinBB]
  /\ holds' = [holds EXCEPT ![Destroyer][pinBB] = 0]
  /\ UNCHANGED <<life, refCount, handle, openHandles, sharing, mtx, gpu, workerVars>>

DestroyWorker ==
  /\ At(Destroyer, "d_worker") /\ Goto(Destroyer, "d_close")
  /\ active' = FALSE
  /\ UNCHANGED <<boVars, gpu, queue, localQueue, workCount, workerDone,
                 closeWorkerMutex, bo>>

closeThread_NotifyOnce ==
  /\ At(Destroyer, "d_close")
  /\ workerDone /\ pc[Worker] = "w_exit" /\ Goto(Destroyer, "destroyed")
  /\ UNCHANGED <<boVars, gpu, workerVars, bo>>

\* closeThread notifies until the worker is done, then joins it.
closeThread ==
  /\ At(Destroyer, "d_close")
  /\ \/ ~workerDone /\ NotifyAndGoto(Destroyer, "d_close")
     \/ workerDone /\ pc[Worker] = "w_exit" /\ Goto(Destroyer, "destroyed")
  /\ UNCHANGED <<boVars, gpu, workerVars, bo>>

GpuComplete ==
  /\ \E b \in gpu : gpu' = gpu \ {b}
  /\ UNCHANGED <<boVars, workerVars, pc, bo, calls>>

----------------------------------------------------------------------------
Unreference(p) == \/ UnreferenceSpin(p) \/ UnreferenceLock(p) \/ UnreferenceSub(p)
                  \/ UnreferenceClose(p) \/ UnreferenceDelete(p)

ThreadStep(t) == \/ FlushReference(t) \/ Push(t) \/ PushNotify(t)
                 \/ WaitIdle(t) \/ ImportHandle(t) \/ ImportFind(t)
                 \/ Unreference(t)

WorkerStep == \/ WorkerLoop \/ WorkerLock \/ WorkerCheck \/ WorkerSleep
              \/ WorkerClose \/ WorkerCount \/ WorkerDrain \/ WorkerDone
              \/ Unreference(Worker)

DestroyStep == DestroyNotify \/ DestroyPin \/ DestroyWorker \/ closeThread

Call(t) == \/ \E b \in Bos : FlushExec(t, b) \/ freeGraphicsMemory(t, b)
                                \/ cleanOsHandles(t, b)
           \/ \E d \in DmaBufs : Import(t, d)

Next == \/ \E t \in Threads : Call(t) \/ ThreadStep(t)
        \/ WorkerStep \/ SpuriousWake
        \/ Destroy \/ DestroyStep \/ GpuComplete

Spec == Init /\ [][Next]_vars

\* A call that was started is continued, the worker is scheduled, the GPU
\* finishes what it was given.  No call and no spurious wakeup has to happen.
Fairness == /\ \A t \in Threads : WF_vars(ThreadStep(t))
            /\ WF_vars(WorkerStep) /\ WF_vars(DestroyStep) /\ WF_vars(GpuComplete)

FairSpec == Spec /\ Fairness

----------------------------------------------------------------------------
(* Properties.                                                             *)

Count(q, b) == Cardinality({i \in DOMAIN q : q[i] = b})

\* References a process has taken and not handed on, or is about to drop.
InHand(p, b) ==
  bo[p] = b /\ pc[p] \in {"push", "free_wait", "clean_wait", "u_spin", "u_lock", "u_sub"}

\* The allocations that refer to an object, as pairs of a thread and a number,
\* and the running calls.
Allocated(b) == UNION {{t} \X (1..holds[t][b]) : t \in Threads}
Running(b) == {p \in Procs : InHand(p, b)}

\* BufferObject::refCount is, at every step of flush, unreference, import and the
\* worker, the number of allocations, queued work items and running calls that
\* refer to the object.
RefCountExact ==
  \A b \in Bos :
    refCount[b] = Cardinality(Allocated(b)) + Cardinality(Running(b))
                  + Count(queue, b) + Count(localQueue, b)

\* No object that an allocation, the worker's queues, sharingBufferObjects, a
\* running call or the GPU still refers to has been deleted by the thread that
\* dropped its last reference in unreference: the memory of a command buffer or of
\* a host pointer fragment goes back to its owner after the GPU's last access.
NoUseAfterDelete ==
  \A b \in Bos :
    life[b] = "deleted" =>
      /\ \A t \in Threads : holds[t][b] = 0
      /\ b \notin ToSet(queue) \cup ToSet(localQueue) \cup sharing \cup gpu
      /\ \A p \in Procs : bo[p] = b =>
           pc[p] \notin {"push", "free_wait", "clean_wait", "u_spin", "u_lock",
                         "u_sub", "u_close", "u_delete", "flush_reference"}

\* Each imported object that an allocation refers to has an open GEM handle, and
\* shares it with no other live object: no GEM_CLOSE of another thread hits it.
SharedHandleOpen ==
  \A b \in SharedBos :
    (\E t \in Threads : holds[t][b] > 0) =>
      /\ handle[b] \in openHandles
      /\ \A c \in SharedBos \ {b} : handle[c] # handle[b]

\* When ~DrmMemoryManager has destroyed the worker, every object pushed to it was
\* unreferenced and counted out, whatever the worker was doing at close(false).
NothingLeftWhenDestroyed ==
  pc[Destroyer] = "destroyed" => queue = <<>> /\ localQueue = <<>> /\ workCount = 0

\* The notification of push is not lost: the worker drops each reference that
\* flush hands to it, also when nobody ever closes the worker.
PushedIsUnreferenced ==
  \A b \in CmdBos : (Count(queue, b) + Count(localQueue, b) > 0)
                      ~> (Count(queue, b) + Count(localQueue, b) = 0)

\* closeThread ends, although close(false) notifies without the mutex and the
\* worker may miss it between its test of active and its wait.
DestructorReturns == (pc[Destroyer] = "d_notify") ~> (pc[Destroyer] = "destroyed")

=============================================================================
