-------------------------- MODULE DeferredDeleter --------------------------
(***************************************************************************)
(* DeferredDeleter (runtime/memory_manager/deferred_deleter.cpp) together  *)
(* with the deletions it applies (deferrable_allocation_deletion.cpp and   *)
(* the Windows DeferrableDeletionImpl).                                    *)
(*                                                                         *)
(* A deletion is queued under queueMutex and applied, without that mutex,  *)
(* by whichever thread runs clearQueue: the worker, a draining thread or a *)
(* stopping thread.  The IDList has a spin lock of its own, so each list   *)
(* operation is one atomic step.  elementsToRelease is an atomic that      *)
(* drain(true) polls without any lock.                                     *)
(*                                                                         *)
(* The class has two instances.  MemoryManager::deferredDeleter has a      *)
(* worker while some context is its client, and deletions whose apply()    *)
(* always succeeds: LastUse is NotUsed everywhere.  The multi context      *)
(* resource destructor never has a client, and deletions that can only be  *)
(* applied when every engine's tag has reached the allocation's count.     *)
(***************************************************************************)
EXTENDS Integers, Sequences, FiniteSets

CONSTANTS Threads,       \* application threads calling into the deleter
          Worker,        \* the thread created by ensureThread
          Deletions,     \* DeferrableDeletion objects, one per allocation
          Contexts,      \* OS contexts (engines) of the memory manager
          LastUse,       \* LastUse[d][c]: task count of d's last use in c
          Submitted,     \* Submitted[c]: task count of c's command stream
          NotUsed,       \* GraphicsAllocation::objectNotUsed
          Nobody,        \* owner of a free mutex
          None,          \* the null deletion
          DrainModes,    \* arguments the owner calls drain() with
          MaxClients     \* bound on the contexts that are clients at once

Actors == Threads \cup {Worker}

ASSUME ActorsAssumption == Worker \notin Threads /\ Nobody \notin Actors
ASSUME DeletionsAssumption == IsFiniteSet(Deletions) /\ None \notin Deletions
ASSUME TaskCountAssumption ==
  /\ NotUsed \notin Nat
  /\ Submitted \in [Contexts -> Nat]
  /\ LastUse \in [Deletions -> [Contexts -> Nat \cup {NotUsed}]]
  /\ \A d \in Deletions, c \in Contexts :
        LastUse[d][c] # NotUsed => LastUse[d][c] <= Submitted[c]
ASSUME OwnerAssumption == MaxClients \in Nat /\ DrainModes \subseteq BOOLEAN

VARIABLES queue,              \* IDList<DeferrableDeletion>
          elementsToRelease,  \* std::atomic<int>
          doWorkInBackground, \* std::atomic<bool>
          worker,             \* worker != nullptr
          numClients,
          queueMutex,         \* owner, or Nobody
          threadMutex,        \* owner, or Nobody
          pc,                 \* where each thread is
          op,                 \* the public operation a thread is executing
          held,               \* the unique_ptr deletion of clearQueue
          scan,               \* engines apply() has still to look at
          life,               \* what became of each deletion
          usage,              \* GraphicsAllocation::usageInfos[c].taskCount
          tag,                \* *getTagAddress() of each engine
          flushed,            \* last task count handed to the GPU
          alive               \* the destructor has not been entered

vars == <<queue, elementsToRelease, doWorkInBackground, worker, numClients,
          queueMutex, threadMutex, pc, op, held, scan, life, usage, tag,
          flushed, alive>>

Labels == {"idle",
           "d_lock", "d_push", "d_notify",                \* deferDeletion
           "s_lock", "s_check", "s_notify", "s_join",     \* stop
           "c_pop", "c_scan", "c_push", "c_dec", "c_loop",\* clearQueue
           "spin",                                        \* drain(true)
           "w_none", "w_start", "w_loop", "w_wait", "w_wake",
           "w_lock", "w_done"}                            \* run

Ops == {"none", "defer", "destroyAllocation", "drain", "blockingDrain",
        "stop", "run"}

TypeOK ==
  /\ queue \in Seq(Deletions)
  /\ elementsToRelease \in Int
  /\ doWorkInBackground \in BOOLEAN
  /\ worker \in BOOLEAN
  /\ numClients \in 0..MaxClients
  /\ queueMutex \in Actors \cup {Nobody}
  /\ threadMutex \in Actors \cup {Nobody}
  /\ pc \in [Actors -> Labels]
  /\ op \in [Actors -> Ops]
  /\ held \in [Actors -> Deletions \cup {None}]
  /\ scan \in [Actors -> SUBSET Contexts]
  /\ life \in [Deletions -> {"live", "handed", "deferred", "applied", "freed"}]
  /\ usage \in [Deletions -> [Contexts -> Nat \cup {NotUsed}]]
  /\ tag \in [Contexts -> Nat]
  /\ flushed \in [Contexts -> Nat]
  /\ alive \in BOOLEAN

----------------------------------------------------------------------------
(* GraphicsAllocation: usage of an allocation per OS context.              *)

isUsedByOsContext(d, c) == usage[d][c] # NotUsed
UsedContexts(d) == {c \in Contexts : isUsedByOsContext(d, c)}
isUsed(d) == UsedContexts(d) # {}
isUsedByManyOsContexts(d) == Cardinality(UsedContexts(d)) > 1

----------------------------------------------------------------------------
(* The constructor: no worker, nothing queued.  The GPU may be anywhere    *)
(* between having seen nothing and having finished all that was submitted. *)

Init ==
  /\ queue = <<>>
  /\ elementsToRelease = 0
  /\ doWorkInBackground = FALSE
  /\ worker = FALSE
  /\ numClients = 0
  /\ queueMutex = Nobody
  /\ threadMutex = Nobody
  /\ pc = [a \in Actors |-> IF a = Worker THEN "w_none" ELSE "idle"]
  /\ op = [a \in Actors |-> IF a = Worker THEN "run" ELSE "none"]
  /\ held = [a \in Actors |-> None]
  /\ scan = [a \in Actors |-> {}]
  /\ life = [d \in Deletions |-> "live"]
  /\ usage = LastUse
  /\ tag = [c \in Contexts |-> 0]
  /\ flushed \in [Contexts -> UNION {0..Submitted[c] : c \in Contexts}]
  /\ \A c \in Contexts : flushed[c] <= Submitted[c]
  /\ alive = TRUE

Goto(a, l) == pc' = [pc EXCEPT ![a] = l]
Call(t, o, l) == /\ alive
                 /\ pc[t] = "idle"
                 /\ op' = [op EXCEPT ![t] = o]
                 /\ Goto(t, l)
Return(t) == op' = [op EXCEPT ![t] = "none"] /\ Goto(t, "idle")

\* condition.notify_one(): the worker is the only thread that ever waits.
NotifyAndGoto(t, l) ==
  pc' = [pc EXCEPT ![t] = l,
                   ![Worker] = IF @ = "w_wait" THEN "w_wake" ELSE @]

gpuVars == <<usage, tag, flushed>>
clearVars == <<held, scan>>
threadVars == <<worker, numClients, threadMutex, alive>>

----------------------------------------------------------------------------
(* deferDeletion, reached through WddmMemoryManager::tryDeferDeletions, or *)
(* through checkGpuUsageAndDestroyGraphicsAllocations, which drains next.  *)

tryDeferDeletions(t, d) ==
  /\ life[d] = "live"
  /\ ~isUsed(d)
  /\ Call(t, "defer", "d_lock")
  /\ held' = [held EXCEPT ![t] = d]
  /\ life' = [life EXCEPT ![d] = "handed"]
  /\ UNCHANGED <<queue, elementsToRelease, doWorkInBackground, queueMutex,
                 scan, threadVars, gpuVars>>

checkGpuUsageAndDestroy(t, d) ==
  /\ life[d] = "live"
  /\ isUsedByManyOsContexts(d)
  /\ Call(t, "destroyAllocation", "d_lock")
  /\ held' = [held EXCEPT ![t] = d]
  /\ life' = [life EXCEPT ![d] = "handed"]
  /\ UNCHANGED <<queue, elementsToRelease, doWorkInBackground, queueMutex,
                 scan, threadVars, gpuVars>>

\* Mutant: elementsToRelease is not incremented.
DeferCount_Uncounted(t) ==
  /\ pc[t] = "d_lock"
  /\ queueMutex = Nobody
  /\ queueMutex' = t
  /\ life' = [life EXCEPT ![held[t]] = "deferred"]
  /\ Goto(t, "d_push")
  /\ UNCHANGED <<queue, elementsToRelease, doWorkInBackground, op, clearVars,
                 threadVars, gpuVars>>

\* lock(queueMutex); elementsToRelease++
DeferCount(t) ==
  /\ pc[t] = "d_lock"
  /\ queueMutex = Nobody
  /\ queueMutex' = t
  /\ elementsToRelease' = elementsToRelease + 1
  /\ life' = [life EXCEPT ![held[t]] = "deferred"]
  /\ Goto(t, "d_push")
  /\ UNCHANGED <<queue, doWorkInBackground, op, clearVars, threadVars, gpuVars>>

\* queue.pushTailOne(*deletion); lock.unlock()
DeferPush(t) ==
  /\ pc[t] = "d_push"
  /\ queue' = Append(queue, held[t])
  /\ held' = [held EXCEPT ![t] = None]
  /\ queueMutex' = Nobody
  /\ Goto(t, "d_notify")
  /\ UNCHANGED <<elementsToRelease, doWorkInBackground, op, scan, life,
                 threadVars, gpuVars>>

\* Mutant: deferDeletion does not notify.
DeferNotify_Silent(t) ==
  /\ pc[t] = "d_notify"
  /\ Return(t)
  /\ UNCHANGED <<queue, elementsToRelease, doWorkInBackground, queueMutex,
                 life, clearVars, threadVars, gpuVars>>

\* condition.notify_one(), then return, or drain(false) in the caller
DeferNotify(t) ==
  /\ pc[t] = "d_notify"
  /\ \/ /\ op[t] = "defer"
        /\ NotifyAndGoto(t, "idle")
        /\ op' = [op EXCEPT ![t] = "none"]
     \/ /\ op[t] = "destroyAllocation"
        /\ NotifyAndGoto(t, "c_pop")
        /\ UNCHANGED op
  /\ UNCHANGED <<queue, elementsToRelease, doWorkInBackground, queueMutex,
                 life, clearVars, threadVars, gpuVars>>

----------------------------------------------------------------------------
(* Clients.  numClients and worker are only touched under threadMutex.     *)

addClient(t) ==
  /\ alive
  /\ pc[t] = "idle"
  /\ threadMutex = Nobody
  /\ numClients < MaxClients
  /\ numClients' = numClients + 1
  /\ worker' = TRUE
  /\ pc' = IF worker THEN pc ELSE [pc EXCEPT ![Worker] = "w_start"]
  /\ UNCHANGED <<queue, elementsToRelease, doWorkInBackground, queueMutex,
                 threadMutex, op, clearVars, life, gpuVars, alive>>

\* Where stop() starts: without a worker only drain(false) is left to do.
StopEntry == IF worker THEN "s_lock" ELSE "c_pop"

removeClient(t) ==
  /\ alive
  /\ pc[t] = "idle"
  /\ threadMutex = Nobody
  /\ numClients > 0
  /\ numClients' = numClients - 1
  /\ IF numClients' = 0
       THEN threadMutex' = t /\ Call(t, "stop", StopEntry)
       ELSE UNCHANGED <<threadMutex, pc, op>>
  /\ UNCHANGED <<queue, elementsToRelease, doWorkInBackground, queueMutex,
                 worker, clearVars, life, gpuVars, alive>>

\* Mutant: the destructor does not stop, hence does not drain.
Destructor_NoStop(t) ==
  /\ \A u \in Threads : pc[u] = "idle"
  /\ numClients = 0
  /\ alive
  /\ alive' = FALSE
  /\ UNCHANGED <<queue, elementsToRelease, doWorkInBackground, queueMutex,
                 worker, numClients, threadMutex, pc, op, clearVars, life,
                 gpuVars>>

\* ~DeferredDeleter: its owner has no other call in progress, and every
\* context, which keeps the device alive, has removed itself.
Destructor(t) ==
  /\ \A u \in Threads : pc[u] = "idle"
  /\ numClients = 0
  /\ threadMutex = Nobody
  /\ threadMutex' = t
  /\ Call(t, "stop", StopEntry)
  /\ alive' = FALSE
  /\ UNCHANGED <<queue, elementsToRelease, doWorkInBackground, queueMutex,
                 worker, numClients, clearVars, life, gpuVars>>

----------------------------------------------------------------------------
(* stop(), with threadMutex held.                                          *)

StopLock(t) ==
  /\ pc[t] = "s_lock"
  /\ queueMutex = Nobody
  /\ queueMutex' = t
  /\ Goto(t, "s_check")
  /\ UNCHANGED <<queue, elementsToRelease, doWorkInBackground, op, clearVars,
                 life, threadVars, gpuVars>>

\* while (!doWorkInBackground) { unlock; lock; }  doWorkInBackground = false
StopCheck(t) ==
  /\ pc[t] = "s_check"
  /\ queueMutex' = Nobody
  /\ doWorkInBackground' = FALSE
  /\ Goto(t, IF doWorkInBackground THEN "s_notify" ELSE "s_lock")
  /\ UNCHANGED <<queue, elementsToRelease, op, clearVars, life, threadVars,
                 gpuVars>>

\* Mutant: stop() does not notify the worker.
StopNotify_Silent(t) ==
  /\ pc[t] = "s_notify"
  /\ Goto(t, "s_join")
  /\ UNCHANGED <<queue, elementsToRelease, doWorkInBackground, queueMutex, op,
                 clearVars, life, threadVars, gpuVars>>

StopNotify(t) ==
  /\ pc[t] = "s_notify"
  /\ NotifyAndGoto(t, "s_join")
  /\ UNCHANGED <<queue, elementsToRelease, doWorkInBackground, queueMutex, op,
                 clearVars, life, threadVars, gpuVars>>

\* Mutant: the joined worker is not reset.
StopJoin_NoReset(t) ==
  /\ pc[t] = "s_join"
  /\ pc[Worker] = "w_done"
  /\ Goto(t, "c_pop")
  /\ UNCHANGED <<queue, elementsToRelease, doWorkInBackground, queueMutex, op,
                 clearVars, life, threadVars, gpuVars>>

\* worker->join(); worker.reset(); then drain(false)
StopJoin(t) ==
  /\ pc[t] = "s_join"
  /\ pc[Worker] = "w_done"
  /\ worker' = FALSE
  /\ pc' = [pc EXCEPT ![t] = "c_pop", ![Worker] = "w_none"]
  /\ UNCHANGED <<queue, elementsToRelease, doWorkInBackground, queueMutex, op,
                 clearVars, life, numClients, threadMutex, alive, gpuVars>>

----------------------------------------------------------------------------
(* drain(blocking) *)

drain(t, blocking) ==
  /\ Call(t, IF blocking THEN "blockingDrain" ELSE "drain", "c_pop")
  /\ UNCHANGED <<queue, elementsToRelease, doWorkInBackground, queueMutex,
                 clearVars, life, threadVars, gpuVars>>

\* Mutant: the blocking drain looks at the queue instead of the counter.
DrainSpin_QueueEmpty(t) ==
  /\ pc[t] = "spin"
  /\ queue = <<>>
  /\ Return(t)
  /\ UNCHANGED <<queue, elementsToRelease, doWorkInBackground, queueMutex,
                 clearVars, life, threadVars, gpuVars>>

\* while (!areElementsReleased());
DrainSpin(t) ==
  /\ pc[t] = "spin"
  /\ elementsToRelease = 0
  /\ Return(t)
  /\ UNCHANGED <<queue, elementsToRelease, doWorkInBackground, queueMutex,
                 clearVars, life, threadVars, gpuVars>>

----------------------------------------------------------------------------
(* clearQueue(), executed by any actor and without queueMutex.             *)

\* Mutant: the head is read but not unlinked in the same critical section.
ClearPop_Peek(a) ==
  /\ pc[a] = "c_pop"
  /\ IF queue = <<>>
       THEN Goto(a, "c_loop") /\ UNCHANGED clearVars
       ELSE /\ held' = [held EXCEPT ![a] = Head(queue)]
            /\ scan' = [scan EXCEPT ![a] = UsedContexts(Head(queue))]
            /\ Goto(a, "c_scan")
  /\ UNCHANGED <<queue, elementsToRelease, doWorkInBackground, queueMutex, op,
                 life, threadVars, gpuVars>>

\* queue.removeFrontOne(), and the entry of apply()
ClearPop(a) ==
  /\ pc[a] = "c_pop"
  /\ \/ /\ queue = <<>>
        /\ Goto(a, "c_loop")
        /\ UNCHANGED <<queue, clearVars>>
     \/ /\ queue # <<>>
        /\ queue' = Tail(queue)
        /\ held' = [held EXCEPT ![a] = Head(queue)]
        /\ scan' = [scan EXCEPT ![a] = UsedContexts(Head(queue))]
        /\ Goto(a, "c_scan")
  /\ UNCHANGED <<elementsToRelease, doWorkInBackground, queueMutex, op, life,
                 threadVars, gpuVars>>

\* Mutant: one task too early.
ApplyEngine_OffByOne(a, c) ==
  /\ pc[a] = "c_scan"
  /\ c \in scan[a]
  /\ scan' = [scan EXCEPT ![a] = @ \ {c}]
  /\ IF usage[held[a]][c] <= tag[c] + 1
       THEN usage' = [usage EXCEPT ![held[a]][c] = NotUsed]
       ELSE UNCHANGED usage
  /\ UNCHANGED <<queue, elementsToRelease, doWorkInBackground, queueMutex, pc,
                 op, held, life, tag, flushed, threadVars>>

\* Mutant: a context whose work is still batched is not flushed.
ApplyEngine_NoFlush(a, c) ==
  /\ pc[a] = "c_scan"
  /\ c \in scan[a]
  /\ scan' = [scan EXCEPT ![a] = @ \ {c}]
  /\ IF usage[held[a]][c] <= tag[c]
       THEN usage' = [usage EXCEPT ![held[a]][c] = NotUsed]
       ELSE UNCHANGED usage
  /\ UNCHANGED <<queue, elementsToRelease, doWorkInBackground, queueMutex, pc,
                 op, held, life, tag, flushed, threadVars>>

\* apply(), one engine: release the usage the GPU is done with, otherwise
\* flush what that engine's command stream receiver still batches.
ApplyEngine(a, c) ==
  /\ pc[a] = "c_scan"
  /\ c \in scan[a]
  /\ scan' = [scan EXCEPT ![a] = @ \ {c}]
  /\ IF usage[held[a]][c] <= tag[c]
       THEN /\ usage' = [usage EXCEPT ![held[a]][c] = NotUsed]
            /\ UNCHANGED flushed
       ELSE /\ flushed' = [flushed EXCEPT ![c] = Submitted[c]]
            /\ UNCHANGED usage
  /\ UNCHANGED <<queue, elementsToRelease, doWorkInBackground, queueMutex, pc,
                 op, held, life, tag, threadVars>>

\* apply() ends: still used, or freeGraphicsMemory
ApplyEnd(a) ==
  /\ pc[a] = "c_scan"
  /\ scan[a] = {}
  /\ IF isUsed(held[a])
       THEN Goto(a, "c_push") /\ UNCHANGED life
       ELSE Goto(a, "c_dec") /\ life' = [life EXCEPT ![held[a]] = "applied"]
  /\ UNCHANGED <<queue, elementsToRelease, doWorkInBackground, queueMutex, op,
                 clearVars, threadVars, gpuVars>>

\* apply() was false: queue.pushTailOne(*deletion.release())
ClearPushBack(a) ==
  /\ pc[a] = "c_push"
  /\ queue' = Append(queue, held[a])
  /\ held' = [held EXCEPT ![a] = None]
  /\ Goto(a, "c_loop")
  /\ UNCHANGED <<elementsToRelease, doWorkInBackground, queueMutex, op, scan,
                 life, threadVars, gpuVars>>

\* apply() was true: elementsToRelease--
ClearCount(a) ==
  /\ pc[a] = "c_dec"
  /\ elementsToRelease' = elementsToRelease - 1
  /\ life' = [life EXCEPT ![held[a]] = "freed"]
  /\ held' = [held EXCEPT ![a] = None]
  /\ Goto(a, "c_loop")
  /\ UNCHANGED <<queue, doWorkInBackground, queueMutex, op, scan, threadVars,
                 gpuVars>>

\* while (!queue.peekIsEmpty()), and the return to the caller of clearQueue
ClearLoop(a) ==
  /\ pc[a] = "c_loop"
  /\ \/ /\ queue # <<>>
        /\ Goto(a, "c_pop")
        /\ UNCHANGED <<op, threadMutex>>
     \/ /\ queue = <<>>
        /\ op[a] \in {"drain", "destroyAllocation"}
        /\ Return(a)
        /\ UNCHANGED threadMutex
     \/ /\ queue = <<>>
        /\ op[a] = "blockingDrain"
        /\ Goto(a, "spin")
        /\ UNCHANGED <<op, threadMutex>>
     \/ /\ queue = <<>>
        /\ op[a] = "stop"
        /\ threadMutex' = Nobody
        /\ Return(a)
     \/ /\ queue = <<>>
        /\ op[a] = "run"
        /\ Goto(a, "w_lock")
        /\ UNCHANGED <<op, threadMutex>>
  /\ UNCHANGED <<queue, elementsToRelease, doWorkInBackground, queueMutex,
                 worker, numClients, clearVars, life, gpuVars, alive>>

----------------------------------------------------------------------------
(* run(), the worker's thread function.                                    *)

RunStart ==
  /\ pc[Worker] = "w_start"
  /\ queueMutex = Nobody
  /\ queueMutex' = Worker
  /\ doWorkInBackground' = TRUE
  /\ Goto(Worker, "w_loop")
  /\ UNCHANGED <<queue, elementsToRelease, op, clearVars, life, threadVars,
                 gpuVars>>

\* if (queue.peekIsEmpty()) condition.wait(lock);  lock.unlock()
RunLoop ==
  /\ pc[Worker] = "w_loop"
  /\ queueMutex' = Nobody
  /\ Goto(Worker, IF queue = <<>> THEN "w_wait" ELSE "c_pop")
  /\ UNCHANGED <<queue, elementsToRelease, doWorkInBackground, op, clearVars,
                 life, threadVars, gpuVars>>

\* A condition variable may wake its waiter without a notification.
SpuriousWake ==
  /\ pc[Worker] = "w_wait"
  /\ Goto(Worker, "w_wake")
  /\ UNCHANGED <<queue, elementsToRelease, doWorkInBackground, queueMutex, op,
                 clearVars, life, threadVars, gpuVars>>

\* wait() returns with the mutex, which is dropped at once: clearQueue()
RunWake ==
  /\ pc[Worker] = "w_wake"
  /\ queueMutex = Nobody
  /\ Goto(Worker, "c_pop")
  /\ UNCHANGED <<queue, elementsToRelease, doWorkInBackground, queueMutex, op,
                 clearVars, life, threadVars, gpuVars>>

\* lock.lock(); while (!shouldStop())
RunCheck ==
  /\ pc[Worker] = "w_lock"
  /\ queueMutex = Nobody
  /\ IF doWorkInBackground
       THEN queueMutex' = Worker /\ Goto(Worker, "w_loop")
       ELSE UNCHANGED queueMutex /\ Goto(Worker, "w_done")
  /\ UNCHANGED <<queue, elementsToRelease, doWorkInBackground, op, clearVars,
                 life, threadVars, gpuVars>>

----------------------------------------------------------------------------
(* The GPU finishes the next flushed task of a context and writes its tag. *)

GpuComplete(c) ==
  /\ tag[c] < flushed[c]
  /\ tag' = [tag EXCEPT ![c] = @ + 1]
  /\ UNCHANGED <<queue, elementsToRelease, doWorkInBackground, queueMutex, pc,
                 op, clearVars, life, usage, flushed, threadVars>>

----------------------------------------------------------------------------
Destroyed == ~alive /\ \A t \in Threads : pc[t] = "idle"
Terminated == Destroyed /\ UNCHANGED vars

clearQueue(a) ==
  \/ ClearPop(a)
  \/ \E c \in Contexts : ApplyEngine(a, c)
  \/ ApplyEnd(a)
  \/ ClearPushBack(a)
  \/ ClearCount(a)
  \/ ClearLoop(a)

deferDeletion(t) == DeferCount(t) \/ DeferPush(t) \/ DeferNotify(t)
stop(t) == StopLock(t) \/ StopCheck(t) \/ StopNotify(t) \/ StopJoin(t)
run == RunStart \/ RunLoop \/ RunWake \/ RunCheck

\* The calls an application thread may make at any time.
Invoke(t) ==
  \/ \E d \in Deletions :
       tryDeferDeletions(t, d) \/ checkGpuUsageAndDestroy(t, d)
  \/ addClient(t)
  \/ removeClient(t)
  \/ \E blocking \in DrainModes : drain(t, blocking)
  \/ Destructor(t)

Next ==
  \/ \E t \in Threads : Invoke(t) \/ deferDeletion(t) \/ stop(t) \/ DrainSpin(t)
  \/ \E a \in Actors : clearQueue(a)
  \/ run
  \/ SpuriousWake
  \/ \E c \in Contexts : GpuComplete(c)
  \/ Terminated

Spec == Init /\ [][Next]_vars

\* Every started call keeps executing, the worker and the GPU keep running,
\* and nobody is for ever overtaken on queueMutex: stop() releases it between
\* its polls so that the worker can start.
Fairness ==
  /\ \A t \in Threads : /\ SF_vars(deferDeletion(t))
                        /\ SF_vars(stop(t))
                        /\ WF_vars(DrainSpin(t))
  /\ \A a \in Actors : WF_vars(clearQueue(a))
  /\ SF_vars(run)
  /\ \A c \in Contexts : WF_vars(GpuComplete(c))

FairSpec == Spec /\ Fairness

----------------------------------------------------------------------------
(* Properties.                                                             *)

\* apply() frees an allocation only when, in every context that used it, the
\* GPU has written a tag that reaches the allocation's last task count.
FreedOnlyWhenGpuIsDone ==
  \A d \in Deletions : life[d] \in {"applied", "freed"} =>
    \A c \in Contexts : LastUse[d][c] # NotUsed => LastUse[d][c] <= tag[c]

\* A deferred deletion is owned exactly once: by the queue, at one place, or by
\* one thread's unique_ptr.  Twice would be a double free, never a leak.
Owners(d) == {a \in Actors : held[a] = d}
Places(d) == {i \in DOMAIN queue : queue[i] = d}
OwnedOnce ==
  \A d \in Deletions :
    /\ life[d] \in {"handed", "deferred", "applied"} =>
         \/ Owners(d) = {} /\ \E i \in DOMAIN queue : Places(d) = {i}
         \/ Places(d) = {} /\ \E a \in Actors : Owners(d) = {a}
    /\ life[d] \in {"live", "freed"} => Owners(d) = {} /\ Places(d) = {}

\* The counter that drain(true) polls counts the deletions that deferDeletion
\* accepted and clearQueue has not finished with.
Pending == {d \in Deletions : life[d] \in {"deferred", "applied"}}
CountMatchesPending == elementsToRelease = Cardinality(Pending)

\* drain(true) only returns in a state in which everything deferred so far has
\* been freed: its callers retry an allocation that had no memory left.
BlockingDrainFreesAll ==
  [][\A t \in Threads : pc[t] = "spin" /\ pc'[t] = "idle" =>
       \A d \in Deletions : life[d] # "deferred"]_vars

\* When the last client has left, or the destructor is done, stop() has
\* left no worker behind, and outside of stop() there is one iff there is a
\* client.
WorkerIffClients == threadMutex = Nobody => (worker <=> numClients > 0)

\* The worker never sleeps on a queue that only it would empty: either some
\* thread is about to notify it or some thread is inside clearQueue.
NoLostWakeup ==
  pc[Worker] = "w_wait" /\ queue # <<>> =>
    \E t \in Threads :
      pc[t] \in {"d_notify", "c_pop", "c_scan", "c_push", "c_dec", "c_loop"}

\* A blocking drain comes back, provided that a client keeps the worker.  So do
\* removeClient and the destructor, also when the worker was created but has not
\* run yet, or waits on an empty queue.
CallsReturn ==
  \A t \in Threads :
    /\ pc[t] = "spin" ~> pc[t] = "idle" \/ numClients = 0
    /\ op[t] = "stop" ~> op[t] = "none"
=============================================================================
