--------------------- MODULE DeferredDeleterRefinement ---------------------
(***************************************************************************)
(* DeferredDeleter implements DeletionService.  A deletion is accepted     *)
(* when deferDeletion counts it and freed when apply() succeeds; a thread  *)
(* drains while it is in drain(true); the service closes when the          *)
(* destructor is entered and is closed when it returns.                    *)
(***************************************************************************)
EXTENDS DeferredDeleter

Service == INSTANCE DeletionService WITH
  pending <- {d \in Deletions : life[d] = "deferred"},
  freed <- {d \in Deletions : life[d] \in {"applied", "freed"}},
  draining <- {t \in Threads : op[t] = "blockingDrain"},
  phase <- IF alive THEN "open" ELSE IF Destroyed THEN "closed" ELSE "closing"

\* Whatever threads defer, drain and close at the same time, each deletion is
\* freed once and only when the GPU is done with it, drain(true) returns when
\* nothing is pending, and nothing is pending when the destructor returns
\* (deferred_deleter.cpp as a whole).
ImplementsService == Service!Spec

\* The multi context resource destructor, which has no worker, also frees all
\* that it accepts: every thread that defers a deletion drains the queue after it
\* and flushes what the engines still batch
\* (MemoryManager::checkGpuUsageAndDestroyGraphicsAllocations).
ImplementsPromptService == Service!PromptSpec
=============================================================================
