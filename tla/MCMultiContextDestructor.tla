----------------------- MODULE MCMultiContextDestructor -----------------------
(* MemoryManager::multiContextResourceDestructor: no client, no worker, and *)
(* allocations that several engines used, some of it not flushed yet.       *)
EXTENDS DeferredDeleterRefinement, TLC

CONSTANTS t1, t2, d1, d2, c1, c2

MCThreads == {t1, t2}
MCDeletions == {d1, d2}
MCContexts == {c1, c2}
MCLastUse == (d1 :> (c1 :> 1 @@ c2 :> 1)) @@ (d2 :> (c1 :> 2 @@ c2 :> 1))
MCSubmitted == c1 :> 2 @@ c2 :> 1
MCDrainModes == {}
=============================================================================
