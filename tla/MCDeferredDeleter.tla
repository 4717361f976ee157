------------------------- MODULE MCDeferredDeleter -------------------------
(* MemoryManager::deferredDeleter: contexts are its clients and every      *)
(* apply() succeeds, so there is no OS context to look at.                 *)
EXTENDS DeferredDeleterRefinement

CONSTANTS t1, t2, d1, d2

MCThreads == {t1, t2}
MCDeletions == {d1, d2}
MCContexts == {}
MCLastUse == [d \in MCDeletions |-> <<>>]
MCSubmitted == <<>>
MCDrainModes == BOOLEAN
=============================================================================
