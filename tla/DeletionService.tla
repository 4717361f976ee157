-------------------------- MODULE DeletionService --------------------------
(***************************************************************************)
(* What the memory manager relies on when it defers the deletion of an     *)
(* allocation: it is freed once, not before the GPU is done with it in     *)
(* every context, a blocking drain returns when nothing is left to free,   *)
(* and the service closes with nothing left.  Threads, queue, counter and  *)
(* mutexes of DeferredDeleter are not visible here.                        *)
(***************************************************************************)
EXTENDS Integers

CONSTANTS Threads, Deletions, Contexts,
          LastUse,   \* task count of the last use of an allocation in a context
          NotUsed

VARIABLES pending,   \* accepted and not freed
          freed,
          draining,  \* threads in a blocking drain
          tag,       \* what the GPU has completed in each context
          phase      \* open, closing or closed

serviceVars == <<pending, freed, draining, tag, phase>>

Init ==
  /\ pending = {} /\ freed = {} /\ draining = {}
  /\ tag = [c \in Contexts |-> 0]
  /\ phase = "open"

GpuIsDone(d) == \A c \in Contexts : LastUse[d][c] # NotUsed => LastUse[d][c] <= tag[c]

Accept(d) ==
  /\ phase = "open" /\ d \notin pending \cup freed
  /\ pending' = pending \cup {d}
  /\ UNCHANGED <<freed, draining, tag, phase>>

Free(d) ==
  /\ d \in pending /\ GpuIsDone(d)
  /\ pending' = pending \ {d} /\ freed' = freed \cup {d}
  /\ UNCHANGED <<draining, tag, phase>>

BeginDrain(t) ==
  /\ phase = "open" /\ t \notin draining
  /\ draining' = draining \cup {t}
  /\ UNCHANGED <<pending, freed, tag, phase>>

EndDrain(t) ==
  /\ t \in draining /\ pending = {}
  /\ draining' = draining \ {t}
  /\ UNCHANGED <<pending, freed, tag, phase>>

Advance(c) ==
  /\ tag' = [tag EXCEPT ![c] = @ + 1]
  /\ UNCHANGED <<pending, freed, draining, phase>>

BeginClose ==
  /\ phase = "open" /\ draining = {}
  /\ phase' = "closing"
  /\ UNCHANGED <<pending, freed, draining, tag>>

EndClose ==
  /\ phase = "closing" /\ pending = {}
  /\ phase' = "closed"
  /\ UNCHANGED <<pending, freed, draining, tag>>

Next ==
  \/ \E d \in Deletions : Accept(d) \/ Free(d)
  \/ \E t \in Threads : BeginDrain(t) \/ EndDrain(t)
  \/ \E c \in Contexts : Advance(c)
  \/ BeginClose \/ EndClose

Spec == Init /\ [][Next]_serviceVars

\* A service that, in addition, frees everything it accepts.
PromptSpec == Spec /\ \A d \in Deletions : d \in pending ~> d \in freed
=============================================================================
