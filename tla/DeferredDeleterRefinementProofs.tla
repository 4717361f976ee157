------------------ MODULE DeferredDeleterRefinementProofs ------------------
(* DeferredDeleter implements DeletionService, and its worker is there when *)
(* it is needed: what the program counters say about the operations in      *)
(* progress, and about who may be in stop(), on top of the inductive        *)
(* invariant IInv of DeferredDeleterProofs.                                 *)
EXTENDS DeferredDeleterRefinement, DeferredDeleterProofs

DeferLabels == {"d_lock", "d_push", "d_notify"}
StopLabels == {"s_lock", "s_check", "s_notify", "s_join"}
ClearLabels == {"c_pop", "c_scan", "c_push", "c_dec", "c_loop"}
RunLabels == {"w_none", "w_start", "w_loop", "w_wait", "w_wake", "w_lock", "w_done"}

\* Where a thread is and which operation it executes.
OpInv ==
  /\ op[Worker] = "run" /\ pc[Worker] \in RunLabels \cup ClearLabels
  /\ \A t \in Threads :
       /\ pc[t] \in {"idle", "spin"} \cup DeferLabels \cup StopLabels \cup ClearLabels
       /\ pc[t] = "idle" <=> op[t] = "none"
       /\ pc[t] \in DeferLabels => op[t] \in {"defer", "destroyAllocation"}
       /\ pc[t] \in StopLabels => op[t] = "stop"
       /\ pc[t] \in ClearLabels =>
            op[t] \in {"destroyAllocation", "drain", "blockingDrain", "stop"}
       /\ pc[t] = "spin" => op[t] = "blockingDrain"

\* Who is in stop() has threadMutex, no client is left, and the worker is there
\* until it is joined.  After the destructor is entered there is no other call.
StopInv ==
  /\ threadMutex \in Threads \cup {Nobody}
  /\ \A t \in Threads : op[t] = "stop" <=> threadMutex = t
  /\ threadMutex = Nobody => (worker <=> numClients > 0)
  /\ threadMutex # Nobody => numClients = 0
  /\ \A t \in Threads : op[t] = "stop" => (worker <=> pc[t] \in StopLabels)
  /\ ~alive => numClients = 0 /\ \A t \in Threads : op[t] \in {"none", "stop"}

ControlInv == OpInv /\ StopInv /\ NoLostWakeup
----------------------------------------------------------------------------
LEMMA InitControl == Init => ControlInv
<1> SUFFICES ASSUME Init PROVE ControlInv
  OBVIOUS
<1>1. /\ pc = [a \in Actors |-> IF a = Worker THEN "w_none" ELSE "idle"]
      /\ op = [a \in Actors |-> IF a = Worker THEN "run" ELSE "none"]
      /\ threadMutex = Nobody /\ numClients = 0 /\ ~worker /\ alive
  BY DEF Init
<1>2. Worker \in Actors /\ \A t \in Threads : t \in Actors /\ t # Worker /\ t # Nobody
  BY ActorsAssumption DEF Actors
<1>3. OpInv
  BY <1>1, <1>2 DEF OpInv, DeferLabels, StopLabels, ClearLabels, RunLabels
<1>4. StopInv
  BY <1>1, <1>2 DEF StopInv, StopLabels
<1>5. NoLostWakeup
  BY <1>1, <1>2 DEF NoLostWakeup
<1> QED
  BY <1>3, <1>4, <1>5 DEF ControlInv

LEMMA NextControl == TypeInv /\ ControlInv /\ [Next]_vars => ControlInv'
<1> SUFFICES ASSUME TypeInv, ControlInv, [Next]_vars PROVE ControlInv'
  OBVIOUS
<1> USE ActorsAssumption
    DEF TypeInv, TypeOK, Actors, ControlInv, OpInv, StopInv, NoLostWakeup,
        DeferLabels, StopLabels, ClearLabels, RunLabels
<1>1. ASSUME NEW t \in Threads, NEW d \in Deletions,
             tryDeferDeletions(t, d) \/ checkGpuUsageAndDestroy(t, d)
      PROVE ControlInv'
  <2>1. /\ alive /\ pc[t] = "idle"
        /\ pc' = [pc EXCEPT ![t] = "d_lock"]
        /\ op' \in {[op EXCEPT ![t] = "defer"], [op EXCEPT ![t] = "destroyAllocation"]}
        /\ UNCHANGED <<queue, worker, numClients, threadMutex, alive>>
    BY <1>1 DEF tryDeferDeletions, checkGpuUsageAndDestroy, Call, Goto, threadVars
  <2>2. OpInv' /\ NoLostWakeup'
    BY <2>1
  <2>3. StopInv'
    BY <2>1, SMTT(10), ZenonT(40)
  <2> QED
    BY <2>2, <2>3
<1>2. ASSUME NEW t \in Threads, DeferCount(t) PROVE ControlInv'
  BY <1>2, SMTT(10), ZenonT(40) DEF DeferCount, Goto, threadVars
<1>3. ASSUME NEW t \in Threads, DeferPush(t) PROVE ControlInv'
  BY <1>3, SMTT(10), ZenonT(40) DEF DeferPush, Goto, threadVars
<1>4. ASSUME NEW t \in Threads, DeferNotify(t) PROVE ControlInv'
  <2>1. /\ pc[t] = "d_notify"
        /\ \/ op[t] = "defer" /\ NotifyAndGoto(t, "idle") /\ op' = [op EXCEPT ![t] = "none"]
           \/ op[t] = "destroyAllocation" /\ NotifyAndGoto(t, "c_pop") /\ op' = op
        /\ UNCHANGED <<queue, worker, numClients, threadMutex, alive>>
    BY <1>4 DEF DeferNotify, threadVars
  <2>2. pc'[Worker] # "w_wait" /\ pc'[Worker] \in RunLabels \cup ClearLabels
    BY <2>1 DEF NotifyAndGoto
  <2>3. OpInv'
    BY SMTT(60), <2>1, <2>2 DEF NotifyAndGoto
  <2>4. \A u \in Threads : op[u] = "stop" \/ op'[u] = "stop" =>
                            op'[u] = op[u] /\ pc'[u] = pc[u]
    BY <2>1 DEF NotifyAndGoto
  <2>5. ~alive => \A u \in Threads : op'[u] \in {"none", "stop"}
    BY <2>1
  <2>6. StopInv'
    BY <2>1, <2>4, <2>5, SMTT(10), ZenonT(40)
  <2> QED
    BY <2>2, <2>3, <2>6
<1>5. ASSUME NEW t \in Threads, addClient(t) PROVE ControlInv'
  BY <1>5, SMTT(10), ZenonT(40) DEF addClient
<1>6. ASSUME NEW t \in Threads, removeClient(t) PROVE ControlInv'
  <2>1. CASE numClients' = 0
    <3>1. /\ alive /\ pc[t] = "idle" /\ threadMutex = Nobody /\ worker
          /\ pc' = [pc EXCEPT ![t] = "s_lock"] /\ op' = [op EXCEPT ![t] = "stop"]
          /\ threadMutex' = t
          /\ UNCHANGED <<queue, worker, alive>>
      BY <1>6, <2>1, SMTT(10), ZenonT(40) DEF removeClient, Call, Goto, StopEntry
    <3>2. OpInv' /\ NoLostWakeup'
      BY <3>1
    <3>3. StopInv'
      BY <2>1, <3>1, SMTT(10), ZenonT(40)
    <3> QED
      BY <3>2, <3>3
  <2>2. CASE numClients' # 0
    BY <1>6, <2>2, SMTT(10), ZenonT(40) DEF removeClient
  <2> QED
    BY <2>1, <2>2
<1>7. ASSUME NEW t \in Threads, Destructor(t) PROVE ControlInv'
  BY <1>7, SMTT(10), ZenonT(40) DEF Destructor, Call, Goto, StopEntry
<1>8. ASSUME NEW t \in Threads, StopLock(t) PROVE ControlInv'
  BY <1>8, SMTT(10), ZenonT(40) DEF StopLock, Goto, threadVars
<1>9. ASSUME NEW t \in Threads, StopCheck(t) PROVE ControlInv'
  BY <1>9, SMTT(10), ZenonT(40) DEF StopCheck, Goto, threadVars
<1>10. ASSUME NEW t \in Threads, StopNotify(t) PROVE ControlInv'
  BY <1>10, SMTT(10), ZenonT(40) DEF StopNotify, NotifyAndGoto, threadVars
<1>11. ASSUME NEW t \in Threads, StopJoin(t) PROVE ControlInv'
  BY <1>11, SMTT(10), ZenonT(40) DEF StopJoin
<1>12. ASSUME NEW t \in Threads, NEW b \in DrainModes, drain(t, b) PROVE ControlInv'
  BY <1>12, SMTT(10), ZenonT(40) DEF drain, Call, Goto, threadVars
<1>13. ASSUME NEW t \in Threads, DrainSpin(t) PROVE ControlInv'
  BY <1>13, SMTT(10), ZenonT(40) DEF DrainSpin, Return, Goto, threadVars
<1>14. ASSUME NEW a \in Actors, ClearPop(a) PROVE ControlInv'
  BY <1>14, SMTT(10), ZenonT(40) DEF ClearPop, Goto, threadVars
<1>15. ASSUME NEW a \in Actors, NEW c \in Contexts, ApplyEngine(a, c) PROVE ControlInv'
  BY <1>15, SMTT(10), ZenonT(40) DEF ApplyEngine, threadVars
<1>16. ASSUME NEW a \in Actors, ApplyEnd(a) PROVE ControlInv'
  <2>1. /\ pc[a] = "c_scan"
        /\ pc' \in {[pc EXCEPT ![a] = "c_push"], [pc EXCEPT ![a] = "c_dec"]}
        /\ UNCHANGED <<op, queue, worker, numClients, threadMutex, alive>>
    BY <1>16 DEF ApplyEnd, Goto, threadVars
  <2>2. OpInv' /\ NoLostWakeup'
    BY <2>1
  <2>3. StopInv'
    BY <2>1, SMTT(10), ZenonT(40)
  <2> QED
    BY <2>2, <2>3
<1>17. ASSUME NEW a \in Actors, ClearPushBack(a) PROVE ControlInv'
  BY <1>17, SMTT(10), ZenonT(40) DEF ClearPushBack, Goto, threadVars
<1>18. ASSUME NEW a \in Actors, ClearCount(a) PROVE ControlInv'
  BY <1>18, SMTT(10), ZenonT(40) DEF ClearCount, Goto, threadVars
<1>19. ASSUME NEW a \in Actors, ClearLoop(a) PROVE ControlInv'
  <2>1. pc[a] = "c_loop" /\ UNCHANGED <<queue, worker, numClients, alive>>
    BY <1>19 DEF ClearLoop
  <2>2. CASE queue # <<>>
    <3>1. pc' = [pc EXCEPT ![a] = "c_pop"] /\ UNCHANGED <<op, threadMutex>>
      BY <1>19, <2>2 DEF ClearLoop, Goto
    <3> QED
      BY <2>1, <3>1, SMTT(10), ZenonT(40)
  <2>3. CASE queue = <<>> /\ a = Worker
    <3>1. pc' = [pc EXCEPT ![a] = "w_lock"] /\ UNCHANGED <<op, threadMutex>>
      BY <1>19, <2>3 DEF ClearLoop, Goto
    <3> QED
      BY <2>1, <2>3, <3>1, SMTT(10), ZenonT(40)
  <2>4. CASE queue = <<>> /\ a \in Threads /\ op[a] = "blockingDrain"
    <3>1. pc' = [pc EXCEPT ![a] = "spin"] /\ UNCHANGED <<op, threadMutex>>
      BY <1>19, <2>4 DEF ClearLoop, Goto
    <3> QED
      BY <2>1, <2>4, <3>1, SMTT(10), ZenonT(40)
  <2>5. CASE queue = <<>> /\ a \in Threads /\ op[a] \in {"drain", "destroyAllocation"}
    <3>1. /\ pc' = [pc EXCEPT ![a] = "idle"] /\ op' = [op EXCEPT ![a] = "none"]
          /\ threadMutex' = threadMutex
      BY <1>19, <2>5 DEF ClearLoop, Goto, Return
    <3> QED
      BY <2>1, <2>5, <3>1, SMTT(10), ZenonT(40)
  <2>6. CASE queue = <<>> /\ a \in Threads /\ op[a] = "stop"
    <3>1. /\ pc' = [pc EXCEPT ![a] = "idle"] /\ op' = [op EXCEPT ![a] = "none"]
          /\ threadMutex' = Nobody
      BY <1>19, <2>6 DEF ClearLoop, Goto, Return
    <3>2. OpInv' /\ NoLostWakeup'
      BY <2>1, <2>6, <3>1
    <3>3. ~worker /\ numClients = 0
      BY <2>1, <2>6, SMTT(10), ZenonT(40)
    <3>4. StopInv'
      BY <2>1, <2>6, <3>1, <3>3, SMTT(10), ZenonT(40)
    <3> QED
      BY <3>2, <3>4
  <2> QED
    BY <1>19, <2>1, <2>2, <2>3, <2>4, <2>5, <2>6
<1>20. CASE run
  BY <1>20, SMTT(10), ZenonT(40) DEF run, RunStart, RunLoop, RunWake, RunCheck, Goto, threadVars
<1>21. CASE SpuriousWake
  BY <1>21, SMTT(10), ZenonT(40) DEF SpuriousWake, Goto, threadVars
<1>22. ASSUME NEW c \in Contexts, GpuComplete(c) PROVE ControlInv'
  BY <1>22, SMTT(10), ZenonT(40) DEF GpuComplete, threadVars
<1>23. CASE UNCHANGED vars
  BY <1>23, SMTT(10), ZenonT(40) DEF vars
<1> HIDE DEF ControlInv
<1> QED
  BY <1>1, <1>2, <1>3, <1>4, <1>5, <1>6, <1>7, <1>8, <1>9, <1>10, <1>11, <1>12,
     <1>13, <1>14, <1>15, <1>16, <1>17, <1>18, <1>19, <1>20, <1>21, <1>22, <1>23
  DEF Next, Invoke, deferDeletion, stop, clearQueue, Terminated

LEMMA ControlHolds == Spec => [](IInv /\ ControlInv)
<1>1. IInv => TypeInv
  BY DEF IInv
<1> QED
  BY <1>1, IInvHolds, InitControl, NextControl, PTL DEF Spec

\* Outside of stop() there is a worker iff there is a client, whatever clients
\* are added and removed at the same time (deferred_deleter.cpp addClient,
\* removeClient, stop).
THEOREM WorkerCorrect == Spec => []WorkerIffClients
<1>1. ControlInv => WorkerIffClients
  BY DEF ControlInv, StopInv, WorkerIffClients
<1> QED
  BY <1>1, ControlHolds, PTL

\* The worker is not asleep on a queue that nobody else looks at: the
\* notification that deferDeletion sends after it has dropped the mutex is not
\* lost.
THEOREM WakeupNotLost == Spec => []NoLostWakeup
<1>1. ControlInv => NoLostWakeup
  BY DEF ControlInv
<1> QED
  BY <1>1, ControlHolds, PTL
----------------------------------------------------------------------------
(* The refinement.                                                         *)

pendingBar == {d \in Deletions : life[d] = "deferred"}
freedBar == {d \in Deletions : life[d] \in {"applied", "freed"}}
drainingBar == {t \in Threads : op[t] = "blockingDrain"}
phaseBar == IF alive THEN "open" ELSE IF Destroyed THEN "closed" ELSE "closing"
bar == <<pendingBar, freedBar, drainingBar, tag, phaseBar>>

\* A step that moves no deletion to or from "deferred", keeps the draining threads
\* and neither enters nor leaves the destructor is not visible.
LEMMA Invisible ==
  ASSUME \A d \in Deletions :
           /\ life'[d] = "deferred" <=> life[d] = "deferred"
           /\ life'[d] \in {"applied", "freed"} <=> life[d] \in {"applied", "freed"},
         \A t \in Threads : op'[t] = "blockingDrain" <=> op[t] = "blockingDrain",
         UNCHANGED <<tag, alive>>,
         alive \/ \A t \in Threads : pc'[t] = "idle" <=> pc[t] = "idle"
  PROVE  UNCHANGED bar
<1>1. pendingBar' = pendingBar /\ freedBar' = freedBar /\ drainingBar' = drainingBar
  BY DEF pendingBar, freedBar, drainingBar
<1>2. phaseBar' = phaseBar
  BY DEF phaseBar, Destroyed
<1> QED
  BY <1>1, <1>2 DEF bar

\* apply() is done: the deletion becomes free, which the GPU allows.
LEMMA FreeStep ==
  ASSUME IInv, NEW a \in Actors, ApplyEnd(a)
  PROVE  [Service!Next]_bar
<1>1. /\ held[a] \in Deletions /\ life[held[a]] = "deferred"
      /\ UNCHANGED <<op, tag, alive, usage>>
      /\ life \in [Deletions -> {"live", "handed", "deferred", "applied", "freed"}]
  BY DEF ApplyEnd, threadVars, gpuVars, IInv, TypeInv, TypeOK, HeldInv, HoldLabels,
         OwnInv, PhaseInv
<1>2. \A t \in Threads : pc'[t] = "idle" <=> pc[t] = "idle"
  BY DEF ApplyEnd, Goto, IInv, TypeInv, TypeOK, Actors
<1>3. CASE isUsed(held[a])
  <2>1. life' = life
    BY <1>3 DEF ApplyEnd
  <2> QED
    BY <1>1, <1>2, <2>1, Invisible
<1>4. CASE ~isUsed(held[a])
  <2>1. life' = [life EXCEPT ![held[a]] = "applied"]
    BY <1>4 DEF ApplyEnd
  <2>2. \A c \in Contexts : LastUse[held[a]][c] # NotUsed => LastUse[held[a]][c] <= tag[c]
    BY <1>1, <1>4 DEF isUsed, UsedContexts, isUsedByOsContext, IInv, UsageInv
  <2>3. /\ held[a] \in pendingBar
        /\ pendingBar' = pendingBar \ {held[a]}
        /\ freedBar' = freedBar \cup {held[a]}
    BY <1>1, <2>1 DEF pendingBar, freedBar
  <2>4. drainingBar' = drainingBar /\ phaseBar' = phaseBar
    BY <1>1, <1>2 DEF drainingBar, phaseBar, Destroyed
  <2>5. PICK d \in Deletions : d = held[a]
    BY <1>1
  <2>6. Service!Free(d)
    BY <1>1, <2>2, <2>3, <2>4, <2>5
    DEF Service!Free, Service!GpuIsDone, pendingBar, freedBar, drainingBar, phaseBar
  <2> QED
    BY <2>6 DEF Service!Next
<1> QED
  BY <1>3, <1>4

\* A thread is back from clearQueue.  When it was the destructor's, the queue is
\* empty and nobody else holds a deletion: the service closes.
LEMMA ReturnStep ==
  ASSUME IInv, ControlInv, NEW a \in Actors, ClearLoop(a)
  PROVE  [Service!Next]_bar
<1> USE ActorsAssumption DEF Actors
<1>1. /\ pc[a] = "c_loop" /\ UNCHANGED <<queue, life, tag, alive>>
      /\ pc \in [Actors -> Labels] /\ op \in [Actors -> Ops]
  BY DEF ClearLoop, gpuVars, IInv, TypeInv, TypeOK
<1>2. \A t \in Threads : op'[t] = "blockingDrain" <=> op[t] = "blockingDrain"
  BY <1>1 DEF ClearLoop, Return, Goto
<1>3. CASE alive
  BY <1>1, <1>2, <1>3, Invisible
<1>4. CASE ~alive /\ (a = Worker \/ queue # <<>>)
  <2>1. \A t \in Threads : pc'[t] = "idle" <=> pc[t] = "idle"
    BY <1>1, <1>4 DEF ClearLoop, Goto, Return, ControlInv, OpInv
  <2> QED
    BY <1>1, <1>2, <2>1, Invisible
<1>5. CASE ~alive /\ a \in Threads /\ queue = <<>>
  <2>1. op[a] = "stop" /\ \A t \in Threads \ {a} : op[t] = "none" /\ pc[t] = "idle"
    BY <1>1, <1>5 DEF ControlInv, OpInv, StopInv, ClearLabels
  <2>2. pc' = [pc EXCEPT ![a] = "idle"]
    BY <1>5, <2>1 DEF ClearLoop, Return, Goto
  <2>3. phaseBar = "closing" /\ phaseBar' = "closed"
    BY <1>1, <1>5, <2>1, <2>2 DEF phaseBar, Destroyed
  <2>4. ~worker
    <3>1. pc[a] \notin StopLabels
      BY <1>1 DEF StopLabels
    <3> QED
      BY <1>5, <2>1, <3>1, SMTT(10), ZenonT(40) DEF ControlInv, StopInv
  <2>5. \A b \in Actors : pc[b] \notin HoldLabels
    BY <1>1, <2>1, <2>4 DEF IInv, TypeInv, HeldInv, HoldLabels
  <2>6. \A b \in Actors : held[b] = None
    BY <2>5 DEF IInv, TypeInv, HeldInv
  <2>7. \A d \in Deletions : life[d] # "deferred"
    BY <1>5, <2>6, DeletionsAssumption DEF IInv, OwnInv, NoLeakInv
  <2>8. /\ pendingBar = {} /\ pendingBar' = pendingBar /\ freedBar' = freedBar
        /\ drainingBar' = drainingBar
    BY <1>1, <1>2, <2>7 DEF pendingBar, freedBar, drainingBar
  <2>9. Service!EndClose
    BY <1>1, <2>3, <2>8 DEF Service!EndClose, pendingBar, freedBar, drainingBar, phaseBar
  <2> QED
    BY <2>9 DEF Service!Next
<1> QED
  BY <1>3, <1>4, <1>5

\* Every step of the deleter is a step of the service, or not visible to it.
LEMMA StepSimulation ==
  IInv /\ ControlInv /\ [Next]_vars => [Service!Next]_bar
<1> SUFFICES ASSUME IInv, ControlInv, [Next]_vars PROVE [Service!Next]_bar
  OBVIOUS
<1>0. /\ Worker \in Actors /\ \A t \in Threads : t \in Actors /\ t # Worker
      /\ pc \in [Actors -> Labels] /\ op \in [Actors -> Ops]
      /\ life \in [Deletions -> {"live", "handed", "deferred", "applied", "freed"}]
      /\ held \in [Actors -> Deletions \cup {None}]
  BY ActorsAssumption DEF Actors, IInv, TypeInv, TypeOK
<1>1. ASSUME NEW t \in Threads, NEW d \in Deletions,
             tryDeferDeletions(t, d) \/ checkGpuUsageAndDestroy(t, d)
      PROVE [Service!Next]_bar
  <2>1. /\ life[d] = "live" /\ life' = [life EXCEPT ![d] = "handed"]
        /\ alive /\ UNCHANGED <<tag, alive>> /\ pc[t] = "idle"
        /\ op' \in {[op EXCEPT ![t] = "defer"], [op EXCEPT ![t] = "destroyAllocation"]}
    BY <1>1 DEF tryDeferDeletions, checkGpuUsageAndDestroy, Call, threadVars, gpuVars
  <2>2. \A u \in Threads : op'[u] = "blockingDrain" <=> op[u] = "blockingDrain"
    BY <1>0, <2>1 DEF ControlInv, OpInv
  <2> QED
    BY <1>0, <2>1, <2>2, Invisible
<1>2. ASSUME NEW t \in Threads, DeferCount(t) PROVE [Service!Next]_bar
  <2>1. /\ held[t] \in Deletions /\ life[held[t]] = "handed"
        /\ life' = [life EXCEPT ![held[t]] = "deferred"]
        /\ UNCHANGED <<op, tag, alive>>
    BY <1>0, <1>2 DEF DeferCount, threadVars, gpuVars, IInv, TypeInv, HeldInv, HoldLabels,
                      OwnInv, PhaseInv
  <2>2. alive
    BY <1>2 DEF DeferCount, ControlInv, OpInv, StopInv, DeferLabels
  <2>3. /\ held[t] \notin pendingBar \cup freedBar
        /\ pendingBar' = pendingBar \cup {held[t]} /\ freedBar' = freedBar
        /\ drainingBar' = drainingBar /\ phaseBar = "open" /\ phaseBar' = "open"
    BY <1>0, <2>1, <2>2 DEF pendingBar, freedBar, drainingBar, phaseBar
  <2>4. PICK d \in Deletions : d = held[t]
    BY <2>1
  <2>5. Service!Accept(d)
    BY <2>1, <2>3, <2>4 DEF Service!Accept, pendingBar, freedBar, drainingBar, phaseBar
  <2> QED
    BY <2>5 DEF Service!Next
<1>3. ASSUME NEW t \in Threads, Destructor(t) PROVE [Service!Next]_bar
  <2>1. /\ alive /\ alive' = FALSE /\ UNCHANGED <<life, tag>>
        /\ \A u \in Threads : pc[u] = "idle" /\ op[u] = "none"
        /\ op' = [op EXCEPT ![t] = "stop"]
        /\ pc'[t] # "idle"
    BY <1>0, <1>3 DEF Destructor, Call, Goto, StopEntry, gpuVars, ControlInv, OpInv
  <2>2. /\ pendingBar' = pendingBar /\ freedBar' = freedBar
        /\ drainingBar = {} /\ drainingBar' = {}
        /\ phaseBar = "open" /\ phaseBar' = "closing"
    BY <1>0, <2>1 DEF pendingBar, freedBar, drainingBar, phaseBar, Destroyed
  <2>3. Service!BeginClose
    BY <2>1, <2>2 DEF Service!BeginClose, pendingBar, freedBar, drainingBar, phaseBar
  <2> QED
    BY <2>3 DEF Service!Next
<1>4. ASSUME NEW t \in Threads, NEW b \in DrainModes, drain(t, b) PROVE [Service!Next]_bar
  <2>1. /\ alive /\ UNCHANGED <<life, tag, alive>> /\ pc[t] = "idle" /\ op[t] = "none"
        /\ op' = [op EXCEPT ![t] = IF b THEN "blockingDrain" ELSE "drain"]
    BY <1>4 DEF drain, Call, threadVars, gpuVars, ControlInv, OpInv
  <2>2. CASE ~b
    <3>1. \A u \in Threads : op'[u] = "blockingDrain" <=> op[u] = "blockingDrain"
      BY <1>0, <2>1, <2>2
    <3> QED
      BY <2>1, <3>1, Invisible
  <2>3. CASE b
    <3>1. /\ t \notin drainingBar /\ drainingBar' = drainingBar \cup {t}
          /\ pendingBar' = pendingBar /\ freedBar' = freedBar
          /\ phaseBar = "open" /\ phaseBar' = "open"
      BY <1>0, <2>1, <2>3 DEF pendingBar, freedBar, drainingBar, phaseBar
    <3>2. Service!BeginDrain(t)
      BY <2>1, <3>1 DEF Service!BeginDrain, pendingBar, freedBar, drainingBar, phaseBar
    <3> QED
      BY <3>2 DEF Service!Next
  <2> QED
    BY <2>2, <2>3
<1>5. ASSUME NEW t \in Threads, DrainSpin(t) PROVE [Service!Next]_bar
  <2>1. /\ UNCHANGED <<life, tag, alive>> /\ op[t] = "blockingDrain"
        /\ op' = [op EXCEPT ![t] = "none"] /\ elementsToRelease = 0
    BY <1>5 DEF DrainSpin, Return, threadVars, gpuVars, ControlInv, OpInv
  <2>2. alive
    BY <2>1 DEF ControlInv, StopInv
  <2>3. Pending = {}
    <3>1. Pending \subseteq Deletions /\ Cardinality(Pending) = 0
      BY <2>1 DEF IInv, CountMatchesPending, Pending
    <3> QED
      BY <3>1, DeletionsAssumption, FS_Subset, FS_EmptySet
  <2>4. /\ t \in drainingBar /\ drainingBar' = drainingBar \ {t}
        /\ pendingBar = {} /\ pendingBar' = pendingBar /\ freedBar' = freedBar
        /\ phaseBar' = phaseBar
    BY <1>0, <2>1, <2>2, <2>3 DEF pendingBar, freedBar, drainingBar, phaseBar, Pending
  <2>5. Service!EndDrain(t)
    BY <2>1, <2>4 DEF Service!EndDrain, pendingBar, freedBar, drainingBar, phaseBar
  <2> QED
    BY <2>5 DEF Service!Next
<1>6. ASSUME NEW a \in Actors, ApplyEnd(a) PROVE [Service!Next]_bar
  BY <1>6, FreeStep
<1>7. ASSUME NEW a \in Actors, ClearLoop(a) PROVE [Service!Next]_bar
  BY <1>7, ReturnStep
<1>8. ASSUME NEW a \in Actors, ClearCount(a) PROVE [Service!Next]_bar
  <2>1. /\ held[a] \in Deletions /\ life[held[a]] = "applied"
        /\ life' = [life EXCEPT ![held[a]] = "freed"]
        /\ UNCHANGED <<op, tag, alive>>
        /\ pc[a] = "c_dec" /\ pc' = [pc EXCEPT ![a] = "c_loop"]
    BY <1>0, <1>8 DEF ClearCount, Goto, threadVars, gpuVars, IInv, TypeInv, HeldInv,
                      HoldLabels, OwnInv, PhaseInv
  <2> QED
    BY <1>0, <2>1, Invisible
<1>9. ASSUME NEW c \in Contexts, GpuComplete(c) PROVE [Service!Next]_bar
  <2>1. tag' = [tag EXCEPT ![c] = @ + 1] /\ UNCHANGED <<pc, op, life, alive>>
    BY <1>9 DEF GpuComplete, threadVars
  <2>2. /\ pendingBar' = pendingBar /\ freedBar' = freedBar
        /\ drainingBar' = drainingBar /\ phaseBar' = phaseBar
    BY <2>1 DEF pendingBar, freedBar, drainingBar, phaseBar, Destroyed
  <2>3. Service!Advance(c)
    BY <2>1, <2>2 DEF Service!Advance, pendingBar, freedBar, drainingBar, phaseBar
  <2> QED
    BY <2>3 DEF Service!Next
<1> DEFINE Hidden == /\ UNCHANGED <<life, tag, alive>>
                     /\ \A t \in Threads : op'[t] = "blockingDrain" <=> op[t] = "blockingDrain"
                     /\ alive \/ \A t \in Threads : pc'[t] = "idle" <=> pc[t] = "idle"
<1>10. ASSUME Hidden PROVE [Service!Next]_bar
  BY <1>10, Invisible
<1>11. ASSUME NEW t \in Threads, DeferPush(t) \/ DeferNotify(t) PROVE Hidden
  <2>1. alive
    BY <1>11 DEF DeferPush, DeferNotify, ControlInv, OpInv, StopInv, DeferLabels
  <2>2. UNCHANGED <<life, tag, alive>> /\ (op' = op \/ (op[t] = "defer" /\ op' = [op EXCEPT ![t] = "none"]))
    BY <1>11 DEF DeferPush, DeferNotify, threadVars, gpuVars
  <2> QED
    BY <1>0, <2>1, <2>2
<1>12. ASSUME NEW t \in Threads, addClient(t) \/ removeClient(t) PROVE Hidden
  <2>1. alive /\ pc[t] = "idle" /\ op[t] = "none" /\ UNCHANGED <<life, tag, alive>>
    BY <1>12 DEF addClient, removeClient, gpuVars, ControlInv, OpInv
  <2>2. op' = op \/ op' = [op EXCEPT ![t] = "stop"]
    BY <1>12 DEF addClient, removeClient, Call
  <2> QED
    BY <1>0, <2>1, <2>2
<1>13. ASSUME NEW t \in Threads, stop(t) PROVE Hidden
  BY <1>0, <1>13 DEF stop, StopLock, StopCheck, StopNotify, StopJoin, NotifyAndGoto, Goto,
                     threadVars, gpuVars
<1>14. ASSUME NEW a \in Actors, ClearPop(a) \/ ClearPushBack(a) \/ (\E c \in Contexts : ApplyEngine(a, c))
       PROVE Hidden
  BY <1>0, <1>14 DEF ClearPop, ClearPushBack, ApplyEngine, Goto, threadVars, gpuVars
<1>15. ASSUME run \/ SpuriousWake PROVE Hidden
  BY <1>0, <1>15 DEF run, RunStart, RunLoop, RunWake, RunCheck, SpuriousWake, Goto, threadVars, gpuVars
<1>16. ASSUME UNCHANGED vars PROVE Hidden
  BY <1>16 DEF vars
<1> HIDE DEF Hidden
<1> QED
  BY <1>1, <1>2, <1>3, <1>4, <1>5, <1>6, <1>7, <1>8, <1>9, <1>10, <1>11, <1>12, <1>13,
     <1>14, <1>15, <1>16
  DEF Next, Invoke, deferDeletion, clearQueue, Terminated

\* The deleter, with its queue, counter, mutexes and worker, implements the
\* service: each deletion is freed once and not before the GPU is done with it, a
\* blocking drain returns with nothing pending, and the destructor with nothing
\* left (deferred_deleter.cpp as a whole).
THEOREM ServiceImplemented == Spec => ImplementsService
<1>1. Init => Service!Init
  <2> SUFFICES ASSUME Init PROVE Service!Init
    OBVIOUS
  <2>1. /\ life = [d \in Deletions |-> "live"] /\ alive
        /\ op = [a \in Actors |-> IF a = Worker THEN "run" ELSE "none"]
        /\ tag = [c \in Contexts |-> 0]
    BY DEF Init
  <2> QED
    BY <2>1 DEF Service!Init, Actors
<1>2. IInv /\ ControlInv /\ [Next]_vars => [Service!Next]_(Service!serviceVars)
  BY StepSimulation DEF bar, pendingBar, freedBar, drainingBar, phaseBar, Service!serviceVars
<1> QED
  BY <1>1, <1>2, ControlHolds, PTL DEF Spec, ImplementsService, Service!Spec
=============================================================================
