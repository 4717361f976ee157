----------------------- MODULE DeferredDeleterProofs -----------------------
(* Proofs about DeferredDeleter for every set of threads, deletions and    *)
(* contexts.  IInv strengthens the invariants of the specification with    *)
(* what each program counter says about the deletion a thread holds.       *)
EXTENDS DeferredDeleter, TLAPS, FiniteSetTheorems

\* A thread holds a deletion exactly between taking and giving it away, and the
\* deletion is then in the phase of its life that the label says.
HoldLabels == {"d_lock", "d_push", "c_scan", "c_push", "c_dec"}
HeldInv ==
  /\ \A a \in Actors : held[a] # None <=> pc[a] \in HoldLabels
  /\ ~worker => pc[Worker] = "w_none"

TypeInv == TypeOK /\ HeldInv

\* The phase of life of a deletion that is held, and of one that is queued.
PhaseInv ==
  /\ \A a \in Actors : pc[a] = "d_lock" => life[held[a]] = "handed"
  /\ \A a \in Actors :
       pc[a] \in {"d_push", "c_scan", "c_push"} => life[held[a]] = "deferred"
  /\ \A a \in Actors : pc[a] = "c_dec" => life[held[a]] = "applied"
  /\ \A i \in 1..Len(queue) : life[queue[i]] = "deferred"

\* Nothing is held twice, queued twice, or both held and queued.
UniqueInv ==
  /\ \A a, b \in Actors : held[a] # None /\ held[a] = held[b] => a = b
  /\ \A i, j \in 1..Len(queue) : queue[i] = queue[j] => i = j
  /\ \A a \in Actors, i \in 1..Len(queue) : held[a] # queue[i]

\* Nothing gets lost.
NoLeakInv ==
  \A d \in Deletions : life[d] \in {"handed", "deferred", "applied"} =>
    (\E a \in Actors : held[a] = d) \/ (\E i \in 1..Len(queue) : queue[i] = d)

OwnInv == PhaseInv /\ UniqueInv /\ NoLeakInv

\* What a context was released from, the GPU has completed.
UsageInv ==
  /\ \A d \in Deletions, c \in Contexts :
       usage[d][c] # NotUsed => usage[d][c] = LastUse[d][c]
  /\ \A d \in Deletions, c \in Contexts :
       usage[d][c] = NotUsed /\ LastUse[d][c] # NotUsed => LastUse[d][c] <= tag[c]
  /\ \A d \in Deletions : life[d] \in {"applied", "freed"} =>
       \A c \in Contexts : usage[d][c] = NotUsed

IInv == TypeInv /\ OwnInv /\ UsageInv /\ CountMatchesPending
----------------------------------------------------------------------------
LEMMA InitType == Init => TypeInv
<1> SUFFICES ASSUME Init PROVE TypeInv
  OBVIOUS
<1>1. flushed \in [Contexts -> Nat] /\ tag \in [Contexts -> Nat]
  BY TaskCountAssumption DEF Init
<1>2. usage \in [Deletions -> [Contexts -> Nat \cup {NotUsed}]]
  BY TaskCountAssumption DEF Init
<1>3. pc \in [Actors -> Labels] /\ op \in [Actors -> Ops]
  BY DEF Init, Labels, Ops
<1>4. queue \in Seq(Deletions) /\ numClients \in 0..MaxClients
  BY OwnerAssumption DEF Init
<1>5. /\ held \in [Actors -> Deletions \cup {None}]
      /\ scan \in [Actors -> SUBSET Contexts]
      /\ life \in [Deletions -> {"live", "handed", "deferred", "applied", "freed"}]
  BY DEF Init
<1>6. /\ elementsToRelease \in Int
      /\ queueMutex \in Actors \cup {Nobody} /\ threadMutex \in Actors \cup {Nobody}
  <2>1. elementsToRelease = 0 /\ queueMutex = Nobody /\ threadMutex = Nobody
    BY DEF Init
  <2> QED
    BY <2>1
<1>6a. doWorkInBackground \in BOOLEAN /\ worker \in BOOLEAN /\ alive \in BOOLEAN
  BY Zenon DEF Init
<1>7. TypeOK
  BY <1>1, <1>2, <1>3, <1>4, <1>5, <1>6, <1>6a DEF TypeOK
<1>8. HeldInv
  <2>1. /\ pc = [a \in Actors |-> IF a = Worker THEN "w_none" ELSE "idle"]
        /\ held = [a \in Actors |-> None]
    BY DEF Init
  <2> QED
    BY <2>1 DEF HeldInv, HoldLabels, Actors
<1> QED
  BY <1>7, <1>8 DEF TypeInv

\* condition.notify_one() moves the caller and, at most, wakes the worker.
LEMMA NotifyMoves ==
  ASSUME TypeOK, NEW t \in Threads, NEW l \in Labels, NotifyAndGoto(t, l)
  PROVE  /\ pc' \in [Actors -> Labels]
         /\ pc'[t] = l
         /\ \A a \in Actors : a # t =>
              pc'[a] = pc[a] \/ (pc[a] = "w_wait" /\ pc'[a] = "w_wake")
<1>1. /\ pc \in [Actors -> Labels]
      /\ t \in Actors /\ Worker \in Actors /\ t # Worker
  BY ActorsAssumption DEF TypeOK, Actors
<1>2. pc' = [pc EXCEPT ![t] = l,
                      ![Worker] = IF @ = "w_wait" THEN "w_wake" ELSE @]
  BY DEF NotifyAndGoto
<1>3. "w_wake" \in Labels
  BY DEF Labels
<1> QED
  BY <1>1, <1>2, <1>3

LEMMA NextType == TypeInv /\ [Next]_vars => TypeInv'
<1> SUFFICES ASSUME TypeInv, [Next]_vars PROVE TypeInv'
  OBVIOUS
<1> USE ActorsAssumption, DeletionsAssumption
    DEF TypeInv, TypeOK, HeldInv, HoldLabels, Actors, Labels, Ops
<1>1. ASSUME NEW t \in Threads, NEW d \in Deletions,
             tryDeferDeletions(t, d) \/ checkGpuUsageAndDestroy(t, d)
      PROVE TypeInv'
  <2>1. /\ pc' = [pc EXCEPT ![t] = "d_lock"]
        /\ held' = [held EXCEPT ![t] = d]
        /\ life' = [life EXCEPT ![d] = "handed"]
        /\ op' \in {[op EXCEPT ![t] = "defer"], [op EXCEPT ![t] = "destroyAllocation"]}
        /\ UNCHANGED <<queue, elementsToRelease, doWorkInBackground, queueMutex,
                       scan, threadVars, gpuVars>>
    BY <1>1 DEF tryDeferDeletions, checkGpuUsageAndDestroy, Call, Goto
  <2>2. TypeOK'
    BY <2>1, SMTT(10), ZenonT(40) DEF threadVars, gpuVars
  <2>3. HeldInv'
    BY <2>1, SMTT(10), ZenonT(40) DEF threadVars
  <2> QED
    BY <2>2, <2>3
<1>2. ASSUME NEW t \in Threads, DeferCount(t) PROVE TypeInv'
  BY <1>2, SMTT(10), ZenonT(40) DEF DeferCount, Goto, threadVars, gpuVars, clearVars
<1>3. ASSUME NEW t \in Threads, DeferPush(t) PROVE TypeInv'
  BY <1>3, SMTT(10), ZenonT(40) DEF DeferPush, Goto, threadVars, gpuVars
<1>4. ASSUME NEW t \in Threads, DeferNotify(t) PROVE TypeInv'
  <2>1. PICK l \in {"idle", "c_pop"} : NotifyAndGoto(t, l)
    BY <1>4 DEF DeferNotify
  <2>2. /\ pc' \in [Actors -> Labels]
        /\ pc'[t] = l
        /\ \A a \in Actors : a # t =>
             pc'[a] = pc[a] \/ (pc[a] = "w_wait" /\ pc'[a] = "w_wake")
    BY <2>1, NotifyMoves
  <2>3. pc[t] = "d_notify" /\ op' \in [Actors -> Ops]
    BY <1>4 DEF DeferNotify
  <2>4. UNCHANGED <<queue, elementsToRelease, doWorkInBackground, queueMutex,
                    life, clearVars, threadVars, gpuVars>>
    BY <1>4 DEF DeferNotify
  <2>5. TypeOK'
    BY <2>2, <2>3, <2>4, SMTT(10), ZenonT(40) DEF threadVars, gpuVars, clearVars
  <2>6. HeldInv'
    BY <2>2, <2>3, <2>4, SMTT(10), ZenonT(40) DEF threadVars, clearVars
  <2> QED
    BY <2>5, <2>6
<1>5. ASSUME NEW t \in Threads, addClient(t) PROVE TypeInv'
  BY <1>5, OwnerAssumption, SMTT(10), ZenonT(40) DEF addClient, gpuVars, clearVars
<1>6. ASSUME NEW t \in Threads, removeClient(t) PROVE TypeInv'
  <2>1. numClients' \in 0..MaxClients
    BY <1>6, OwnerAssumption DEF removeClient
  <2>2. CASE numClients' = 0
    <3>1. /\ pc[t] = "idle" /\ threadMutex' = t
          /\ op' = [op EXCEPT ![t] = "stop"]
          /\ \E l \in {"s_lock", "c_pop"} : pc' = [pc EXCEPT ![t] = l]
          /\ UNCHANGED <<queue, elementsToRelease, doWorkInBackground,
                         queueMutex, worker, clearVars, life, gpuVars, alive>>
      BY <1>6, <2>2 DEF removeClient, Call, Goto, StopEntry
    <3>2. TypeOK'
      BY <2>1, <3>1, SMTT(10), ZenonT(40) DEF gpuVars, clearVars
    <3>3. HeldInv'
      BY <3>1, SMTT(10), ZenonT(40) DEF gpuVars, clearVars
    <3> QED
      BY <3>2, <3>3
  <2>3. CASE numClients' # 0
    BY <1>6, <2>1, <2>3, SMTT(10), ZenonT(40) DEF removeClient, gpuVars, clearVars
  <2> QED
    BY <2>2, <2>3
<1>7. ASSUME NEW t \in Threads, Destructor(t) PROVE TypeInv'
  BY <1>7, SMTT(10), ZenonT(40) DEF Destructor, Call, Goto, StopEntry, gpuVars, clearVars
<1>8. ASSUME NEW t \in Threads, StopLock(t) PROVE TypeInv'
  BY <1>8, SMTT(10), ZenonT(40) DEF StopLock, Goto, threadVars, gpuVars, clearVars
<1>9. ASSUME NEW t \in Threads, StopCheck(t) PROVE TypeInv'
  BY <1>9, SMTT(10), ZenonT(40) DEF StopCheck, Goto, threadVars, gpuVars, clearVars
<1>10. ASSUME NEW t \in Threads, StopNotify(t) PROVE TypeInv'
  <2>1. /\ pc' \in [Actors -> Labels]
        /\ pc'[t] = "s_join"
        /\ \A a \in Actors : a # t =>
             pc'[a] = pc[a] \/ (pc[a] = "w_wait" /\ pc'[a] = "w_wake")
    BY <1>10, NotifyMoves DEF StopNotify
  <2>2. /\ pc[t] = "s_notify"
        /\ UNCHANGED <<queue, elementsToRelease, doWorkInBackground, queueMutex,
                       op, clearVars, life, threadVars, gpuVars>>
    BY <1>10 DEF StopNotify
  <2>3. TypeOK'
    BY <2>1, <2>2, SMTT(10), ZenonT(40) DEF threadVars, gpuVars, clearVars
  <2>4. HeldInv'
    BY <2>1, <2>2, SMTT(10), ZenonT(40) DEF threadVars, clearVars
  <2> QED
    BY <2>3, <2>4
<1>11. ASSUME NEW t \in Threads, StopJoin(t) PROVE TypeInv'
  BY <1>11, SMTT(10), ZenonT(40) DEF StopJoin, gpuVars, clearVars
<1>12. ASSUME NEW t \in Threads, NEW b \in DrainModes, drain(t, b) PROVE TypeInv'
  BY <1>12, OwnerAssumption, SMTT(10), ZenonT(40) DEF drain, Call, Goto, threadVars, gpuVars, clearVars
<1>13. ASSUME NEW t \in Threads, DrainSpin(t) PROVE TypeInv'
  BY <1>13, SMTT(10), ZenonT(40) DEF DrainSpin, Return, Goto, threadVars, gpuVars, clearVars
<1>14. ASSUME NEW a \in Actors, ClearPop(a) PROVE TypeInv'
  <2>1. CASE queue = <<>>
    BY <1>14, <2>1, SMTT(10), ZenonT(40) DEF ClearPop, Goto, threadVars, gpuVars, clearVars
  <2>2. CASE queue # <<>>
    <3>1. Head(queue) \in Deletions /\ Tail(queue) \in Seq(Deletions)
      BY <2>2
    <3>2. UsedContexts(Head(queue)) \subseteq Contexts
      BY DEF UsedContexts
    <3>3. /\ queue' = Tail(queue)
          /\ held' = [held EXCEPT ![a] = Head(queue)]
          /\ scan' = [scan EXCEPT ![a] = UsedContexts(Head(queue))]
          /\ pc' = [pc EXCEPT ![a] = "c_scan"]
          /\ UNCHANGED <<elementsToRelease, doWorkInBackground, queueMutex, op,
                         life, threadVars, gpuVars>>
      BY <1>14, <2>2 DEF ClearPop, Goto
    <3>4. TypeOK'
      BY <3>1, <3>2, <3>3, SMTT(10), ZenonT(40) DEF threadVars, gpuVars
    <3>5. HeldInv'
      BY <1>14, <3>1, <3>3, SMTT(10), ZenonT(40) DEF ClearPop, threadVars
    <3> QED
      BY <3>4, <3>5
  <2> QED
    BY <2>1, <2>2
<1>15. ASSUME NEW a \in Actors, NEW c \in Contexts, ApplyEngine(a, c)
       PROVE TypeInv'
  <2>1. CASE usage[held[a]][c] <= tag[c]
    <3>1. usage' = [usage EXCEPT ![held[a]] = [usage[held[a]] EXCEPT ![c] = NotUsed]]
      BY <1>15, <2>1 DEF ApplyEngine
    <3>2. held[a] \in Deletions
      BY <1>15 DEF ApplyEngine
    <3>3. usage' \in [Deletions -> [Contexts -> Nat \cup {NotUsed}]]
      BY <3>1, <3>2
    <3>4. flushed' = flushed
      BY <1>15, <2>1 DEF ApplyEngine
    <3>5. scan' \in [Actors -> SUBSET Contexts]
      BY <1>15 DEF ApplyEngine
    <3>6. UNCHANGED <<queue, elementsToRelease, doWorkInBackground, queueMutex,
                      pc, op, held, life, tag, threadVars>>
      BY <1>15 DEF ApplyEngine
    <3> QED
      BY <3>3, <3>4, <3>5, <3>6, SMTT(10), ZenonT(40) DEF threadVars
  <2>2. CASE ~(usage[held[a]][c] <= tag[c])
    <3>1. usage' = usage /\ flushed' = [flushed EXCEPT ![c] = Submitted[c]]
      BY <1>15, <2>2 DEF ApplyEngine
    <3>2. flushed' \in [Contexts -> Nat]
      <4>1. Submitted[c] \in Nat
        BY TaskCountAssumption
      <4> QED
        BY <3>1, <4>1
    <3> QED
      BY <1>15, <3>1, <3>2, SMTT(10), ZenonT(40) DEF ApplyEngine, threadVars
  <2> QED
    BY <2>1, <2>2
<1>16. ASSUME NEW a \in Actors, ApplyEnd(a) PROVE TypeInv'
  BY <1>16, SMTT(10), ZenonT(40) DEF ApplyEnd, Goto, threadVars, gpuVars, clearVars
<1>17. ASSUME NEW a \in Actors, ClearPushBack(a) PROVE TypeInv'
  BY <1>17, SMTT(10), ZenonT(40) DEF ClearPushBack, Goto, threadVars, gpuVars
<1>18. ASSUME NEW a \in Actors, ClearCount(a) PROVE TypeInv'
  BY <1>18, SMTT(10), ZenonT(40) DEF ClearCount, Goto, threadVars, gpuVars
<1>19. ASSUME NEW a \in Actors, ClearLoop(a) PROVE TypeInv'
  <2>1. CASE queue # <<>>
    BY <1>19, <2>1, SMTT(10), ZenonT(40) DEF ClearLoop, Goto, gpuVars, clearVars
  <2>2. CASE queue = <<>>
    <3>1. /\ pc' \in [Actors -> Labels]
          /\ op' \in [Actors -> Ops]
          /\ threadMutex' \in Actors \cup {Nobody}
      BY <1>19, <2>2 DEF ClearLoop, Return, Goto
    <3>2. HeldInv'
      BY <1>19, <2>2, SMTT(10), ZenonT(40) DEF ClearLoop, Return, Goto, clearVars
    <3> QED
      BY <1>19, <3>1, <3>2, SMTT(10), ZenonT(40) DEF ClearLoop, gpuVars, clearVars
  <2> QED
    BY <2>1, <2>2
<1>20. CASE run
  <2>1. TypeOK'
    BY <1>20, SMTT(10), ZenonT(40) DEF run, RunStart, RunLoop, RunWake, RunCheck, Goto, threadVars,
                 gpuVars, clearVars
  <2>2. HeldInv'
    BY <1>20, SMTT(10), ZenonT(40) DEF run, RunStart, RunLoop, RunWake, RunCheck, Goto, threadVars,
                 clearVars
  <2> QED
    BY <2>1, <2>2
<1>21. CASE SpuriousWake
  BY <1>21, SMTT(10), ZenonT(40) DEF SpuriousWake, Goto, threadVars, gpuVars, clearVars
<1>22. ASSUME NEW c \in Contexts, GpuComplete(c) PROVE TypeInv'
  BY <1>22, SMTT(10), ZenonT(40) DEF GpuComplete, threadVars, clearVars
<1>23. CASE UNCHANGED vars
  BY <1>23 DEF vars
<1> HIDE DEF TypeInv
<1> QED
  BY <1>1, <1>2, <1>3, <1>4, <1>5, <1>6, <1>7, <1>8, <1>9, <1>10, <1>11, <1>12,
     <1>13, <1>14, <1>15, <1>16, <1>17, <1>18, <1>19, <1>20, <1>21, <1>22, <1>23
  DEF Next, Invoke, deferDeletion, stop, clearQueue, Terminated

\* Type correctness, with the facts about held deletions it needs: queue only
\* ever receives real deletions because a thread at a push label holds one.
THEOREM TypeCorrect == Spec => []TypeOK
<1>1. Init => TypeInv
  BY InitType
<1>2. TypeInv /\ [Next]_vars => TypeInv'
  BY NextType
<1>3. TypeInv => TypeOK
  BY DEF TypeInv
<1> QED
  BY <1>1, <1>2, <1>3, PTL DEF Spec
----------------------------------------------------------------------------
(* Ownership.                                                              *)

\* A step that touches neither queue, nor held, nor life, and takes no thread
\* to a label that talks about the deletion it holds, changes no owner.
LEMMA OwnFrame ==
  ASSUME OwnInv, UNCHANGED <<queue, held, life>>,
         \A a \in Actors : pc'[a] = pc[a] \/ pc'[a] \notin HoldLabels
  PROVE  OwnInv'
BY DEF OwnInv, PhaseInv, UniqueInv, NoLeakInv, HoldLabels

LEMMA AppendFacts ==
  ASSUME NEW S, NEW q \in Seq(S), NEW e \in S
  PROVE  /\ Len(Append(q, e)) = Len(q) + 1
         /\ \A i \in 1..Len(q) : Append(q, e)[i] = q[i]
         /\ Append(q, e)[Len(q) + 1] = e
         /\ Len(q) \in Nat
OBVIOUS

LEMMA TailFacts ==
  ASSUME NEW S, NEW q \in Seq(S), q # <<>>
  PROVE  /\ Len(q) \in Nat \ {0}
         /\ Len(Tail(q)) = Len(q) - 1
         /\ Head(q) = q[1]
         /\ \A i \in 1..(Len(q) - 1) : Tail(q)[i] = q[i + 1]
OBVIOUS

LEMMA OwnHandOver ==
  ASSUME TypeInv, OwnInv, NEW t \in Threads, NEW d \in Deletions,
         tryDeferDeletions(t, d) \/ checkGpuUsageAndDestroy(t, d)
  PROVE  OwnInv'
<1>1. /\ pc[t] = "idle" /\ life[d] = "live"
      /\ pc' = [pc EXCEPT ![t] = "d_lock"]
      /\ held' = [held EXCEPT ![t] = d]
      /\ life' = [life EXCEPT ![d] = "handed"]
      /\ queue' = queue
  BY DEF tryDeferDeletions, checkGpuUsageAndDestroy, Call, Goto
<1>2. t \in Actors /\ held[t] = None /\ d # None
  BY <1>1, DeletionsAssumption DEF TypeInv, HeldInv, HoldLabels, Actors
<1>3. \A a \in Actors : held[a] # d
  <2> SUFFICES ASSUME NEW a \in Actors, held[a] = d PROVE FALSE
    OBVIOUS
  <2>1. pc[a] \in HoldLabels
    BY <1>2 DEF TypeInv, HeldInv
  <2> QED
    BY <1>1, <2>1 DEF OwnInv, PhaseInv, HoldLabels
<1>4. \A i \in 1..Len(queue) : queue[i] # d
  BY <1>1 DEF OwnInv, PhaseInv
<1>5. \A a \in Actors : a # t => held'[a] = held[a] /\ pc'[a] = pc[a]
  BY <1>1 DEF TypeInv, TypeOK
<1>6. held'[t] = d /\ pc'[t] = "d_lock" /\ life'[d] = "handed"
  BY <1>1, <1>2 DEF TypeInv, TypeOK
<1>7. \A e \in Deletions : e # d => life'[e] = life[e]
  BY <1>1 DEF TypeInv, TypeOK
<1>8. PhaseInv'
  BY <1>1, <1>3, <1>4, <1>5, <1>6, <1>7
  DEF OwnInv, PhaseInv, TypeInv, TypeOK, HeldInv, HoldLabels
<1>9. UniqueInv'
  BY <1>1, <1>3, <1>4, <1>5, <1>6 DEF OwnInv, UniqueInv
<1>10. NoLeakInv'
  <2> SUFFICES ASSUME NEW e \in Deletions, e # d,
                      life[e] \in {"handed", "deferred", "applied"}
               PROVE  \/ \E a \in Actors : held'[a] = e
                      \/ \E i \in 1..Len(queue) : queue[i] = e
    BY <1>1, <1>2, <1>6, <1>7 DEF NoLeakInv
  <2>1. CASE \E a \in Actors : held[a] = e
    <3>1. PICK a \in Actors : held[a] = e
      BY <2>1
    <3>2. a # t
      BY <3>1, <1>2, DeletionsAssumption
    <3> QED
      BY <3>1, <3>2, <1>5
  <2> QED
    BY <2>1 DEF OwnInv, NoLeakInv
<1> QED
  BY <1>8, <1>9, <1>10 DEF OwnInv

\* The steps that only move a held deletion on to its next phase of life.
LEMMA OwnPhaseChange ==
  ASSUME TypeInv, OwnInv, NEW a \in Actors, DeferCount(a) \/ ApplyEnd(a)
  PROVE  OwnInv'
<1>1. held[a] \in Deletions
  BY DEF DeferCount, ApplyEnd, TypeInv, TypeOK, HeldInv, HoldLabels
<1>2. /\ queue' = queue /\ held' = held
      /\ \/ /\ pc' \in {[pc EXCEPT ![a] = "d_push"], [pc EXCEPT ![a] = "c_push"]}
            /\ life' = [life EXCEPT ![held[a]] = "deferred"]
         \/ /\ pc' = [pc EXCEPT ![a] = "c_dec"]
            /\ life' = [life EXCEPT ![held[a]] = "applied"]
  <2>1. CASE DeferCount(a)
    BY <2>1 DEF DeferCount, Goto, clearVars
  <2>2. CASE ApplyEnd(a) /\ isUsed(held[a])
    <3>1. life' = life /\ life[held[a]] = "deferred"
      BY <2>2 DEF ApplyEnd, OwnInv, PhaseInv
    <3>2. life' = [life EXCEPT ![held[a]] = "deferred"]
      BY <3>1, <1>1 DEF TypeInv, TypeOK
    <3> QED
      BY <2>2, <3>2 DEF ApplyEnd, Goto, clearVars
  <2>3. CASE ApplyEnd(a) /\ ~isUsed(held[a])
    BY <2>3 DEF ApplyEnd, Goto, clearVars
  <2> QED
    BY <2>1, <2>2, <2>3
<1>3. \/ pc'[a] \in {"d_push", "c_push"} /\ life'[held[a]] = "deferred"
      \/ pc'[a] = "c_dec" /\ life'[held[a]] = "applied"
  BY <1>1, <1>2 DEF TypeInv, TypeOK
<1>4. /\ \A b \in Actors : b # a => pc'[b] = pc[b] /\ (held[b] # None => held[b] # held[a])
      /\ \A d \in Deletions : d # held[a] => life'[d] = life[d]
  BY <1>1, <1>2, DeletionsAssumption DEF TypeInv, TypeOK, OwnInv, UniqueInv
<1>5. \A i \in 1..Len(queue) : queue[i] # held[a] /\ queue[i] \in Deletions
  BY DEF OwnInv, UniqueInv, TypeInv, TypeOK
<1>6. PhaseInv'
  BY <1>2, <1>3, <1>4, <1>5
  DEF OwnInv, PhaseInv, TypeInv, TypeOK, HeldInv, HoldLabels
<1>7. UniqueInv'
  BY <1>2 DEF OwnInv, UniqueInv
<1>8. NoLeakInv'
  BY <1>1, <1>2, <1>3, <1>4 DEF OwnInv, NoLeakInv, PhaseInv
<1> QED
  BY <1>6, <1>7, <1>8 DEF OwnInv

\* The two pushes: what a thread held is now at the tail of the queue.
LEMMA OwnPush ==
  ASSUME TypeInv, OwnInv, NEW a \in Actors, DeferPush(a) \/ ClearPushBack(a)
  PROVE  OwnInv'
<1>1. /\ held[a] \in Deletions /\ life[held[a]] = "deferred"
      /\ queue' = Append(queue, held[a])
      /\ held' = [held EXCEPT ![a] = None]
      /\ life' = life
      /\ pc' \in {[pc EXCEPT ![a] = "d_notify"], [pc EXCEPT ![a] = "c_loop"]}
  <2>1. pc[a] \in {"d_push", "c_push"}
    BY DEF DeferPush, ClearPushBack
  <2>2. held[a] \in Deletions /\ life[held[a]] = "deferred"
    BY <2>1 DEF TypeInv, TypeOK, HeldInv, HoldLabels, OwnInv, PhaseInv
  <2>3. CASE DeferPush(a)
    BY <2>2, <2>3 DEF DeferPush, Goto
  <2>4. CASE ClearPushBack(a)
    BY <2>2, <2>4 DEF ClearPushBack, Goto
  <2> QED
    BY <2>3, <2>4
<1> DEFINE n == Len(queue)
<1>2. /\ n \in Nat /\ Len(queue') = n + 1 /\ queue'[n + 1] = held[a]
      /\ \A i \in 1..n : queue'[i] = queue[i]
  BY <1>1, AppendFacts DEF TypeInv, TypeOK
<1>3. \A b \in Actors : b # a =>
        held'[b] = held[b] /\ pc'[b] = pc[b] /\ (held[b] # None => held[b] # held[a])
  BY <1>1, DeletionsAssumption DEF TypeInv, TypeOK, OwnInv, UniqueInv
<1>4. held'[a] = None /\ pc'[a] \notin HoldLabels
  BY <1>1 DEF TypeInv, TypeOK, HoldLabels
<1>5. \A i \in 1..n : queue[i] # held[a] /\ queue[i] \in Deletions
  BY DEF OwnInv, UniqueInv, TypeInv, TypeOK
<1> HIDE DEF n
<1>6. PhaseInv'
  <2>1. \A i \in 1..Len(queue') : life'[queue'[i]] = "deferred"
    <3> SUFFICES ASSUME NEW i \in 1..Len(queue') PROVE life[queue'[i]] = "deferred"
      BY <1>1
    <3>1. CASE i = n + 1
      BY <1>1, <1>2, <3>1
    <3>2. CASE i \in 1..n
      BY <1>2, <3>2 DEF OwnInv, PhaseInv, n
    <3> QED
      BY <1>2, <3>1, <3>2
  <2> QED
    BY <1>1, <1>3, <1>4, <2>1 DEF OwnInv, PhaseInv, HoldLabels
<1>7. UniqueInv'
  <2>1. \A b, c \in Actors : held'[b] # None /\ held'[b] = held'[c] => b = c
    BY <1>3, <1>4 DEF OwnInv, UniqueInv
  <2>2. \A i, j \in 1..Len(queue') : queue'[i] = queue'[j] => i = j
    BY <1>2, <1>5 DEF OwnInv, UniqueInv, n
  <2>3. \A b \in Actors, i \in 1..Len(queue') : held'[b] # queue'[i]
    <3> SUFFICES ASSUME NEW b \in Actors, NEW i \in 1..Len(queue')
                 PROVE  held'[b] # queue'[i]
      OBVIOUS
    <3>1. queue'[i] \in Deletions
      BY <1>1, <1>2, <1>5
    <3>2. CASE b = a
      BY <3>1, <3>2, <1>4, DeletionsAssumption
    <3>3. CASE b # a /\ i = n + 1
      BY <3>1, <3>3, <1>2, <1>3, <1>1, DeletionsAssumption
    <3>4. CASE b # a /\ i \in 1..n
      BY <3>4, <1>2, <1>3 DEF OwnInv, UniqueInv, n
    <3> QED
      BY <3>2, <3>3, <3>4, <1>2
  <2> QED
    BY <2>1, <2>2, <2>3 DEF UniqueInv
<1>8. NoLeakInv'
  <2> SUFFICES ASSUME NEW d \in Deletions, life[d] \in {"handed", "deferred", "applied"}
               PROVE  \/ \E b \in Actors : held'[b] = d
                      \/ \E i \in 1..Len(queue') : queue'[i] = d
    BY <1>1 DEF NoLeakInv
  <2>1. CASE d = held[a]
    <3>1. n + 1 \in 1..Len(queue')
      BY <1>2
    <3> QED
      BY <2>1, <3>1, <1>2
  <2>2. CASE d # held[a] /\ \E b \in Actors : held[b] = d
    BY <2>2, <1>3
  <2>3. CASE \E i \in 1..n : queue[i] = d
    <3>1. PICK i \in 1..n : queue[i] = d
      BY <2>3
    <3>2. i \in 1..Len(queue') /\ queue'[i] = d
      BY <3>1, <1>2
    <3> QED
      BY <3>2
  <2> QED
    BY <2>1, <2>2, <2>3 DEF OwnInv, NoLeakInv, n
<1> QED
  BY <1>6, <1>7, <1>8 DEF OwnInv

\* removeFrontOne: the head changes its owner from the queue to the thread.
LEMMA OwnPop ==
  ASSUME TypeInv, OwnInv, NEW a \in Actors, ClearPop(a)
  PROVE  OwnInv'
<1>1. CASE queue = <<>>
  <2>1. UNCHANGED <<queue, held, life>> /\ pc' = [pc EXCEPT ![a] = "c_loop"]
    BY <1>1 DEF ClearPop, Goto, clearVars
  <2> QED
    BY <2>1, OwnFrame DEF TypeInv, TypeOK, HoldLabels
<1>2. CASE queue # <<>>
  <2> DEFINE n == Len(queue)
             d == Head(queue)
  <2>1. /\ pc[a] = "c_pop"
        /\ queue' = Tail(queue)
        /\ held' = [held EXCEPT ![a] = d]
        /\ pc' = [pc EXCEPT ![a] = "c_scan"]
        /\ life' = life
    BY <1>2 DEF ClearPop, Goto
  <2>2. /\ n \in Nat \ {0} /\ Len(queue') = n - 1 /\ d = queue[1]
        /\ \A i \in 1..(n - 1) : queue'[i] = queue[i + 1]
    BY <1>2, <2>1, TailFacts DEF TypeInv, TypeOK
  <2>3. held[a] = None
    BY <2>1 DEF TypeInv, HeldInv, HoldLabels
  <2>4. d \in Deletions /\ life[d] = "deferred"
    BY <1>2, <2>2 DEF OwnInv, PhaseInv, TypeInv, TypeOK
  <2>5. /\ \A b \in Actors : b # a => held'[b] = held[b] /\ pc'[b] = pc[b]
        /\ held'[a] = d /\ pc'[a] = "c_scan"
    BY <2>1 DEF TypeInv, TypeOK
  <2>6. \A b \in Actors : held[b] # d
    BY <2>2 DEF OwnInv, UniqueInv
  <2>7. \A i \in 1..Len(queue') : /\ i + 1 \in 1..n
                                  /\ queue'[i] = queue[i + 1]
                                  /\ queue'[i] # d
    BY <2>2 DEF OwnInv, UniqueInv
  <2> HIDE DEF n, d
  <2>8. PhaseInv'
    <3>1. \A i \in 1..Len(queue') : life[queue'[i]] = "deferred"
      BY <2>7 DEF OwnInv, PhaseInv, n
    <3> QED
      BY <2>1, <2>4, <2>5, <3>1 DEF OwnInv, PhaseInv
  <2>9. UniqueInv'
    <3>1. \A b, c \in Actors : held'[b] # None /\ held'[b] = held'[c] => b = c
      BY <2>5, <2>6 DEF OwnInv, UniqueInv
    <3>2. \A i, j \in 1..Len(queue') : queue'[i] = queue'[j] => i = j
      <4> SUFFICES ASSUME NEW i \in 1..Len(queue'), NEW j \in 1..Len(queue'),
                          queue'[i] = queue'[j]
                   PROVE  i = j
        OBVIOUS
      <4>1. i + 1 = j + 1
        BY <2>7 DEF OwnInv, UniqueInv, n
      <4> QED
        BY <4>1, <2>2
    <3>3. \A b \in Actors, i \in 1..Len(queue') : held'[b] # queue'[i]
      BY <2>5, <2>7 DEF OwnInv, UniqueInv, n
    <3> QED
      BY <3>1, <3>2, <3>3 DEF UniqueInv
  <2>10. NoLeakInv'
    <3> SUFFICES ASSUME NEW e \in Deletions, e # d,
                        life[e] \in {"handed", "deferred", "applied"}
                 PROVE  \/ \E b \in Actors : held'[b] = e
                        \/ \E i \in 1..Len(queue') : queue'[i] = e
      BY <2>1, <2>5 DEF NoLeakInv
    <3>1. CASE \E b \in Actors : held[b] = e
      BY <3>1, <2>3, <2>5, DeletionsAssumption
    <3>2. CASE \E i \in 1..n : queue[i] = e
      <4>1. PICK i \in 1..n : queue[i] = e
        BY <3>2
      <4>2. i # 1
        BY <4>1, <2>2
      <4>3. i - 1 \in 1..(n - 1) /\ queue'[i - 1] = queue[(i - 1) + 1]
        BY <4>2, <2>2
      <4>4. queue'[i - 1] = e /\ i - 1 \in 1..Len(queue')
        BY <4>1, <4>3, <2>2
      <4> QED
        BY <4>4
    <3> QED
      BY <3>1, <3>2 DEF OwnInv, NoLeakInv, n
  <2> QED
    BY <2>8, <2>9, <2>10 DEF OwnInv
<1> QED
  BY <1>1, <1>2

\* elementsToRelease--: the deletion is gone.
LEMMA OwnFreed ==
  ASSUME TypeInv, OwnInv, NEW a \in Actors, ClearCount(a)
  PROVE  OwnInv'
<1>1. /\ held[a] \in Deletions /\ life[held[a]] = "applied"
      /\ queue' = queue
      /\ life' = [life EXCEPT ![held[a]] = "freed"]
      /\ held' = [held EXCEPT ![a] = None]
      /\ pc' = [pc EXCEPT ![a] = "c_loop"]
  BY DEF ClearCount, Goto, TypeInv, TypeOK, HeldInv, HoldLabels, OwnInv, PhaseInv
<1>2. \A b \in Actors : b # a =>
        held'[b] = held[b] /\ pc'[b] = pc[b] /\ (held[b] # None => held[b] # held[a])
  BY <1>1, DeletionsAssumption DEF TypeInv, TypeOK, OwnInv, UniqueInv
<1>3. /\ held'[a] = None /\ pc'[a] = "c_loop" /\ life'[held[a]] = "freed"
      /\ \A d \in Deletions : d # held[a] => life'[d] = life[d]
  BY <1>1 DEF TypeInv, TypeOK
<1>4. \A i \in 1..Len(queue) : queue[i] # held[a] /\ queue[i] \in Deletions
  BY DEF OwnInv, UniqueInv, TypeInv, TypeOK
<1>5. PhaseInv'
  BY <1>1, <1>2, <1>3, <1>4
  DEF OwnInv, PhaseInv, TypeInv, TypeOK, HeldInv, HoldLabels
<1>6. UniqueInv'
  <2>1. \A b \in Actors, i \in 1..Len(queue) : held'[b] # queue[i]
    BY <1>2, <1>3, <1>4, DeletionsAssumption DEF OwnInv, UniqueInv
  <2> QED
    BY <1>1, <1>2, <1>3, <2>1 DEF OwnInv, UniqueInv
<1>7. NoLeakInv'
  <2> SUFFICES ASSUME NEW d \in Deletions, d # held[a],
                      life[d] \in {"handed", "deferred", "applied"}
               PROVE  \/ \E b \in Actors : held'[b] = d
                      \/ \E i \in 1..Len(queue) : queue[i] = d
    BY <1>1, <1>3 DEF NoLeakInv
  <2>1. CASE \E b \in Actors : held[b] = d
    BY <2>1, <1>2
  <2> QED
    BY <2>1 DEF OwnInv, NoLeakInv
<1> QED
  BY <1>5, <1>6, <1>7 DEF OwnInv

LEMMA NextOwn == TypeInv /\ OwnInv /\ [Next]_vars => OwnInv'
<1> SUFFICES ASSUME TypeInv, OwnInv, [Next]_vars PROVE OwnInv'
  OBVIOUS
<1> DEFINE Frame == /\ UNCHANGED <<queue, held, life>>
                    /\ \A a \in Actors : pc'[a] = pc[a] \/ pc'[a] \notin HoldLabels
<1>0. Threads \subseteq Actors /\ Worker \in Actors
  BY DEF Actors
<1>1. ASSUME NEW t \in Threads, NEW d \in Deletions,
             tryDeferDeletions(t, d) \/ checkGpuUsageAndDestroy(t, d)
      PROVE OwnInv'
  BY <1>1, OwnHandOver
<1>2. ASSUME NEW t \in Threads, deferDeletion(t) PROVE OwnInv'
  <2>1. CASE DeferCount(t)
    BY <1>0, <2>1, OwnPhaseChange
  <2>2. CASE DeferPush(t)
    BY <1>0, <2>2, OwnPush
  <2>3. CASE DeferNotify(t)
    <3>1. \E l \in {"idle", "c_pop"} : NotifyAndGoto(t, l)
      BY <2>3 DEF DeferNotify
    <3>2. \A a \in Actors : pc'[a] \in {pc[a], "idle", "c_pop", "w_wake"}
      BY <3>1, NotifyMoves DEF TypeInv, Labels
    <3>3. UNCHANGED <<queue, held, life>>
      BY <2>3 DEF DeferNotify, clearVars
    <3>4. Frame
      BY <3>2, <3>3 DEF HoldLabels
    <3> QED
      BY <3>4, OwnFrame
  <2> QED
    BY <1>2, <2>1, <2>2, <2>3 DEF deferDeletion
<1>3. ASSUME NEW t \in Threads,
             \/ addClient(t) \/ removeClient(t) \/ Destructor(t)
             \/ \E b \in DrainModes : drain(t, b)
      PROVE OwnInv'
  <2>1. Frame
    BY <1>0, <1>3 DEF addClient, removeClient, Destructor, drain, Call, Goto, StopEntry,
                clearVars, TypeInv, TypeOK, HoldLabels
  <2> QED
    BY <2>1, OwnFrame
<1>4. ASSUME NEW t \in Threads, stop(t) \/ DrainSpin(t) PROVE OwnInv'
  <2>1. UNCHANGED <<queue, held, life>>
    BY <1>4 DEF stop, StopLock, StopCheck, StopNotify, StopJoin, DrainSpin, clearVars
  <2>2. CASE StopNotify(t)
    <3>1. \A a \in Actors : pc'[a] \in {pc[a], "s_join", "w_wake"}
      BY <2>2, NotifyMoves DEF StopNotify, TypeInv, Labels
    <3>2. Frame
      BY <2>1, <3>1 DEF HoldLabels
    <3> QED
      BY <3>2, OwnFrame
  <2>3. CASE StopLock(t) \/ StopCheck(t) \/ StopJoin(t) \/ DrainSpin(t)
    <3>1. Frame
      BY <1>0, <2>1, <2>3 DEF StopLock, StopCheck, StopJoin, DrainSpin, Return, Goto,
                  TypeInv, TypeOK, HoldLabels
    <3> QED
      BY <3>1, OwnFrame
  <2> QED
    BY <1>4, <2>2, <2>3 DEF stop
<1>5. ASSUME NEW a \in Actors, clearQueue(a) PROVE OwnInv'
  <2>1. CASE ClearPop(a)
    BY <2>1, OwnPop
  <2>2. ASSUME NEW c \in Contexts, ApplyEngine(a, c) PROVE OwnInv'
    <3>1. Frame
      BY <2>2 DEF ApplyEngine
    <3> QED
      BY <3>1, OwnFrame
  <2>3. CASE ApplyEnd(a)
    BY <2>3, OwnPhaseChange
  <2>4. CASE ClearPushBack(a)
    BY <2>4, OwnPush
  <2>5. CASE ClearCount(a)
    BY <2>5, OwnFreed
  <2>6. CASE ClearLoop(a)
    <3>1. Frame
      BY <2>6 DEF ClearLoop, Return, Goto, clearVars, TypeInv, TypeOK, HoldLabels
    <3> QED
      BY <3>1, OwnFrame
  <2> QED
    BY <1>5, <2>1, <2>2, <2>3, <2>4, <2>5, <2>6 DEF clearQueue
<1>6. CASE run \/ SpuriousWake
  <2>1. Frame
    BY <1>0, <1>6 DEF run, RunStart, RunLoop, RunWake, RunCheck, SpuriousWake, Goto,
                clearVars, TypeInv, TypeOK, HoldLabels
  <2> QED
    BY <2>1, OwnFrame
<1>7. CASE (\E c \in Contexts : GpuComplete(c)) \/ UNCHANGED vars
  <2>1. Frame
    BY <1>7 DEF GpuComplete, vars, clearVars
  <2> QED
    BY <2>1, OwnFrame
<1> QED
  BY <1>1, <1>2, <1>3, <1>4, <1>5, <1>6, <1>7 DEF Next, Invoke, Terminated
----------------------------------------------------------------------------
(* What the GPU may still use.                                             *)

LEMMA UsageFrame ==
  ASSUME UsageInv, UNCHANGED <<usage, tag>>,
         \A d \in Deletions : life'[d] \in {"applied", "freed"} =>
                                life[d] \in {"applied", "freed"}
  PROVE  UsageInv'
BY DEF UsageInv

LEMMA NextUsage == TypeInv /\ OwnInv /\ UsageInv /\ [Next]_vars => UsageInv'
<1> SUFFICES ASSUME TypeInv, OwnInv, UsageInv, [Next]_vars PROVE UsageInv'
  OBVIOUS
<1>1. ASSUME NEW a \in Actors, NEW c \in Contexts, ApplyEngine(a, c)
      PROVE UsageInv'
  <2> DEFINE d == held[a]
  <2>1. d \in Deletions /\ life' = life /\ tag' = tag
    BY <1>1 DEF ApplyEngine, TypeInv, TypeOK, HeldInv, HoldLabels
  <2>2. CASE usage[d][c] <= tag[c]
    <3>1. usage' = [usage EXCEPT ![d] = [usage[d] EXCEPT ![c] = NotUsed]]
      BY <1>1, <2>2 DEF ApplyEngine
    <3>2. usage'[d] = [usage[d] EXCEPT ![c] = NotUsed]
      BY <2>1, <3>1 DEF TypeInv, TypeOK
    <3>3. /\ usage'[d][c] = NotUsed
          /\ \A e \in Contexts : e # c => usage'[d][e] = usage[d][e]
          /\ \A e \in Deletions : e # d => usage'[e] = usage[e]
      BY <2>1, <3>1, <3>2 DEF TypeInv, TypeOK
    <3>4. LastUse[d][c] # NotUsed => LastUse[d][c] <= tag[c]
      BY <2>1, <2>2 DEF UsageInv
    <3> HIDE DEF d
    <3> QED
      BY <2>1, <3>3, <3>4 DEF UsageInv
  <2>3. CASE ~(usage[d][c] <= tag[c])
    <3>1. usage' = usage
      BY <1>1, <2>3 DEF ApplyEngine
    <3> QED
      BY <2>1, <3>1, UsageFrame
  <2> QED
    BY <2>2, <2>3
<1>2. ASSUME NEW a \in Actors, ApplyEnd(a) PROVE UsageInv'
  <2>1. held[a] \in Deletions /\ usage' = usage /\ tag' = tag
    BY <1>2 DEF ApplyEnd, gpuVars, TypeInv, TypeOK, HeldInv, HoldLabels
  <2>2. CASE isUsed(held[a])
    BY <1>2, <2>1, <2>2, UsageFrame DEF ApplyEnd
  <2>3. CASE ~isUsed(held[a])
    <3>1. \A c \in Contexts : usage[held[a]][c] = NotUsed
      BY <2>3 DEF isUsed, UsedContexts, isUsedByOsContext
    <3>2. \A d \in Deletions : d # held[a] => life'[d] = life[d]
      BY <1>2, <2>3 DEF ApplyEnd, TypeInv, TypeOK
    <3> QED
      BY <2>1, <3>1, <3>2 DEF UsageInv
  <2> QED
    BY <2>2, <2>3
<1>3. ASSUME NEW a \in Actors, ClearCount(a) PROVE UsageInv'
  <2>1. held[a] \in Deletions /\ life[held[a]] = "applied"
    BY <1>3 DEF ClearCount, TypeInv, TypeOK, HeldInv, HoldLabels, OwnInv, PhaseInv
  <2>2. \A d \in Deletions : d # held[a] => life'[d] = life[d]
    BY <1>3 DEF ClearCount, TypeInv, TypeOK
  <2>3. usage' = usage /\ tag' = tag
    BY <1>3 DEF ClearCount, gpuVars
  <2> QED
    BY <2>1, <2>2, <2>3, UsageFrame
<1>4. ASSUME NEW c \in Contexts, GpuComplete(c) PROVE UsageInv'
  <2>1. usage' = usage /\ life' = life
    BY <1>4 DEF GpuComplete
  <2>2. \A e \in Contexts : tag[e] \in Nat /\ tag'[e] \in Nat /\ tag[e] <= tag'[e]
    BY <1>4 DEF GpuComplete, TypeInv, TypeOK
  <2>3. \A d \in Deletions, e \in Contexts :
          LastUse[d][e] # NotUsed => LastUse[d][e] \in Nat
    BY TaskCountAssumption
  <2> QED
    BY <2>1, <2>2, <2>3 DEF UsageInv
<1>5. ASSUME NEW t \in Threads, NEW d \in Deletions,
             tryDeferDeletions(t, d) \/ checkGpuUsageAndDestroy(t, d)
      PROVE UsageInv'
  <2>1. /\ life' = [life EXCEPT ![d] = "handed"] /\ usage' = usage /\ tag' = tag
    BY <1>5 DEF tryDeferDeletions, checkGpuUsageAndDestroy, gpuVars
  <2> QED
    BY <2>1, UsageFrame DEF TypeInv, TypeOK
<1>6. ASSUME NEW t \in Threads, DeferCount(t) PROVE UsageInv'
  <2>1. /\ life' = [life EXCEPT ![held[t]] = "deferred"] /\ usage' = usage /\ tag' = tag
    BY <1>6 DEF DeferCount, gpuVars
  <2> QED
    BY <2>1, UsageFrame DEF TypeInv, TypeOK
<1>7. CASE UNCHANGED <<life, usage, tag>>
  BY <1>7, UsageFrame
<1>8. ASSUME NEW t \in Threads,
             \/ DeferPush(t) \/ DeferNotify(t) \/ addClient(t) \/ removeClient(t)
             \/ Destructor(t) \/ (\E b \in DrainModes : drain(t, b))
             \/ stop(t) \/ DrainSpin(t)
      PROVE UNCHANGED <<life, usage, tag>>
  BY <1>8 DEF DeferPush, DeferNotify, addClient, removeClient, Destructor, drain,
       stop, StopLock, StopCheck, StopNotify, StopJoin, DrainSpin, gpuVars
<1>9. ASSUME NEW a \in Actors, ClearPop(a) \/ ClearPushBack(a) \/ ClearLoop(a)
      PROVE UNCHANGED <<life, usage, tag>>
  BY <1>9 DEF ClearPop, ClearPushBack, ClearLoop, gpuVars
<1>10. ASSUME run \/ SpuriousWake \/ UNCHANGED vars
       PROVE UNCHANGED <<life, usage, tag>>
  BY <1>10 DEF run, RunStart, RunLoop, RunWake, RunCheck, SpuriousWake, gpuVars, vars
<1> QED
  BY <1>1, <1>2, <1>3, <1>4, <1>5, <1>6, <1>7, <1>8, <1>9, <1>10
  DEF Next, Invoke, deferDeletion, clearQueue, Terminated
----------------------------------------------------------------------------
(* The counter.                                                            *)

LEMMA NextCount ==
  TypeInv /\ OwnInv /\ CountMatchesPending /\ [Next]_vars => CountMatchesPending'
<1> SUFFICES ASSUME TypeInv, OwnInv, CountMatchesPending, [Next]_vars
             PROVE  CountMatchesPending'
  OBVIOUS
<1>0. IsFiniteSet(Pending) /\ Cardinality(Pending) \in Nat
  <2>1. Pending \subseteq Deletions
    BY DEF Pending
  <2> QED
    BY <2>1, DeletionsAssumption, FS_Subset, FS_CardinalityType
<1>1. ASSUME NEW t \in Threads, DeferCount(t) PROVE CountMatchesPending'
  <2>1. /\ held[t] \in Deletions /\ life[held[t]] = "handed"
        /\ life' = [life EXCEPT ![held[t]] = "deferred"]
        /\ elementsToRelease' = elementsToRelease + 1
    BY <1>1 DEF DeferCount, Actors, TypeInv, TypeOK, HeldInv, HoldLabels, OwnInv, PhaseInv
  <2>2. held[t] \notin Pending /\ Pending' = Pending \cup {held[t]}
    BY <2>1 DEF Pending, TypeInv, TypeOK
  <2>3. Cardinality(Pending') = Cardinality(Pending) + 1
    BY <1>0, <2>2, FS_AddElement
  <2> QED
    BY <2>1, <2>3 DEF CountMatchesPending
<1>2. ASSUME NEW a \in Actors, ClearCount(a) PROVE CountMatchesPending'
  <2>1. /\ held[a] \in Deletions /\ life[held[a]] = "applied"
        /\ life' = [life EXCEPT ![held[a]] = "freed"]
        /\ elementsToRelease' = elementsToRelease - 1
    BY <1>2 DEF ClearCount, TypeInv, TypeOK, HeldInv, HoldLabels, OwnInv, PhaseInv
  <2>2. held[a] \in Pending /\ Pending' = Pending \ {held[a]}
    BY <2>1 DEF Pending, TypeInv, TypeOK
  <2>3. Cardinality(Pending') = Cardinality(Pending) - 1
    BY <1>0, <2>2, FS_RemoveElement
  <2> QED
    BY <2>1, <2>3 DEF CountMatchesPending
<1>3. ASSUME NEW a \in Actors, ApplyEnd(a) PROVE CountMatchesPending'
  <2>1. held[a] \in Deletions /\ life[held[a]] = "deferred"
    BY <1>3 DEF ApplyEnd, TypeInv, TypeOK, HeldInv, HoldLabels, OwnInv, PhaseInv
  <2>2. life' = life \/ life' = [life EXCEPT ![held[a]] = "applied"]
    BY <1>3 DEF ApplyEnd
  <2>3. Pending' = Pending
    BY <2>1, <2>2 DEF Pending, TypeInv, TypeOK
  <2> QED
    BY <1>3, <2>3 DEF ApplyEnd, CountMatchesPending
<1>4. ASSUME NEW t \in Threads, NEW d \in Deletions,
             tryDeferDeletions(t, d) \/ checkGpuUsageAndDestroy(t, d)
      PROVE CountMatchesPending'
  <2>1. /\ life[d] = "live" /\ life' = [life EXCEPT ![d] = "handed"]
        /\ elementsToRelease' = elementsToRelease
    BY <1>4 DEF tryDeferDeletions, checkGpuUsageAndDestroy
  <2>2. Pending' = Pending
    BY <2>1 DEF Pending, TypeInv, TypeOK
  <2> QED
    BY <2>1, <2>2 DEF CountMatchesPending
<1>5. CASE UNCHANGED <<life, elementsToRelease>>
  BY <1>5 DEF CountMatchesPending, Pending
<1>6. ASSUME NEW t \in Threads,
             \/ DeferPush(t) \/ DeferNotify(t) \/ addClient(t) \/ removeClient(t)
             \/ Destructor(t) \/ (\E b \in DrainModes : drain(t, b))
             \/ stop(t) \/ DrainSpin(t)
      PROVE UNCHANGED <<life, elementsToRelease>>
  BY <1>6 DEF DeferPush, DeferNotify, addClient, removeClient, Destructor, drain,
       stop, StopLock, StopCheck, StopNotify, StopJoin, DrainSpin
<1>7. ASSUME NEW a \in Actors,
             \/ ClearPop(a) \/ ClearPushBack(a) \/ ClearLoop(a)
             \/ \E c \in Contexts : ApplyEngine(a, c)
      PROVE UNCHANGED <<life, elementsToRelease>>
  BY <1>7 DEF ClearPop, ClearPushBack, ClearLoop, ApplyEngine
<1>8. ASSUME run \/ SpuriousWake \/ (\E c \in Contexts : GpuComplete(c)) \/ UNCHANGED vars
      PROVE UNCHANGED <<life, elementsToRelease>>
  BY <1>8 DEF run, RunStart, RunLoop, RunWake, RunCheck, SpuriousWake, GpuComplete, vars
<1> QED
  BY <1>1, <1>2, <1>3, <1>4, <1>5, <1>6, <1>7, <1>8
  DEF Next, Invoke, deferDeletion, clearQueue, Terminated
----------------------------------------------------------------------------
LEMMA InitIInv == Init => IInv
<1> SUFFICES ASSUME Init PROVE IInv
  OBVIOUS
<1>1. TypeInv
  BY InitType
<1>2. /\ queue = <<>> /\ elementsToRelease = 0 /\ usage = LastUse
      /\ held = [a \in Actors |-> None]
      /\ pc = [a \in Actors |-> IF a = Worker THEN "w_none" ELSE "idle"]
      /\ life = [d \in Deletions |-> "live"]
  BY DEF Init
<1>3. OwnInv
  BY <1>2 DEF OwnInv, PhaseInv, UniqueInv, NoLeakInv
<1>4. UsageInv
  BY <1>2 DEF UsageInv
<1>5. CountMatchesPending
  <2>1. Pending = {}
    BY <1>2 DEF Pending
  <2> QED
    BY <1>2, <2>1, FS_EmptySet DEF CountMatchesPending
<1> QED
  BY <1>1, <1>3, <1>4, <1>5 DEF IInv

LEMMA NextIInv == IInv /\ [Next]_vars => IInv'
  BY NextType, NextOwn, NextUsage, NextCount DEF IInv

\* The inductive invariant holds in every state of every instance.
LEMMA IInvHolds == Spec => []IInv
<1> QED
  BY InitIInv, NextIInv, PTL DEF Spec

\* clearQueue by several threads at once neither frees a deletion twice nor
\* loses one.
THEOREM OwnershipCorrect == Spec => []OwnedOnce
<1>1. IInv => OwnedOnce
  <2> SUFFICES ASSUME IInv, NEW d \in Deletions
               PROVE /\ life[d] \in {"handed", "deferred", "applied"} =>
                          \/ Owners(d) = {} /\ \E i \in DOMAIN queue : Places(d) = {i}
                          \/ Places(d) = {} /\ \E a \in Actors : Owners(d) = {a}
                     /\ life[d] \in {"live", "freed"} =>
                          Owners(d) = {} /\ Places(d) = {}
    BY DEF OwnedOnce
  <2>1. DOMAIN queue = 1..Len(queue) /\ d # None
    BY DeletionsAssumption DEF IInv, TypeInv, TypeOK
  <2>2. ASSUME NEW a \in Actors, held[a] = d
        PROVE /\ Owners(d) = {a} /\ Places(d) = {}
              /\ life[d] \in {"handed", "deferred", "applied"}
    <3>1. Owners(d) = {a} /\ Places(d) = {}
      BY <2>1, <2>2 DEF Owners, Places, IInv, OwnInv, UniqueInv
    <3>2. pc[a] \in HoldLabels
      BY <2>1, <2>2 DEF IInv, TypeInv, HeldInv
    <3> QED
      BY <2>2, <3>1, <3>2 DEF HoldLabels, IInv, OwnInv, PhaseInv
  <2>3. ASSUME NEW i \in 1..Len(queue), queue[i] = d
        PROVE Places(d) = {i} /\ Owners(d) = {} /\ life[d] = "deferred"
    BY <2>1, <2>3 DEF Owners, Places, IInv, OwnInv, UniqueInv, PhaseInv
  <2>4. CASE life[d] \in {"handed", "deferred", "applied"}
    <3>1. (\E a \in Actors : held[a] = d) \/ (\E i \in 1..Len(queue) : queue[i] = d)
      BY <2>4 DEF IInv, OwnInv, NoLeakInv
    <3> QED
      BY <2>1, <2>2, <2>3, <2>4, <3>1
  <2>5. CASE life[d] \in {"live", "freed"}
    <3>1. \A a \in Actors : held[a] # d
      BY <2>2, <2>5
    <3>2. \A i \in 1..Len(queue) : queue[i] # d
      BY <2>3, <2>5
    <3> QED
      BY <2>1, <2>5, <3>1, <3>2 DEF Owners, Places
  <2> QED
    BY <2>4, <2>5
<1> QED
  BY <1>1, IInvHolds, PTL

\* apply() frees nothing that the GPU may still read or write.
THEOREM NoUseAfterFree == Spec => []FreedOnlyWhenGpuIsDone
<1>1. IInv => FreedOnlyWhenGpuIsDone
  BY DEF IInv, UsageInv, FreedOnlyWhenGpuIsDone
<1> QED
  BY <1>1, IInvHolds, PTL

\* elementsToRelease is exact although it is updated without a lock.
THEOREM CounterExact == Spec => []CountMatchesPending
<1>1. IInv => CountMatchesPending
  BY DEF IInv
<1> QED
  BY <1>1, IInvHolds, PTL

\* drain(true) returns only when everything deferred before has been freed.
THEOREM BlockingDrainCorrect == Spec => BlockingDrainFreesAll
<1> DEFINE P == \A t \in Threads : pc[t] = "spin" /\ pc'[t] = "idle" =>
                  \A d \in Deletions : life[d] # "deferred"
<1>1. IInv /\ [Next]_vars => [P]_vars
  <2> SUFFICES ASSUME IInv, Next, NEW u \in Threads, pc[u] = "spin", pc'[u] = "idle"
               PROVE  \A d \in Deletions : life[d] # "deferred"
    OBVIOUS
  <2>1. elementsToRelease = 0
    <3> USE ActorsAssumption DEF IInv, TypeInv, TypeOK, Actors
    <3>1. ASSUME NEW t \in Threads, Invoke(t) PROVE FALSE
      BY <3>1 DEF Invoke, tryDeferDeletions, checkGpuUsageAndDestroy, addClient,
           removeClient, drain, Destructor, Call, Goto, StopEntry
    <3>2. ASSUME NEW t \in Threads, deferDeletion(t) \/ stop(t) PROVE FALSE
      BY <3>2 DEF deferDeletion, DeferCount, DeferPush, DeferNotify, stop, StopLock,
           StopCheck, StopNotify, StopJoin, NotifyAndGoto, Goto
    <3>3. ASSUME NEW t \in Threads, DrainSpin(t) PROVE elementsToRelease = 0
      BY <3>3 DEF DrainSpin
    <3>4. ASSUME NEW a \in Actors, clearQueue(a) PROVE FALSE
      BY <3>4 DEF clearQueue, ClearPop, ApplyEngine, ApplyEnd, ClearPushBack,
           ClearCount, ClearLoop, Return, Goto
    <3>5. ASSUME run \/ SpuriousWake \/ (\E c \in Contexts : GpuComplete(c)) \/ Terminated
          PROVE FALSE
      BY <3>5 DEF run, RunStart, RunLoop, RunWake, RunCheck, SpuriousWake,
           GpuComplete, Terminated, vars, Goto
    <3> QED
      BY <3>1, <3>2, <3>3, <3>4, <3>5 DEF Next
  <2>2. Pending \subseteq Deletions /\ Cardinality(Pending) = 0
    BY <2>1 DEF IInv, CountMatchesPending, Pending
  <2>3. Pending = {}
    BY <2>2, DeletionsAssumption, FS_Subset, FS_EmptySet
  <2> QED
    BY <2>3 DEF Pending
<1> QED
  BY <1>1, IInvHolds, PTL DEF Spec, BlockingDrainFreesAll
=============================================================================
