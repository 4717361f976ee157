-------------------- MODULE CommandStreamReceiverProofs --------------------
(* What the receiver counts and makes resident is right, for any threads    *)
(* and any calls: types and control, then the task counts, then residency.  *)
EXTENDS CommandStreamReceiver, SequenceTheorems, TLAPS

\* Labels where a thread has the ownership, where it is in flushTask after its
\* task was submitted or recorded, and where it destroys the receiver.
Owning == {"e_resident", "e_submit", "e_flushed", "e_implicit", "e_count", "fb_loop", "fb_flushed"}
InBatch == {"fb_loop", "fb_flushed"}
EnqueueLabels == {"e_lock", "e_resident", "e_submit", "e_flushed", "e_implicit", "e_count", "e_store"}
Counting(t) ==
  \/ pc[t] \in {"e_flushed", "e_implicit", "e_count"}
  \/ pc[t] \in InBatch /\ loc[t].ret = "e_count"
Building(t) == pc[t] \in {"e_resident", "e_submit"} \/ Counting(t)

\* Who is where: the ownership, the labels to return to, and the locals.
OwnershipInv ==
  \A t \in Threads :
    /\ pc[t] \in Owning <=> ownershipMutex = t
    /\ loc[t].ret \in {"idle", "f_read", "w_spin", "d_store", "e_count"}
    /\ loc[t].ret = "e_count" => pc[t] \in InBatch \cup {"e_count", "e_store"}
    /\ loc[t].call # None <=> pc[t] \in EnqueueLabels \/ (pc[t] \in InBatch /\ loc[t].ret = "e_count")
    /\ pc[t] \in InBatch => dispatchMode = "BatchedDispatch"
    /\ pc[t] = "e_flushed" => dispatchMode = "ImmediateDispatch"
    /\ pc[t] \notin {"fb_flushed", "c_free"} => loc[t].list = {}
    /\ pc[t] # "c_free" => loc[t].left = {}

\* The end: only one thread is left, and takes the streams down one by one.
DestroyInv ==
  /\ destroyed =>
       /\ buffers = {}
       /\ \A t \in Threads : /\ todo[t] = <<>>
                             /\ pc[t] \in {"idle", "fb_lock", "fb_loop", "fb_flushed", "d_store", "d_clean"}
                             /\ pc[t] \in {"fb_lock", "fb_loop", "fb_flushed"} => loc[t].ret = "d_store"
       /\ \A t, u \in Threads : pc[t] # "idle" /\ pc[u] # "idle" => t = u
  /\ ~destroyed =>
       /\ \A t \in Threads : loc[t].ret # "d_store" /\ pc[t] \notin {"d_store", "d_clean"}
       /\ \A s \in Streams : stream[s] # None
  /\ \A t \in Threads : /\ pc[t] # "idle" => stream["csr"] # None
                        /\ pc[t] \notin {"idle", "d_clean"} => stream["heap"] # None

ControlInv == OwnershipInv /\ DestroyInv

\* The task counts of all that was submitted and recorded.
CountInv ==
  /\ queueTaskCount = taskCount /\ taskCount < eventNotReady
  /\ \A t \in Threads : Building(t) => taskCount + 1 < eventNotReady
  /\ \A t \in Threads : Counting(t) => Len(submitted) + Len(cmdBuffers) = taskCount + 1
  /\ (\A t \in Threads : ~Counting(t)) => Len(submitted) + Len(cmdBuffers) = taskCount
  /\ dispatchMode = "ImmediateDispatch" => cmdBuffers = <<>>
  /\ (\A t \in Threads : pc[t] \notin {"e_flushed", "fb_flushed"}) =>
       latestFlushedTaskCount = Len(submitted)
  /\ \A t \in Threads : pc[t] = "fb_flushed" => submitted # <<>>
  /\ executed <= Len(submitted)
  /\ \A t \in Threads : /\ loc[t].n <= taskCount /\ loc[t].clean <= taskCount
                        /\ pc[t] = "c_free" => loc[t].clean <= tag
                        /\ pc[t] \in {"d_store", "d_clean"} => cmdBuffers = <<>>

\* What makeResident and the aggregator have marked.
ResidencyInv ==
  /\ \A a \in Allocations : inspected[a] < inspectionId
  /\ \A a \in Allocations : residencyTaskCount[a] = NotUsed \/ residencyTaskCount[a] <= taskCount + 1
  /\ (\A t \in Threads : ~(pc[t] = "e_submit" \/ Counting(t))) =>
       \A a \in Allocations : residencyTaskCount[a] = NotUsed \/ residencyTaskCount[a] <= taskCount
  /\ \A t \in Threads : pc[t] = "e_submit" => SurfacesOf(t) \subseteq residencyAllocations
  /\ \A i \in DOMAIN cmdBuffers : cmdBuffers[i].accesses \subseteq cmdBuffers[i].surfaces \cup {cmdBuffers[i].cb}


IInv == TypeOK /\ ControlInv /\ CountInv /\ ResidencyInv /\ TaskCountsAreHonest
          /\ SubmissionIsResident /\ NobodyWaitsForABatch
----------------------------------------------------------------------------
(* Operators.                                                               *)

LEMMA FreshIsFree == ASSUME Free # {} PROVE Fresh \in Allocations /\ where[Fresh] = "free"
BY DEF Free, Fresh

LEMMA NoLocalsType == NoLocals \in Locals
BY DEF NoLocals, Locals, Labels

LEMMA LocalsType ==
  ASSUME NEW l \in Locals
  PROVE  /\ \A x \in Labels : [l EXCEPT !.ret = x] \in Locals
         /\ \A x \in Nat : [l EXCEPT !.clean = x] \in Locals
         /\ \A x, y \in Nat : [l EXCEPT !.n = x, !.clean = y, !.timeout = TRUE] \in Locals
         /\ [l EXCEPT !.timeout = FALSE] \in Locals
         /\ \A S \in SUBSET Allocations : [l EXCEPT !.list = S] \in Locals
         /\ \A R, S \in SUBSET Allocations : [l EXCEPT !.list = R, !.left = S] \in Locals
         /\ l.list \subseteq Allocations /\ l.left \subseteq Allocations /\ l.clean \in Nat
         /\ l.ret \in Labels
BY DEF Locals

LEMMA CallType ==
  ASSUME TypeOK, NEW t \in Threads, todo[t] # <<>>
  PROVE  /\ Head(todo[t]) \in Call /\ Tail(todo[t]) \in Seq(Call)
         /\ Head(todo[t]).op = "enqueue" => Argument(t) \in Dispatch
         /\ Head(todo[t]).op = "release" => Argument(t) \in Buffers
<1>1. todo[t] \in Seq(Call)
  BY DEF TypeOK
<1>2. Head(todo[t]) \in Call /\ Tail(todo[t]) \in Seq(Call)
  BY <1>1
<1> QED
  BY <1>2 DEF Call, Argument

\* What a thread that builds a task accesses is allocated.
LEMMA SurfacesType ==
  ASSUME TypeOK, ControlInv, NEW t \in Threads, pc[t] \in {"e_resident", "e_submit"}
  PROVE  /\ loc[t].call \in Dispatch
         /\ SurfacesOf(t) \subseteq Allocations
         /\ CommandBufferOf(loc[t].call) \in Allocations
         /\ \A s \in Streams : stream[s] \in Allocations
<1>1. loc[t] \in Locals /\ loc[t].call \in Dispatch
  BY DEF TypeOK, Locals, ControlInv, OwnershipInv, EnqueueLabels
<1>2. ~destroyed
  BY DEF ControlInv, DestroyInv
<1>3. \A s \in Streams : stream[s] \in Allocations
  BY <1>2 DEF TypeOK, ControlInv, DestroyInv
<1>4. stream["heap"] \in Allocations /\ stream["csr"] \in Allocations /\ stream["queue"] \in Allocations
  BY <1>3 DEF Streams
<1> QED
  BY <1>1, <1>3, <1>4, CsrAssumption DEF SurfacesOf, CommandBufferOf, Dispatch, Locals

LEMMA CommandBufferType ==
  ASSUME TypeOK, ControlInv, NEW t \in Threads, pc[t] = "e_submit"
  PROVE  NewCommandBuffer(t) \in CommandBuffer
<1>1. loc[t].call \in Dispatch /\ SurfacesOf(t) \subseteq Allocations
        /\ CommandBufferOf(loc[t].call) \in Allocations
  BY SurfacesType
<1> QED
  BY <1>1 DEF NewCommandBuffer, CommandBuffer, TypeOK, Dispatch

----------------------------------------------------------------------------
(* Types.                                                                   *)

LEMMA InitType == Init => TypeOK
<1> SUFFICES ASSUME Init PROVE TypeOK
  OBVIOUS
<1>1. stream \in [Streams -> Allocations \ Buffers] /\ IsInjective(stream)
  BY CsrAssumption DEF Init
<1>2. /\ pc \in [Threads -> Labels] /\ loc \in [Threads -> Locals]
      /\ todo \in [Threads -> Seq(Call)] /\ destroyed \in BOOLEAN
  BY NoLocalsType, CsrAssumption DEF Init, Labels
<1>3. where \in [Allocations -> Places]
  BY DEF Init, Places
<1>4. /\ lastTask \in [Allocations -> 0..NotUsed] /\ residencyTaskCount \in [Allocations -> 0..NotUsed]
      /\ inspected \in [Allocations -> Nat] /\ inspectionId \in Nat
  BY CsrAssumption DEF Init, NotUsed
<1>5. cmdBuffers \in Seq(CommandBuffer) /\ submitted \in Seq(Task)
  BY DEF Init
<1> QED
  BY <1>1, <1>2, <1>3, <1>4, <1>5 DEF Init, TypeOK

\* The steps of flushBatchedSubmissions that change what is submitted.
LEMMA MergedType ==
  ASSUME TypeOK, NEW k \in 1..Len(cmdBuffers), NEW R \in SUBSET Allocations
  PROVE  /\ Merged(cmdBuffers, k, R) \in Seq(Task) /\ Len(Merged(cmdBuffers, k, R)) = k
         /\ \A i \in 1..k : Merged(cmdBuffers, k, R)[i].n = cmdBuffers[i].n
         /\ \A i \in 1..k : Merged(cmdBuffers, k, R)[i].accesses = cmdBuffers[i].accesses
         /\ \A i \in 1..k : Merged(cmdBuffers, k, R)[i].resident = R
<1>1. \A i \in 1..k : cmdBuffers[i] \in CommandBuffer
  BY DEF TypeOK
<1>2. Head(cmdBuffers) = cmdBuffers[1] /\ cmdBuffers[1] \in CommandBuffer
  BY <1>1 DEF TypeOK
<1>3. \A i \in 1..k : Submit(cmdBuffers[i], cmdBuffers[i].noop /\ i < k, R, Head(cmdBuffers).n) \in Task
  <2> TAKE i \in 1..k
  <2>1. (cmdBuffers[i].noop /\ i < k) \in BOOLEAN
    OBVIOUS
  <2> QED
    BY <1>1, <1>2, <2>1 DEF Submit, Task, CommandBuffer
<1>4. Merged(cmdBuffers, k, R) \in [1..k -> Task] /\ k \in Nat
  BY <1>3 DEF Merged
<1>5. Merged(cmdBuffers, k, R) \in Seq(Task) /\ Len(Merged(cmdBuffers, k, R)) = k
  BY <1>4
<1> QED
  BY <1>5 DEF Merged, Submit

LEMMA ResourcePackageType ==
  ASSUME TypeOK, NEW k \in 1..Len(cmdBuffers)
  PROVE  /\ resourcePackage(cmdBuffers, k) \subseteq Allocations
         /\ Head(cmdBuffers).cb \in Allocations
<1>1. Head(cmdBuffers) \in CommandBuffer /\ \A i \in 2..k : cmdBuffers[i] \in CommandBuffer
  BY DEF TypeOK
<1> QED
  BY <1>1 DEF resourcePackage, Referenced, CommandBuffer

\* What is submitted and what stays recorded when k command buffers are merged.
LEMMA MergedSubmission ==
  ASSUME TypeOK, NEW k \in 1..Len(cmdBuffers), NEW R \in SUBSET Allocations,
         submitted' = submitted \o Merged(cmdBuffers, k, R),
         cmdBuffers' = SubSeq(cmdBuffers, k + 1, Len(cmdBuffers))
  PROVE  /\ submitted' \in Seq(Task) /\ cmdBuffers' \in Seq(CommandBuffer)
         /\ Len(submitted') = Len(submitted) + k /\ DOMAIN submitted' = 1..Len(submitted) + k
         /\ \A i \in 1..Len(submitted) : submitted'[i] = submitted[i]
         /\ \A i \in 1..k : LET x == submitted'[Len(submitted) + i]
                             IN  /\ x.n = cmdBuffers[i].n /\ x.accesses = cmdBuffers[i].accesses
                                 /\ x.resident = R
         /\ Len(cmdBuffers') = Len(cmdBuffers) - k /\ DOMAIN cmdBuffers' = 1..Len(cmdBuffers) - k
         /\ \A i \in 1..Len(cmdBuffers) - k : cmdBuffers'[i] = cmdBuffers[k + i]
<1> DEFINE new == Merged(cmdBuffers, k, R)
<1>1. submitted \in Seq(Task) /\ cmdBuffers \in Seq(CommandBuffer) /\ Len(submitted) \in Nat
  BY DEF TypeOK
<1>2. /\ new \in Seq(Task) /\ Len(new) = k
      /\ \A i \in 1..k : new[i].n = cmdBuffers[i].n /\ new[i].accesses = cmdBuffers[i].accesses
                           /\ new[i].resident = R
  BY MergedType
<1>3. submitted' = submitted \o new
  OBVIOUS
<1> HIDE DEF new
<1>4. /\ submitted' \in Seq(Task) /\ Len(submitted') = Len(submitted) + k
      /\ DOMAIN submitted' = 1..Len(submitted) + k
      /\ \A i \in 1..Len(submitted) + k :
           submitted'[i] = IF i <= Len(submitted) THEN submitted[i] ELSE new[i - Len(submitted)]
  <2>1. new \in Seq(Task) /\ Len(new) = k
    BY <1>2
  <2> QED
    BY <1>1, <1>3, <2>1, ConcatProperties
<1>5. \A i \in 1..k : submitted'[Len(submitted) + i] = new[i]
  <2> TAKE i \in 1..k
  <2>1. Len(submitted) + i \in 1..Len(submitted) + k /\ ~(Len(submitted) + i <= Len(submitted))
        /\ (Len(submitted) + i) - Len(submitted) = i
    BY <1>1
  <2> QED
    BY <1>4, <2>1
<1>6. \A i \in 1..Len(submitted) : submitted'[i] = submitted[i]
  BY <1>1, <1>4
<1>7. /\ cmdBuffers' \in Seq(CommandBuffer)
      /\ Len(cmdBuffers') = Len(cmdBuffers) - k /\ DOMAIN cmdBuffers' = 1..Len(cmdBuffers) - k
      /\ \A i \in 1..Len(cmdBuffers) - k : cmdBuffers'[i] = cmdBuffers[k + i]
  BY <1>1
<1> QED
  BY <1>2, <1>4, <1>5, <1>6, <1>7

LEMMA NextType == IInv /\ [Next]_vars => TypeOK'
<1> SUFFICES ASSUME IInv, [Next]_vars PROVE TypeOK'
  OBVIOUS
<1>0. TypeOK /\ ControlInv /\ CountInv /\ taskCount <= NotUsed /\ queueTaskCount \in 0..NotUsed
  BY CsrAssumption DEF IInv, TypeOK, CountInv, NotUsed
<1>a. ASSUME NEW t \in Threads, NEW l \in Locals, SetLocals(t, l) PROVE loc' \in [Threads -> Locals]
  BY <1>0, <1>a DEF TypeOK, SetLocals
<1>b. \A t \in Threads : loc[t] \in Locals
  BY <1>0 DEF TypeOK
<1> USE DEF countVars, batchVars, allocVars, residencyVars, gpuVars, threadVars, vars
<1>1. ASSUME NEW t \in Threads, BeginEnqueue(t) PROVE TypeOK'
  <2>1. todo[t] # <<>> /\ Head(todo[t]).op = "enqueue"
    BY <1>1 DEF BeginEnqueue, Calls
  <2>2. Argument(t) \in Dispatch
    BY <1>0, <2>1, CallType
  <2>3. \A a \in Allocations \cup {None} : [NoLocals EXCEPT !.call = Argument(t), !.mine = a] \in Locals
    BY <2>2, NoLocalsType DEF Locals
  <2>4. Tail(todo[t]) \in Seq(Call)
    BY <1>0, <2>1, CallType
  <2>5. PICK a \in Allocations \cup {None} :
          /\ Start(t, "e_lock", [NoLocals EXCEPT !.call = Argument(t), !.mine = a])
          /\ \/ UNCHANGED <<where, lastTask>>
             \/ a \in Allocations /\ where' = [where EXCEPT ![a] = "temporary"]
                  /\ lastTask' = [lastTask EXCEPT ![a] = HostPtrTaskCount]
             \/ where' = [where EXCEPT ![a] = "held"] /\ UNCHANGED lastTask
             \/ a \in Allocations /\ where' = [where EXCEPT ![a] = "held"]
                  /\ lastTask' = [lastTask EXCEPT ![a] = NotUsed]
    BY <1>1, FreshIsFree DEF BeginEnqueue, allocate, Reusable
  <2>6. pc' \in [Threads -> Labels] /\ loc' \in [Threads -> Locals] /\ todo' \in [Threads -> Seq(Call)]
    BY <1>0, <2>3, <2>4, <2>5 DEF Start, TypeOK, Labels
  <2>7. where' \in [Allocations -> Places] /\ lastTask' \in [Allocations -> 0..NotUsed]
    <3>1. HostPtrTaskCount \in 0..NotUsed /\ NotUsed \in 0..NotUsed
      BY CsrAssumption DEF NotUsed, HostPtrTaskCount
    <3> QED
      BY <1>0, <2>5, <3>1 DEF TypeOK, Places
  <2> QED
    BY <1>0, <1>1, <2>6, <2>7 DEF BeginEnqueue, TypeOK
<1>1b. ASSUME NEW t \in Threads, EnqueueOutOfResources(t) PROVE TypeOK'
  <2>1. Tail(todo[t]) \in Seq(Call)
    BY <1>0, <1>1b, CallType DEF EnqueueOutOfResources, Calls
  <2> QED
    BY <1>0, <1>1b, <2>1 DEF EnqueueOutOfResources, TypeOK
<1>2. ASSUME NEW t \in Threads, EnqueueLock(t) PROVE TypeOK'
  <2>1. ASSUME NEW s \in Streams, ReplaceStream(s)
        PROVE  /\ stream' \in [Streams -> Allocations \cup {None}]
               /\ where' \in [Allocations -> Places] /\ lastTask' \in [Allocations -> 0..NotUsed]
    <3>1. taskCount \in 0..NotUsed /\ NotUsed \in 0..NotUsed
      BY <1>0, CsrAssumption DEF TypeOK, NotUsed
    <3>2. PICK a \in Allocations :
            /\ stream' = [stream EXCEPT ![s] = a]
            /\ where' = [[where EXCEPT ![stream[s]] = "reusable"] EXCEPT ![a] = "held"]
            /\ \/ lastTask' = [lastTask EXCEPT ![stream[s]] = taskCount]
               \/ lastTask' = [[lastTask EXCEPT ![stream[s]] = taskCount] EXCEPT ![a] = NotUsed]
      BY <2>1, FreshIsFree DEF ReplaceStream, Reusable
    <3> QED
      BY <1>0, <3>1, <3>2 DEF TypeOK, Places
  <2>2. loc[t].call \in Dispatch
    BY <1>0, <1>2 DEF EnqueueLock, TypeOK, Locals, ControlInv, OwnershipInv, EnqueueLabels
  <2>3. /\ stream' \in [Streams -> Allocations \cup {None}]
        /\ where' \in [Allocations -> Places] /\ lastTask' \in [Allocations -> 0..NotUsed]
    BY <1>0, <1>2, <2>1, <2>2 DEF EnqueueLock, Dispatch, TypeOK
  <2> QED
    BY <1>0, <1>2, <2>3 DEF EnqueueLock, Acquire, Goto, Labels, TypeOK
<1>3. ASSUME NEW t \in Threads, MakeResident(t) PROVE TypeOK'
  <2>1. SurfacesOf(t) \subseteq Allocations
    BY <1>0, <1>3, SurfacesType DEF MakeResident
  <2>2. taskCount + 1 \in 0..NotUsed
    BY <1>0, <1>3, CsrAssumption DEF MakeResident, TypeOK, NotUsed, CountInv, Building
  <2>3. /\ residencyAllocations' \subseteq Allocations
        /\ lastTask' \in [Allocations -> 0..NotUsed]
        /\ residencyTaskCount' \in [Allocations -> 0..NotUsed]
    BY <1>0, <1>3, <2>1, <2>2 DEF MakeResident, TypeOK
  <2> QED
    BY <1>0, <1>3, <2>3 DEF MakeResident, Goto, Labels, TypeOK
<1>4. ASSUME NEW t \in Threads, SubmitTask(t) PROVE TypeOK'
  <2>1. NewCommandBuffer(t) \in CommandBuffer
    BY <1>0, <1>4, CommandBufferType DEF SubmitTask
  <2>2. Submit(NewCommandBuffer(t), FALSE,
               NewCommandBuffer(t).surfaces \cup {NewCommandBuffer(t).cb}, NewCommandBuffer(t).n) \in Task
    BY <2>1 DEF Submit, Task, CommandBuffer
  <2>3. submitted \in Seq(Task) /\ cmdBuffers \in Seq(CommandBuffer)
    BY <1>0 DEF TypeOK
  <2>4. submitted' \in Seq(Task) /\ cmdBuffers' \in Seq(CommandBuffer)
    <3> DEFINE b == NewCommandBuffer(t)
               x == Submit(b, FALSE, b.surfaces \cup {b.cb}, b.n)
    <3>1. \/ submitted' = Append(submitted, x) /\ UNCHANGED cmdBuffers
          \/ cmdBuffers' = Append(cmdBuffers, b) /\ UNCHANGED submitted
      BY <1>4 DEF SubmitTask
    <3>2. b \in CommandBuffer /\ x \in Task
      BY <2>1, <2>2
    <3> HIDE DEF b, x
    <3>3. Append(submitted, x) \in Seq(Task) /\ Append(cmdBuffers, b) \in Seq(CommandBuffer)
      BY <2>3, <3>2
    <3> QED
      BY <2>3, <3>1, <3>3, Zenon
  <2> QED
    BY <1>0, <1>4, <2>4 DEF SubmitTask, Goto, Labels, TypeOK
<1>5. ASSUME NEW t \in Threads, TaskFlushed(t) PROVE TypeOK'
  <2>1. residencyTaskCount' \in [Allocations -> 0..NotUsed]
    BY <1>0, <1>5, CsrAssumption DEF TaskFlushed, MakeNonResident, TypeOK, NotUsed
  <2> QED
    BY <1>0, <1>5, <2>1 DEF TaskFlushed, Goto, Labels, TypeOK
<1>6. ASSUME NEW t \in Threads, ImplicitFlush(t) PROVE TypeOK'
  <2>1. loc' \in [Threads -> Locals]
    BY <1>0, <1>a, <1>b, <1>6, LocalsType DEF ImplicitFlush, Labels, TypeOK
  <2> QED
    BY <1>0, <1>6, <2>1 DEF ImplicitFlush, Goto, Labels, TypeOK
<1>7. ASSUME NEW t \in Threads, CountTask(t) PROVE TypeOK'
  <2>1. taskCount' = taskCount + 1 /\ taskCount' \in Nat /\ queueTaskCount' \in Nat
    BY <1>0, <1>7 DEF CountTask, TypeOK
  <2>2. loc' \in [Threads -> Locals]
    BY <1>a, <1>b, <1>7, <2>1, LocalsType DEF CountTask
  <2>3. pc' \in [Threads -> Labels]
    BY <1>0, <1>7 DEF CountTask, TypeOK, Goto, Labels
  <2> QED
    BY <1>0, <1>7, <2>1, <2>2, <2>3 DEF CountTask, TypeOK
<1>8. ASSUME NEW t \in Threads, EndEnqueue(t) PROVE TypeOK'
  <2>1. /\ where' \in [Allocations -> Places] /\ lastTask' \in [Allocations -> 0..NotUsed]
    BY <1>0, <1>8 DEF EndEnqueue, storeAllocation, TypeOK, Places
  <2>2. [NoLocals EXCEPT !.n = queueTaskCount, !.clean = loc[t].clean, !.timeout = TRUE] \in Locals
    BY <1>0, <1>b, LocalsType, NoLocalsType DEF TypeOK
  <2>3. loc' \in [Threads -> Locals]
    BY <1>8, <1>a, <2>2, NoLocalsType DEF EndEnqueue
  <2> QED
    BY <1>0, <1>8, <2>1, <2>3 DEF EndEnqueue, Goto, Labels, TypeOK
<1>9. ASSUME NEW t \in Threads, FlushBatchedLock(t) PROVE TypeOK'
  <2>1. loc[t].ret \in Labels /\ "fb_loop" \in Labels
    BY <1>b, LocalsType DEF Labels
  <2>2. /\ \E l \in Labels : pc' = [pc EXCEPT ![t] = l]
        /\ ownershipMutex' \in {ownershipMutex, t}
    BY <1>9, <2>1 DEF FlushBatchedLock, Acquire, Goto
  <2>3. pc' \in [Threads -> Labels] /\ ownershipMutex' \in Threads \cup {None}
    BY <1>0, <2>2 DEF TypeOK
  <2> QED
    BY <1>0, <1>9, <2>3 DEF FlushBatchedLock, TypeOK
<1>10. ASSUME NEW t \in Threads, FlushBatch(t) PROVE TypeOK'
  <2>1. PICK k \in 1..Len(cmdBuffers) :
          /\ submitted' = submitted \o
               Merged(cmdBuffers, k, resourcePackage(cmdBuffers, k) \cup {Head(cmdBuffers).cb})
          /\ cmdBuffers' = SubSeq(cmdBuffers, k + 1, Len(cmdBuffers))
          /\ inspected' = [a \in Allocations |->
               IF a \in resourcePackage(cmdBuffers, Inspected(cmdBuffers, k))
                 THEN inspectionId ELSE inspected[a]]
          /\ SetLocals(t, [loc[t] EXCEPT !.list = resourcePackage(cmdBuffers, k)])
    BY <1>10 DEF FlushBatch
  <2>2. resourcePackage(cmdBuffers, k) \subseteq Allocations /\ Head(cmdBuffers).cb \in Allocations
    BY <1>0, ResourcePackageType
  <2>3. submitted' \in Seq(Task) /\ cmdBuffers' \in Seq(CommandBuffer)
    <3>1. PICK R \in SUBSET Allocations : R = resourcePackage(cmdBuffers, k) \cup {Head(cmdBuffers).cb}
      BY <2>2
    <3>2. submitted' = submitted \o Merged(cmdBuffers, k, R)
      BY <2>1, <3>1
    <3> QED
      BY <1>0, <2>1, <3>2, MergedSubmission
  <2>5. loc' \in [Threads -> Locals]
    BY <1>a, <1>b, <2>1, <2>2, LocalsType
  <2>6. inspected' \in [Allocations -> Nat]
    BY <1>0, <2>1 DEF TypeOK
  <2>7. pc' \in [Threads -> Labels] /\ inspectionId' \in Nat
    BY SMTT(60), <1>0, <1>10 DEF FlushBatch, TypeOK, Goto, Labels, NextInspection
  <2> QED
    BY <1>0, <1>10, <2>3, <2>5, <2>6, <2>7 DEF FlushBatch, TypeOK
<1>11. ASSUME NEW t \in Threads, BatchFlushed(t) PROVE TypeOK'
  <2>1. residencyTaskCount' \in [Allocations -> 0..NotUsed]
    BY SMTT(60), <1>0, <1>11, CsrAssumption DEF BatchFlushed, MakeNonResident, TypeOK, NotUsed
  <2>2. loc' \in [Threads -> Locals]
    BY <1>0, <1>a, <1>b, <1>11, LocalsType DEF BatchFlushed, TypeOK
  <2>3. LastTaskCount \in Nat
    <3>1. submitted \in Seq(Task) /\ submitted # <<>>
      BY <1>0, <1>11 DEF BatchFlushed, TypeOK, CountInv
    <3>2. Len(submitted) \in DOMAIN submitted
      BY <3>1
    <3>3. submitted[Len(submitted)] \in Task
      BY <3>1, <3>2, ElementOfSeq
    <3> QED
      BY <3>3 DEF LastTaskCount, Last, Task
  <2> QED
    BY <1>0, <1>11, <2>1, <2>2, <2>3 DEF BatchFlushed, Goto, Labels, TypeOK
<1>12. ASSUME NEW t \in Threads, FlushBatchedReturn(t) PROVE TypeOK'
  BY <1>0, <1>12 DEF FlushBatchedReturn, Goto, Labels, Locals, TypeOK
<1>13. ASSUME NEW t \in Threads, clFlush(t, "flush", "idle") \/ clFlush(t, "finish", "f_read") PROVE TypeOK'
  <2>1. Tail(todo[t]) \in Seq(Call)
    BY <1>0, <1>13, CallType DEF clFlush, Calls
  <2>2. \A l \in Labels : [NoLocals EXCEPT !.ret = l] \in Locals
    BY NoLocalsType DEF Locals
  <2> QED
    <3>1. \E l, m \in Labels : Start(t, l, [NoLocals EXCEPT !.ret = m])
      BY <1>13 DEF clFlush, Labels
    <3>2. /\ pc' \in [Threads -> Labels] /\ loc' \in [Threads -> Locals]
          /\ todo' \in [Threads -> Seq(Call)]
      BY <1>0, <2>1, <2>2, <3>1 DEF Start, TypeOK
    <3> QED
      BY <1>0, <1>13, <3>2 DEF clFlush, TypeOK
<1>14. ASSUME NEW t \in Threads, FinishRead(t) PROVE TypeOK'
  <2>1. loc' \in [Threads -> Locals]
    BY <1>0, <1>a, <1>b, <1>14, LocalsType DEF FinishRead, TypeOK
  <2> QED
    BY <1>0, <1>14, <2>1 DEF FinishRead, Goto, Labels, TypeOK
<1>15. ASSUME NEW t \in Threads, WaitRead(t) \/ WaitAgain(t) PROVE TypeOK'
  <2>1. loc' \in [Threads -> Locals]
    BY <1>0, <1>a, <1>b, <1>15, LocalsType DEF WaitRead, WaitAgain, Labels, TypeOK
  <2> QED
    BY <1>0, <1>15, <2>1 DEF WaitRead, WaitAgain, Goto, Labels, TypeOK
<1>16. ASSUME NEW t \in Threads, WaitSpin(t) PROVE TypeOK'
  BY <1>0, <1>16 DEF WaitSpin, Goto, Labels, TypeOK
<1>17. ASSUME NEW t \in Threads, CleanDetach(t) PROVE TypeOK'
  <2>1. loc' \in [Threads -> Locals]
    BY <1>a, <1>b, <1>17, LocalsType DEF CleanDetach, Listed
  <2>2. where' \in [Allocations -> Places]
    BY <1>0, <1>17 DEF CleanDetach, TypeOK, Places
  <2> QED
    BY <1>0, <1>17, <2>1, <2>2 DEF CleanDetach, Goto, Labels, TypeOK
<1>18. ASSUME NEW t \in Threads, CleanOne(t) PROVE TypeOK'
  <2>1. loc' \in [Threads -> Locals]
    <3>1. PICK a \in loc[t].list :
            \/ SetLocals(t, [loc[t] EXCEPT !.list = @ \ {a}])
            \/ SetLocals(t, [loc[t] EXCEPT !.list = @ \ {a}, !.left = @ \cup {a}])
      BY <1>18 DEF CleanOne
    <3>2. /\ loc[t].list \ {a} \in SUBSET Allocations
          /\ loc[t].left \cup {a} \in SUBSET Allocations
      BY <1>b, <3>1, LocalsType
    <3>3. /\ [loc[t] EXCEPT !.list = @ \ {a}] \in Locals
          /\ [loc[t] EXCEPT !.list = @ \ {a}, !.left = @ \cup {a}] \in Locals
      BY <1>b, <3>2, LocalsType
    <3> QED
      BY <1>a, <3>1, <3>3
  <2>2. where' \in [Allocations -> Places]
    BY <1>0, <1>18 DEF CleanOne, TypeOK, Places
  <2> QED
    BY <1>0, <1>18, <2>1, <2>2 DEF CleanOne, TypeOK
<1>19. ASSUME NEW t \in Threads, CleanSplice(t) PROVE TypeOK'
  <2>1. where' \in [Allocations -> Places]
    BY <1>0, <1>19 DEF CleanSplice, TypeOK, Places
  <2> QED
    BY <1>0, <1>19, <2>1, NoLocalsType DEF CleanSplice, SetLocals, Goto, Labels, TypeOK
<1>20. ASSUME NEW t \in Threads, checkGpuUsageAndDestroyGraphicsAllocations(t) PROVE TypeOK'
  <2>1. Tail(todo[t]) \in Seq(Call)
    BY <1>0, <1>20, CallType DEF checkGpuUsageAndDestroyGraphicsAllocations, Calls
  <2>2. where' \in [Allocations -> Places] /\ buffers' \subseteq Buffers
    BY <1>0, <1>20 DEF checkGpuUsageAndDestroyGraphicsAllocations, TypeOK, Places
  <2> QED
    BY <1>0, <1>20, <2>1, <2>2, NoLocalsType
    DEF checkGpuUsageAndDestroyGraphicsAllocations, Start, Labels, TypeOK
<1>21. ASSUME NEW t \in Threads, DestroyDevice(t) PROVE TypeOK'
  <2>1. [NoLocals EXCEPT !.ret = "d_store"] \in Locals
    BY NoLocalsType DEF Locals, Labels
  <2>2. taskCount \in 0..NotUsed
    BY <1>0 DEF TypeOK
  <2> QED
    BY <1>0, <1>21, <2>1, <2>2 DEF DestroyDevice, storeAllocation, SetLocals, Goto, Labels, Places, TypeOK
<1>22. ASSUME NEW t \in Threads, DestroyStore(t) PROVE TypeOK'
  <2>2. taskCount \in 0..NotUsed
    BY <1>0 DEF TypeOK
  <2> QED
    BY <1>0, <1>22, <2>2 DEF DestroyStore, storeAllocation, Goto, Labels, Places, TypeOK
<1>23. ASSUME NEW t \in Threads, DestroyClean(t) PROVE TypeOK'
  <2>1. where' \in [Allocations -> Places]
    BY <1>0, <1>23 DEF DestroyClean, TypeOK, Places
  <2> QED
    BY <1>0, <1>23, <2>1 DEF DestroyClean, Goto, Labels, TypeOK
<1>24. CASE GpuExecute
  <2>1. submitted[executed + 1] \in Task
    BY <1>0, <1>24 DEF GpuExecute, TypeOK
  <2>2. tag' \in Nat /\ executed' \in Nat
    BY <1>0, <1>24, <2>1 DEF GpuExecute, TypeOK, Task
  <2> QED
    BY <1>0, <1>24, <2>2 DEF GpuExecute, TypeOK
<1>25. CASE UNCHANGED vars
  BY <1>0, <1>25 DEF TypeOK
<1> QED
  BY <1>1, <1>1b, <1>2, <1>3, <1>4, <1>5, <1>6, <1>7, <1>8, <1>9, <1>10, <1>11, <1>12, <1>13, <1>14,
     <1>15, <1>16, <1>17, <1>18, <1>19, <1>20, <1>21, <1>22, <1>23, <1>24, <1>25
  DEF Next, Step, Invoke, Spin, enqueueHandler, flushBatchedSubmissions, wait, Destroy

\* The walk over the detached list keeps the other locals.
LEMMA CleanOneLocals ==
  ASSUME loc \in [Threads -> Locals], NEW t \in Threads, CleanOne(t)
  PROVE  /\ \A u \in Threads \ {t} : loc'[u] = loc[u]
         /\ loc'[t] = [loc[t] EXCEPT !.list = loc'[t].list, !.left = loc'[t].left]
         /\ \A u \in Threads : /\ loc'[u].n = loc[u].n /\ loc'[u].clean = loc[u].clean
                               /\ loc'[u].ret = loc[u].ret /\ loc'[u].call = loc[u].call
                               /\ loc'[u].mine = loc[u].mine
<1>1. PICK a \in loc[t].list :
        \/ loc' = [loc EXCEPT ![t] = [loc[t] EXCEPT !.list = @ \ {a}]]
        \/ loc' = [loc EXCEPT ![t] = [loc[t] EXCEPT !.list = @ \ {a}, !.left = @ \cup {a}]]
  BY DEF CleanOne, SetLocals
<1>2. CASE loc' = [loc EXCEPT ![t] = [loc[t] EXCEPT !.list = @ \ {a}]]
  BY <1>2 DEF Locals
<1>3. CASE loc' = [loc EXCEPT ![t] = [loc[t] EXCEPT !.list = @ \ {a}, !.left = @ \cup {a}]]
  BY <1>3 DEF Locals
<1> QED
  BY <1>1, <1>2, <1>3

----------------------------------------------------------------------------
(* Control.                                                                 *)

LEMMA NextControl == IInv /\ [Next]_vars => ControlInv'
<1> SUFFICES ASSUME IInv, [Next]_vars PROVE ControlInv'
  OBVIOUS
<1>0. /\ pc \in [Threads -> Labels] /\ loc \in [Threads -> Locals] /\ None \notin Threads
      /\ todo \in [Threads -> Seq(Call)] /\ stream \in [Streams -> Allocations \cup {None}]
      /\ dispatchMode \in {"ImmediateDispatch", "BatchedDispatch"}
      /\ OwnershipInv /\ DestroyInv
  BY CsrAssumption DEF IInv, TypeOK, ControlInv
<1> USE DEF countVars, batchVars, allocVars, residencyVars, gpuVars, threadVars, vars
<1>1. ASSUME NEW t \in Threads, BeginEnqueue(t) PROVE ControlInv'
  <2>0. Argument(t) # None
    BY <1>1, CallType, CsrAssumption DEF BeginEnqueue, Calls, IInv
  <2>1. /\ pc[t] = "idle" /\ todo[t] # <<>>
        /\ pc' = [pc EXCEPT ![t] = "e_lock"] /\ todo' = [todo EXCEPT ![t] = Tail(@)]
        /\ \E a : loc' = [loc EXCEPT ![t] = [NoLocals EXCEPT !.call = Argument(t), !.mine = a]]
        /\ UNCHANGED <<ownershipMutex, dispatchMode, destroyed, stream, buffers>>
    BY <1>1 DEF BeginEnqueue, Calls, Start, allocate
  <2>2. OwnershipInv'
    BY <1>0, <2>0, <2>1 DEF NoLocals, Locals, OwnershipInv, Owning, InBatch, EnqueueLabels
  <2>3. DestroyInv'
    BY <1>0, <2>1 DEF NoLocals, Locals, OwnershipInv, DestroyInv, Streams, Owning, InBatch,
                      EnqueueLabels
  <2> QED
    BY <2>2, <2>3 DEF ControlInv
<1>1b. ASSUME NEW t \in Threads, EnqueueOutOfResources(t) PROVE ControlInv'
  <2>1. /\ todo[t] # <<>> /\ todo' = [todo EXCEPT ![t] = Tail(@)]
        /\ UNCHANGED <<pc, loc, ownershipMutex, dispatchMode, destroyed, stream, buffers>>
    BY <1>1b DEF EnqueueOutOfResources, Calls
  <2>2. OwnershipInv'
    BY <1>0, <2>1 DEF OwnershipInv, Owning
  <2>3. DestroyInv'
    BY <1>0, <2>1 DEF DestroyInv
  <2> QED
    BY <2>2, <2>3 DEF ControlInv
<1>2. ASSUME NEW t \in Threads, EnqueueLock(t) PROVE ControlInv'
  <2>1. /\ pc[t] = "e_lock" /\ ownershipMutex = None
        /\ pc' = [pc EXCEPT ![t] = "e_resident"] /\ ownershipMutex' = t
        /\ UNCHANGED <<loc, dispatchMode, destroyed, buffers, todo>>
        /\ \A s \in Streams : stream[s] # None => stream'[s] # None
    <3>1. \A s \in Streams : ReplaceStream(s) => \E a \in Allocations : stream' = [stream EXCEPT ![s] = a]
      BY FreshIsFree DEF ReplaceStream, Reusable
    <3>2. loc[t].call \in Dispatch
      BY <1>0, <1>2, CsrAssumption DEF EnqueueLock, OwnershipInv, EnqueueLabels, Locals
    <3> QED
      BY <1>0, <1>2, <3>1, <3>2, CsrAssumption DEF EnqueueLock, Acquire, Goto, Dispatch
  <2>2. OwnershipInv'
    BY <1>0, <2>1 DEF NoLocals, Locals, OwnershipInv, Owning, InBatch, EnqueueLabels
  <2>3. DestroyInv'
    BY <1>0, <2>1 DEF NoLocals, Locals, OwnershipInv, DestroyInv, Streams, Owning, InBatch,
                      EnqueueLabels
  <2> QED
    BY <2>2, <2>3 DEF ControlInv
<1>3. ASSUME NEW t \in Threads, MakeResident(t) PROVE ControlInv'
  <2>1. OwnershipInv'
    BY <1>0, <1>3 DEF MakeResident, Goto, NoLocals, Locals, OwnershipInv, Owning, InBatch, EnqueueLabels
  <2>2. DestroyInv'
    BY <1>0, <1>3 DEF MakeResident, Goto, NoLocals, Locals, OwnershipInv, DestroyInv, Streams, Owning, InBatch, EnqueueLabels
  <2> QED
    BY <2>1, <2>2 DEF ControlInv
<1>4. ASSUME NEW t \in Threads, SubmitTask(t) PROVE ControlInv'
  <2>0. /\ pc[t] = "e_submit"
        /\ \/ dispatchMode = "ImmediateDispatch" /\ pc' = [pc EXCEPT ![t] = "e_flushed"]
           \/ dispatchMode = "BatchedDispatch" /\ pc' = [pc EXCEPT ![t] = "e_implicit"]
        /\ UNCHANGED <<ownershipMutex, loc, todo, stream, buffers, dispatchMode, destroyed>>
    BY <1>4 DEF SubmitTask, Goto
  <2>1. OwnershipInv'
    BY <1>0, <2>0 DEF OwnershipInv, Owning, InBatch, EnqueueLabels
  <2>2. DestroyInv'
    BY <1>0, <2>0 DEF OwnershipInv, DestroyInv, Streams, Owning, InBatch, EnqueueLabels
  <2> QED
    BY <2>1, <2>2 DEF ControlInv
<1>5. ASSUME NEW t \in Threads, TaskFlushed(t) PROVE ControlInv'
  <2>1. OwnershipInv'
    BY <1>0, <1>5 DEF TaskFlushed, Goto, NoLocals, Locals, OwnershipInv, Owning, InBatch, EnqueueLabels
  <2>2. DestroyInv'
    BY <1>0, <1>5 DEF TaskFlushed, Goto, NoLocals, Locals, OwnershipInv, DestroyInv, Streams, Owning, InBatch, EnqueueLabels
  <2> QED
    BY <2>1, <2>2 DEF ControlInv
<1>6. ASSUME NEW t \in Threads, ImplicitFlush(t) PROVE ControlInv'
  <2>1. /\ pc[t] = "e_implicit" /\ UNCHANGED <<ownershipMutex, dispatchMode, destroyed, stream, buffers, todo>>
        /\ \/ /\ dispatchMode = "BatchedDispatch" /\ pc' = [pc EXCEPT ![t] = "fb_loop"]
              /\ loc' = [loc EXCEPT ![t] = [loc[t] EXCEPT !.ret = "e_count"]]
           \/ pc' = [pc EXCEPT ![t] = "e_count"] /\ loc' = loc
    BY <1>6 DEF ImplicitFlush, Goto, SetLocals
  <2>2. CASE /\ dispatchMode = "BatchedDispatch" /\ pc' = [pc EXCEPT ![t] = "fb_loop"]
           /\ loc' = [loc EXCEPT ![t] = [loc[t] EXCEPT !.ret = "e_count"]]
    <3>1. OwnershipInv'
      BY <1>0, <2>1, <2>2 DEF NoLocals, Locals, OwnershipInv, Owning, InBatch, EnqueueLabels
    <3>2. DestroyInv'
      BY <1>0, <2>1, <2>2 DEF NoLocals, Locals, OwnershipInv, DestroyInv, Streams, Owning, InBatch
    <3> QED
      BY <3>1, <3>2 DEF ControlInv
  <2>3. CASE pc' = [pc EXCEPT ![t] = "e_count"] /\ loc' = loc
    <3>1. OwnershipInv'
      BY <1>0, <2>1, <2>3 DEF NoLocals, Locals, OwnershipInv, Owning, InBatch, EnqueueLabels
    <3>2. DestroyInv'
      BY <1>0, <2>1, <2>3 DEF NoLocals, Locals, OwnershipInv, DestroyInv, Streams, Owning, InBatch
    <3> QED
      BY <3>1, <3>2 DEF ControlInv
  <2> QED
    BY <2>1, <2>2, <2>3
<1>7. ASSUME NEW t \in Threads, CountTask(t) PROVE ControlInv'
  <2>1. OwnershipInv'
    BY <1>0, <1>7 DEF CountTask, Goto, SetLocals, NoLocals, Locals, OwnershipInv, Owning, InBatch, EnqueueLabels
  <2>2. DestroyInv'
    BY <1>0, <1>7 DEF CountTask, Goto, SetLocals, NoLocals, Locals, OwnershipInv, DestroyInv, Streams, Owning, InBatch, EnqueueLabels
  <2> QED
    BY <2>1, <2>2 DEF ControlInv
<1>8. ASSUME NEW t \in Threads, EndEnqueue(t) PROVE ControlInv'
  <2>1. /\ pc[t] = "e_store" /\ UNCHANGED <<ownershipMutex, dispatchMode, destroyed, stream, buffers, todo>>
        /\ \/ /\ pc' = [pc EXCEPT ![t] = "w_read"]
              /\ loc' = [loc EXCEPT ![t] = [NoLocals EXCEPT !.n = queueTaskCount,
                                             !.clean = loc[t].clean, !.timeout = TRUE]]
           \/ pc' = [pc EXCEPT ![t] = "idle"] /\ loc' = [loc EXCEPT ![t] = NoLocals]
    BY <1>8 DEF EndEnqueue, Goto, SetLocals
  <2>2. CASE /\ pc' = [pc EXCEPT ![t] = "w_read"]
           /\ loc' = [loc EXCEPT ![t] = [NoLocals EXCEPT !.n = queueTaskCount,
                                          !.clean = loc[t].clean, !.timeout = TRUE]]
    <3>1. OwnershipInv'
      BY <1>0, <2>1, <2>2 DEF NoLocals, Locals, OwnershipInv, Owning, InBatch, EnqueueLabels
    <3>2. DestroyInv'
      BY <1>0, <2>1, <2>2 DEF NoLocals, Locals, OwnershipInv, DestroyInv, Streams, Owning, InBatch
    <3> QED
      BY <3>1, <3>2 DEF ControlInv
  <2>3. CASE pc' = [pc EXCEPT ![t] = "idle"] /\ loc' = [loc EXCEPT ![t] = NoLocals]
    <3>1. OwnershipInv'
      BY <1>0, <2>1, <2>3 DEF NoLocals, Locals, OwnershipInv, Owning, InBatch, EnqueueLabels
    <3>2. DestroyInv'
      BY <1>0, <2>1, <2>3 DEF NoLocals, Locals, OwnershipInv, DestroyInv, Streams, Owning, InBatch
    <3> QED
      BY <3>1, <3>2 DEF ControlInv
  <2> QED
    BY <2>1, <2>2, <2>3
<1>9. ASSUME NEW t \in Threads, FlushBatchedLock(t) PROVE ControlInv'
  <2>1. /\ pc[t] = "fb_lock" /\ UNCHANGED <<loc, dispatchMode, destroyed, stream, buffers, todo>>
        /\ \/ pc' = [pc EXCEPT ![t] = loc[t].ret] /\ UNCHANGED ownershipMutex
           \/ /\ dispatchMode # "ImmediateDispatch" /\ pc' = [pc EXCEPT ![t] = "fb_loop"]
              /\ ownershipMutex = None /\ ownershipMutex' = t
    BY <1>9 DEF FlushBatchedLock, Acquire, Goto
  <2>2. CASE pc' = [pc EXCEPT ![t] = loc[t].ret] /\ UNCHANGED ownershipMutex
    <3>1. OwnershipInv'
      BY <1>0, <2>1, <2>2 DEF NoLocals, Locals, OwnershipInv, Owning, InBatch, EnqueueLabels
    <3>2. DestroyInv'
      <4>1. \A u \in Threads : u # t => pc'[u] = pc[u]
        BY <1>0, <2>2
      <4>2. pc'[t] = loc[t].ret /\ pc'[t] \in {"idle", "f_read", "w_spin", "d_store"}
        BY <1>0, <2>1, <2>2 DEF OwnershipInv, InBatch
      <4>3. CASE destroyed
        BY <1>0, <2>1, <4>1, <4>2, <4>3 DEF DestroyInv
      <4>4. CASE ~destroyed
        BY <1>0, <2>1, <4>1, <4>2, <4>4 DEF DestroyInv, Streams
      <4> QED
        BY <4>3, <4>4
    <3> QED
      BY <3>1, <3>2 DEF ControlInv
  <2>3. CASE /\ dispatchMode # "ImmediateDispatch" /\ pc' = [pc EXCEPT ![t] = "fb_loop"]
           /\ ownershipMutex = None /\ ownershipMutex' = t
    <3>1. OwnershipInv'
      BY <1>0, <2>1, <2>3 DEF NoLocals, Locals, OwnershipInv, Owning, InBatch, EnqueueLabels
    <3>2. DestroyInv'
      BY <1>0, <2>1, <2>3 DEF NoLocals, Locals, OwnershipInv, DestroyInv, Streams, Owning, InBatch
    <3> QED
      BY <3>1, <3>2 DEF ControlInv
  <2> QED
    BY <2>1, <2>2, <2>3
<1>10. ASSUME NEW t \in Threads, FlushBatch(t) PROVE ControlInv'
  <2>1. OwnershipInv'
    BY <1>0, <1>10 DEF FlushBatch, Goto, SetLocals, NoLocals, Locals, OwnershipInv, Owning, InBatch, EnqueueLabels
  <2>2. DestroyInv'
    BY <1>0, <1>10 DEF FlushBatch, Goto, SetLocals, NoLocals, Locals, OwnershipInv, DestroyInv, Streams, Owning, InBatch, EnqueueLabels
  <2> QED
    BY <2>1, <2>2 DEF ControlInv
<1>11. ASSUME NEW t \in Threads, BatchFlushed(t) PROVE ControlInv'
  <2>1. OwnershipInv'
    BY <1>0, <1>11 DEF BatchFlushed, Goto, SetLocals, NoLocals, Locals, OwnershipInv, Owning, InBatch, EnqueueLabels
  <2>2. DestroyInv'
    BY <1>0, <1>11 DEF BatchFlushed, Goto, SetLocals, NoLocals, Locals, OwnershipInv, DestroyInv, Streams, Owning, InBatch, EnqueueLabels
  <2> QED
    BY <2>1, <2>2 DEF ControlInv
<1>12. ASSUME NEW t \in Threads, FlushBatchedReturn(t) PROVE ControlInv'
  <2>0. /\ pc[t] = "fb_loop" /\ pc' = [pc EXCEPT ![t] = loc[t].ret]
        /\ ownershipMutex' = IF loc[t].ret = "e_count" THEN t ELSE None
        /\ UNCHANGED <<loc, todo, stream, buffers, dispatchMode, destroyed>>
    BY <1>12 DEF FlushBatchedReturn, Goto
  <2>1. OwnershipInv'
    BY <1>0, <2>0 DEF OwnershipInv, Owning, InBatch, EnqueueLabels
  <2>2. DestroyInv'
    BY <1>0, <2>0 DEF OwnershipInv, DestroyInv, Streams, Owning, InBatch
  <2> QED
    BY <2>1, <2>2 DEF ControlInv
<1>13. ASSUME NEW t \in Threads, clFlush(t, "flush", "idle") PROVE ControlInv'
  <2>1. OwnershipInv'
    BY <1>0, <1>13 DEF clFlush, Calls, Start, NoLocals, Locals, OwnershipInv, Owning, InBatch, EnqueueLabels
  <2>2. DestroyInv'
    BY <1>0, <1>13 DEF clFlush, Calls, Start, NoLocals, Locals, OwnershipInv, DestroyInv, Streams, Owning, InBatch, EnqueueLabels
  <2> QED
    BY <2>1, <2>2 DEF ControlInv
<1>14. ASSUME NEW t \in Threads, clFlush(t, "finish", "f_read") PROVE ControlInv'
  <2>1. OwnershipInv'
    BY <1>0, <1>14 DEF clFlush, Calls, Start, NoLocals, Locals, OwnershipInv, Owning, InBatch, EnqueueLabels
  <2>2. DestroyInv'
    BY <1>0, <1>14 DEF clFlush, Calls, Start, NoLocals, Locals, OwnershipInv, DestroyInv, Streams, Owning, InBatch, EnqueueLabels
  <2> QED
    BY <2>1, <2>2 DEF ControlInv
<1>15. ASSUME NEW t \in Threads, FinishRead(t) PROVE ControlInv'
  <2>1. OwnershipInv'
    BY <1>0, <1>15 DEF FinishRead, Goto, SetLocals, NoLocals, Locals, OwnershipInv, Owning, InBatch, EnqueueLabels
  <2>2. DestroyInv'
    BY <1>0, <1>15 DEF FinishRead, Goto, SetLocals, NoLocals, Locals, OwnershipInv, DestroyInv, Streams, Owning, InBatch, EnqueueLabels
  <2> QED
    BY <2>1, <2>2 DEF ControlInv
<1>16. ASSUME NEW t \in Threads, WaitRead(t) PROVE ControlInv'
  <2>1. /\ pc[t] = "w_read" /\ UNCHANGED <<ownershipMutex, dispatchMode, destroyed, stream, buffers, todo>>
        /\ \/ /\ pc' = [pc EXCEPT ![t] = "fb_lock"]
              /\ loc' = [loc EXCEPT ![t] = [loc[t] EXCEPT !.ret = "w_spin"]]
           \/ pc' = [pc EXCEPT ![t] = "w_spin"] /\ loc' = loc
    BY <1>16 DEF WaitRead, Goto, SetLocals
  <2>2. CASE /\ pc' = [pc EXCEPT ![t] = "fb_lock"]
           /\ loc' = [loc EXCEPT ![t] = [loc[t] EXCEPT !.ret = "w_spin"]]
    <3>1. OwnershipInv'
      BY <1>0, <2>1, <2>2 DEF NoLocals, Locals, OwnershipInv, Owning, InBatch, EnqueueLabels
    <3>2. DestroyInv'
      BY <1>0, <2>1, <2>2 DEF NoLocals, Locals, OwnershipInv, DestroyInv, Streams, Owning, InBatch
    <3> QED
      BY <3>1, <3>2 DEF ControlInv
  <2>3. CASE pc' = [pc EXCEPT ![t] = "w_spin"] /\ loc' = loc
    <3>1. OwnershipInv'
      BY <1>0, <2>1, <2>3 DEF NoLocals, Locals, OwnershipInv, Owning, InBatch, EnqueueLabels
    <3>2. DestroyInv'
      BY <1>0, <2>1, <2>3 DEF NoLocals, Locals, OwnershipInv, DestroyInv, Streams, Owning, InBatch
    <3> QED
      BY <3>1, <3>2 DEF ControlInv
  <2> QED
    BY <2>1, <2>2, <2>3
<1>17. ASSUME NEW t \in Threads, WaitSpin(t) PROVE ControlInv'
  <2>1. /\ pc[t] = "w_spin" /\ UNCHANGED loc /\ UNCHANGED <<ownershipMutex, dispatchMode, destroyed, stream, buffers, todo>>
        /\ \/ pc' = [pc EXCEPT ![t] = "c_detach"]
           \/ pc' = [pc EXCEPT ![t] = "w_stamp"]
    BY <1>17 DEF WaitSpin, Goto
  <2>2. CASE pc' = [pc EXCEPT ![t] = "c_detach"]
    <3>1. OwnershipInv'
      BY <1>0, <2>1, <2>2 DEF NoLocals, Locals, OwnershipInv, Owning, InBatch, EnqueueLabels
    <3>2. DestroyInv'
      BY <1>0, <2>1, <2>2 DEF NoLocals, Locals, OwnershipInv, DestroyInv, Streams, Owning, InBatch
    <3> QED
      BY <3>1, <3>2 DEF ControlInv
  <2>3. CASE pc' = [pc EXCEPT ![t] = "w_stamp"]
    <3>1. OwnershipInv'
      BY <1>0, <2>1, <2>3 DEF NoLocals, Locals, OwnershipInv, Owning, InBatch, EnqueueLabels
    <3>2. DestroyInv'
      BY <1>0, <2>1, <2>3 DEF NoLocals, Locals, OwnershipInv, DestroyInv, Streams, Owning, InBatch
    <3> QED
      BY <3>1, <3>2 DEF ControlInv
  <2> QED
    BY <2>1, <2>2, <2>3
<1>18. ASSUME NEW t \in Threads, WaitAgain(t) PROVE ControlInv'
  <2>1. OwnershipInv'
    BY <1>0, <1>18 DEF WaitAgain, Goto, SetLocals, NoLocals, Locals, OwnershipInv, Owning, InBatch, EnqueueLabels
  <2>2. DestroyInv'
    BY <1>0, <1>18 DEF WaitAgain, Goto, SetLocals, NoLocals, Locals, OwnershipInv, DestroyInv, Streams, Owning, InBatch, EnqueueLabels
  <2> QED
    BY <2>1, <2>2 DEF ControlInv
<1>19. ASSUME NEW t \in Threads, CleanDetach(t) PROVE ControlInv'
  <2>1. OwnershipInv'
    BY <1>0, <1>19 DEF CleanDetach, Goto, SetLocals, NoLocals, Locals, OwnershipInv, Owning, InBatch, EnqueueLabels
  <2>2. DestroyInv'
    BY <1>0, <1>19 DEF CleanDetach, Goto, SetLocals, NoLocals, Locals, OwnershipInv, DestroyInv, Streams, Owning, InBatch, EnqueueLabels
  <2> QED
    BY <2>1, <2>2 DEF ControlInv
<1>20. ASSUME NEW t \in Threads, CleanOne(t) PROVE ControlInv'
  <2>1. /\ pc[t] = "c_free" /\ UNCHANGED pc
        /\ UNCHANGED <<ownershipMutex, dispatchMode, destroyed, stream, buffers, todo>>
    BY <1>20 DEF CleanOne
  <2>2. /\ loc'[t].ret = loc[t].ret /\ loc'[t].call = loc[t].call
        /\ \A u \in Threads \ {t} : loc'[u] = loc[u]
    BY <1>0, <1>20, CleanOneLocals
  <2>3. OwnershipInv'
    BY <1>0, <2>1, <2>2 DEF OwnershipInv
  <2>4. DestroyInv'
    BY <1>0, <2>1, <2>2 DEF DestroyInv
  <2> QED
    BY <2>3, <2>4 DEF ControlInv
<1>21. ASSUME NEW t \in Threads, CleanSplice(t) PROVE ControlInv'
  <2>1. OwnershipInv'
    BY <1>0, <1>21 DEF CleanSplice, Goto, SetLocals, NoLocals, Locals, OwnershipInv, Owning, InBatch, EnqueueLabels
  <2>2. DestroyInv'
    BY <1>0, <1>21 DEF CleanSplice, Goto, SetLocals, NoLocals, Locals, OwnershipInv, DestroyInv, Streams, Owning, InBatch, EnqueueLabels
  <2> QED
    BY <2>1, <2>2 DEF ControlInv
<1>22. ASSUME NEW t \in Threads, checkGpuUsageAndDestroyGraphicsAllocations(t) PROVE ControlInv'
  <2>1. OwnershipInv'
    BY <1>0, <1>22 DEF checkGpuUsageAndDestroyGraphicsAllocations, Calls, Start, NoLocals, Locals, OwnershipInv, Owning, InBatch, EnqueueLabels
  <2>2. DestroyInv'
    BY <1>0, <1>22 DEF checkGpuUsageAndDestroyGraphicsAllocations, Calls, Start, NoLocals, Locals, OwnershipInv, DestroyInv, Streams, Owning, InBatch, EnqueueLabels
  <2> QED
    BY <2>1, <2>2 DEF ControlInv
<1>23. ASSUME NEW t \in Threads, DestroyDevice(t) PROVE ControlInv'
  <2>1. OwnershipInv'
    BY <1>0, <1>23 DEF DestroyDevice, Goto, SetLocals, NoLocals, Locals, OwnershipInv, Owning, InBatch, EnqueueLabels
  <2>2. DestroyInv'
    BY <1>0, <1>23 DEF DestroyDevice, Goto, SetLocals, NoLocals, Locals, OwnershipInv, DestroyInv, Streams, Owning, InBatch, EnqueueLabels
  <2> QED
    BY <2>1, <2>2 DEF ControlInv
<1>24. ASSUME NEW t \in Threads, DestroyStore(t) PROVE ControlInv'
  <2>1. OwnershipInv'
    BY <1>0, <1>24 DEF DestroyStore, Goto, NoLocals, Locals, OwnershipInv, Owning, InBatch, EnqueueLabels
  <2>2. DestroyInv'
    BY <1>0, <1>24 DEF DestroyStore, Goto, NoLocals, Locals, OwnershipInv, DestroyInv, Streams, Owning, InBatch, EnqueueLabels
  <2> QED
    BY <2>1, <2>2 DEF ControlInv
<1>25. ASSUME NEW t \in Threads, DestroyClean(t) PROVE ControlInv'
  <2>1. OwnershipInv'
    BY <1>0, <1>25 DEF DestroyClean, Goto, NoLocals, Locals, OwnershipInv, Owning, InBatch, EnqueueLabels
  <2>2. DestroyInv'
    BY <1>0, <1>25 DEF DestroyClean, Goto, NoLocals, Locals, OwnershipInv, DestroyInv, Streams, Owning, InBatch, EnqueueLabels
  <2> QED
    BY <2>1, <2>2 DEF ControlInv
<1>26. CASE GpuExecute
  BY <1>0, <1>26 DEF GpuExecute, OwnershipInv, DestroyInv, ControlInv
<1>27. CASE UNCHANGED vars
  BY <1>0, <1>27 DEF OwnershipInv, DestroyInv, ControlInv
<1> QED
  BY <1>1, <1>1b, <1>2, <1>3, <1>4, <1>5, <1>6, <1>7, <1>8, <1>9, <1>10, <1>11, <1>12, <1>13, <1>14, <1>15, <1>16, <1>17, <1>18, <1>19, <1>20, <1>21, <1>22, <1>23, <1>24, <1>25, <1>26, <1>27
  DEF Next, Step, Invoke, Spin, enqueueHandler, flushBatchedSubmissions, wait, Destroy

----------------------------------------------------------------------------
(* Task counts.                                                             *)

LEMMA NextCount ==
  IInv /\ [Next]_vars => CountInv' /\ TaskCountsAreHonest' /\ NobodyWaitsForABatch'
<1> SUFFICES ASSUME IInv, [Next]_vars
             PROVE  CountInv' /\ TaskCountsAreHonest' /\ NobodyWaitsForABatch'
  OBVIOUS
<1>0. /\ pc \in [Threads -> Labels] /\ loc \in [Threads -> Locals] /\ None \notin Threads
      /\ submitted \in Seq(Task) /\ cmdBuffers \in Seq(CommandBuffer)
      /\ dispatchMode \in {"ImmediateDispatch", "BatchedDispatch"}
      /\ taskCount \in Nat /\ tag \in Nat /\ executed \in Nat /\ latestFlushedTaskCount \in Nat
      /\ Len(submitted) \in Nat /\ Len(cmdBuffers) \in Nat /\ eventNotReady \in Nat
      /\ (\A u \in Threads : loc[u].n \in Nat /\ loc[u].clean \in Nat)
      /\ OwnershipInv /\ CountInv /\ TaskCountsAreHonest /\ NobodyWaitsForABatch
  BY CsrAssumption DEF IInv, TypeOK, ControlInv, Locals
<1> USE DEF countVars, batchVars, allocVars, residencyVars, gpuVars, threadVars, vars
<1>1. ASSUME NEW t \in Threads, BeginEnqueue(t)
      PROVE  CountInv' /\ TaskCountsAreHonest' /\ NobodyWaitsForABatch'
  <2>1. CountInv'
    <3>1. pc' = [pc EXCEPT ![t] = "e_lock"]
          /\ \E a : loc' = [loc EXCEPT ![t] = [NoLocals EXCEPT !.call = Argument(t), !.mine = a]]
      BY <1>1 DEF BeginEnqueue, Start, allocate
    <3>2. /\ pc[t] = "idle" /\ pc'[t] = "e_lock" /\ loc'[t].n = 0 /\ loc'[t].clean = 0
          /\ \A u \in Threads \ {t} : pc'[u] = pc[u] /\ loc'[u] = loc[u]
          /\ UNCHANGED <<taskCount, queueTaskCount, latestFlushedTaskCount, submitted, cmdBuffers,
                         executed, tag, dispatchMode>>
      BY <1>0, <1>1, <3>1 DEF BeginEnqueue, Calls, NoLocals
    <3>3. \A u \in Threads : (Counting(u)' <=> Counting(u)) /\ (Building(u)' <=> Building(u))
      BY <1>0, <3>2 DEF Counting, Building, InBatch
    <3>4. \A u \in Threads : /\ loc'[u].n <= taskCount /\ loc'[u].clean <= taskCount
                             /\ pc'[u] = "c_free" => loc'[u].clean <= tag
                             /\ pc'[u] \in {"d_store", "d_clean"} => cmdBuffers = <<>>
      BY <1>0, <3>2 DEF CountInv
    <3> QED
      BY <1>0, <3>2, <3>3, <3>4 DEF CountInv
  <2>2. TaskCountsAreHonest'
    BY <1>0, <1>1 DEF BeginEnqueue, Calls, Start, allocate, CountInv, TaskCountsAreHonest
  <2>3. NobodyWaitsForABatch'
    BY <1>0, <1>1 DEF BeginEnqueue, Calls, Start, allocate, NoLocals, Locals, CountInv, TaskCountsAreHonest, NobodyWaitsForABatch
  <2> QED
    BY <2>1, <2>2, <2>3
<1>1b. ASSUME NEW t \in Threads, EnqueueOutOfResources(t)
       PROVE  CountInv' /\ TaskCountsAreHonest' /\ NobodyWaitsForABatch'
  <2>1. UNCHANGED <<pc, loc, taskCount, queueTaskCount, latestFlushedTaskCount, submitted,
                    cmdBuffers, executed, tag, dispatchMode>>
    BY <1>1b DEF EnqueueOutOfResources
  <2> QED
    BY <1>0, <2>1 DEF CountInv, TaskCountsAreHonest, NobodyWaitsForABatch, Counting, Building
<1>2. ASSUME NEW t \in Threads, EnqueueLock(t)
      PROVE  CountInv' /\ TaskCountsAreHonest' /\ NobodyWaitsForABatch'
  <2>1. CountInv'
    BY <1>0, <1>2 DEF EnqueueLock, Acquire, Goto, NoLocals, Locals, OwnershipInv, CountInv, Counting, Building, Owning, InBatch
  <2>2. TaskCountsAreHonest'
    BY <1>0, <1>2 DEF EnqueueLock, Acquire, Goto, CountInv, TaskCountsAreHonest
  <2>3. NobodyWaitsForABatch'
    BY <1>0, <1>2 DEF EnqueueLock, Acquire, Goto, NoLocals, Locals, CountInv, TaskCountsAreHonest, NobodyWaitsForABatch
  <2> QED
    BY <2>1, <2>2, <2>3
<1>3. ASSUME NEW t \in Threads, MakeResident(t)
      PROVE  CountInv' /\ TaskCountsAreHonest' /\ NobodyWaitsForABatch'
  <2>1. CountInv'
    BY <1>0, <1>3 DEF MakeResident, Goto, NoLocals, Locals, OwnershipInv, CountInv, Counting, Building, Owning, InBatch
  <2>2. TaskCountsAreHonest'
    BY <1>0, <1>3 DEF MakeResident, Goto, CountInv, TaskCountsAreHonest
  <2>3. NobodyWaitsForABatch'
    BY <1>0, <1>3 DEF MakeResident, Goto, NoLocals, Locals, CountInv, TaskCountsAreHonest, NobodyWaitsForABatch
  <2> QED
    BY <2>1, <2>2, <2>3
<1>4. ASSUME NEW t \in Threads, SubmitTask(t)
      PROVE  CountInv' /\ TaskCountsAreHonest' /\ NobodyWaitsForABatch'
  <2>1. /\ pc[t] = "e_submit" /\ pc' \in {[pc EXCEPT ![t] = "e_flushed"], [pc EXCEPT ![t] = "e_implicit"]}
        /\ UNCHANGED <<loc, taskCount, queueTaskCount, latestFlushedTaskCount, tag, executed, dispatchMode>>
        /\ dispatchMode = "ImmediateDispatch" => pc'[t] = "e_flushed"
        /\ dispatchMode = "BatchedDispatch" => pc'[t] = "e_implicit"
        /\ \A u \in Threads \ {t} : pc'[u] = pc[u]
    BY <1>0, <1>4 DEF SubmitTask, Goto
  <2>2. /\ \A u \in Threads : ~Counting(u)
        /\ Counting(t)' /\ \A u \in Threads : u # t => ~Counting(u)'
        /\ \A u \in Threads : u # t => ~Building(u)'
        /\ \A u \in Threads : u # t => pc[u] \notin {"fb_flushed", "e_flushed"}
    BY <1>0, <2>1 DEF OwnershipInv, Owning, InBatch, Counting, Building
  <2>3. /\ Len(submitted) + Len(cmdBuffers) = taskCount
        /\ taskCount + 1 < eventNotReady
    BY <1>0, <2>1, <2>2 DEF CountInv, Building
  <2>4. CASE dispatchMode = "ImmediateDispatch"
    <3> DEFINE b == NewCommandBuffer(t)
               x == Submit(b, FALSE, b.surfaces \cup {b.cb}, b.n)
    <3>1. submitted' = Append(submitted, x) /\ UNCHANGED cmdBuffers
      BY <1>4, <2>4 DEF SubmitTask
    <3>2. x.n = taskCount + 1 /\ x \in Task
      <4>1. b \in CommandBuffer /\ b.n = taskCount + 1
        BY <2>1, CommandBufferType DEF IInv, NewCommandBuffer
      <4> QED
        BY <4>1 DEF Submit, Task, CommandBuffer
    <3> HIDE DEF b, x
    <3>3. /\ Len(submitted') = Len(submitted) + 1 /\ submitted' # <<>> /\ cmdBuffers = <<>>
          /\ \A i \in DOMAIN submitted' : submitted'[i] = IF i <= Len(submitted) THEN submitted[i] ELSE x
          /\ DOMAIN submitted' = 1..Len(submitted) + 1
      BY <1>0, <2>4, <3>1, <3>2 DEF CountInv
    <3>4. CountInv'
      BY <1>0, <2>1, <2>2, <2>3, <2>4, <3>1, <3>3 DEF CountInv
    <3>5. TaskCountsAreHonest'
      BY <1>0, <2>1, <2>3, <3>1, <3>2, <3>3 DEF TaskCountsAreHonest
    <3>6. NobodyWaitsForABatch'
      BY <1>0, <2>1, <3>1, <3>3 DEF NobodyWaitsForABatch
    <3> QED
      BY <3>4, <3>5, <3>6
  <2>5. CASE dispatchMode = "BatchedDispatch"
    <3> DEFINE b == NewCommandBuffer(t)
    <3>1. cmdBuffers' = Append(cmdBuffers, b) /\ UNCHANGED submitted
      BY <1>4, <2>5 DEF SubmitTask
    <3>2. b.n = taskCount + 1 /\ b \in CommandBuffer
      BY <2>1, CommandBufferType DEF IInv, NewCommandBuffer
    <3> HIDE DEF b
    <3>3. /\ Len(cmdBuffers') = Len(cmdBuffers) + 1
          /\ \A i \in DOMAIN cmdBuffers' : cmdBuffers'[i] = IF i <= Len(cmdBuffers) THEN cmdBuffers[i] ELSE b
          /\ DOMAIN cmdBuffers' = 1..Len(cmdBuffers) + 1
      BY <1>0, <3>1, <3>2
    <3>4. CountInv'
      <4>1. \A u \in Threads : /\ pc[u] \notin {"e_flushed", "fb_flushed"} /\ pc'[u] \notin {"e_flushed", "fb_flushed"}
                               /\ pc'[u] \in {"d_store", "d_clean", "c_free"} => pc'[u] = pc[u]
        BY <1>0, <2>1, <2>2, <2>5
      <4>2. \A u \in Threads : pc[u] \notin {"d_store", "d_clean"}
        BY <2>1 DEF IInv, ControlInv, DestroyInv
      <4>3. Len(cmdBuffers') = Len(cmdBuffers) + 1
        BY <3>3
      <4>4. \A u \in Threads : /\ loc'[u].n <= taskCount' /\ loc'[u].clean <= taskCount'
                               /\ pc'[u] = "c_free" => loc'[u].clean <= tag'
                               /\ pc'[u] \in {"d_store", "d_clean"} => cmdBuffers' = <<>>
        BY <1>0, <2>1, <4>1, <4>2 DEF CountInv
      <4>5. /\ \A u \in Threads : Building(u)' => taskCount' + 1 < eventNotReady
            /\ \A u \in Threads : Counting(u)' => Len(submitted') + Len(cmdBuffers') = taskCount' + 1
            /\ (\A u \in Threads : ~Counting(u)') => Len(submitted') + Len(cmdBuffers') = taskCount'
        <5>1. Len(submitted') + Len(cmdBuffers') = taskCount' + 1 /\ taskCount' + 1 < eventNotReady
          <6>1. Len(submitted) \in Nat /\ Len(cmdBuffers) \in Nat /\ taskCount \in Nat
            BY <1>0
          <6>2. Len(submitted') = Len(submitted) /\ taskCount' = taskCount
            BY <2>1, <3>1
          <6> QED
            BY <6>1, <6>2, <2>3, <4>3
        <5> QED
          BY <5>1, <2>2
      <4>6. /\ latestFlushedTaskCount' = Len(submitted') /\ executed' <= Len(submitted')
            /\ queueTaskCount' = taskCount' /\ taskCount' < eventNotReady
        BY <1>0, <2>1, <3>1, <4>1 DEF CountInv
      <4> QED
        BY <2>1, <2>5, <4>1, <4>4, <4>5, <4>6 DEF CountInv
    <3>5. TaskCountsAreHonest'
      <4>1. \A i \in DOMAIN cmdBuffers' : cmdBuffers'[i].n = Len(submitted) + i
        <5> TAKE i \in DOMAIN cmdBuffers'
        <5>1. CASE i <= Len(cmdBuffers)
          <6>1. i \in DOMAIN cmdBuffers /\ cmdBuffers'[i] = cmdBuffers[i]
            BY <1>0, <3>3, <5>1
          <6> QED
            BY <1>0, <6>1 DEF TaskCountsAreHonest
        <5>2. CASE ~(i <= Len(cmdBuffers))
          <6>1. i = Len(cmdBuffers) + 1 /\ cmdBuffers'[i].n = taskCount + 1
            BY <1>0, <3>2, <3>3, <5>2
          <6>2. Len(submitted) \in Nat /\ Len(cmdBuffers) \in Nat
            BY <1>0
          <6> QED
            BY <2>3, <6>1, <6>2
        <5> QED
          BY <5>1, <5>2
      <4> QED
        BY <1>0, <2>1, <3>1, <4>1 DEF TaskCountsAreHonest
    <3>6. NobodyWaitsForABatch'
      BY <1>0, <2>1, <3>1, <3>3 DEF NobodyWaitsForABatch
    <3> QED
      BY <3>4, <3>5, <3>6
  <2> QED
    BY <1>0, <2>4, <2>5
<1>5. ASSUME NEW t \in Threads, TaskFlushed(t)
      PROVE  CountInv' /\ TaskCountsAreHonest' /\ NobodyWaitsForABatch'
  <2>1. CountInv'
    BY <1>0, <1>5 DEF TaskFlushed, Goto, NoLocals, Locals, OwnershipInv, CountInv, Counting, Building, Owning, InBatch
  <2>2. TaskCountsAreHonest'
    <3>1. dispatchMode = "ImmediateDispatch" /\ Len(submitted) + Len(cmdBuffers) = taskCount + 1
      BY <1>0, <1>5 DEF TaskFlushed, OwnershipInv, CountInv, Counting
    <3>2. taskCount + 1 = Len(submitted)
      BY <1>0, <3>1 DEF CountInv
    <3> QED
      BY <1>0, <1>5, <3>2 DEF TaskFlushed, TaskCountsAreHonest
  <2>3. NobodyWaitsForABatch'
    BY <1>0, <1>5 DEF TaskFlushed, Goto, NoLocals, Locals, CountInv, TaskCountsAreHonest, NobodyWaitsForABatch
  <2> QED
    BY <2>1, <2>2, <2>3
<1>6. ASSUME NEW t \in Threads, ImplicitFlush(t)
      PROVE  CountInv' /\ TaskCountsAreHonest' /\ NobodyWaitsForABatch'
  <2>1. CountInv'
    <3>1. /\ pc[t] = "e_implicit"
          /\ UNCHANGED <<taskCount, queueTaskCount, latestFlushedTaskCount, submitted, cmdBuffers, executed,
                         tag, dispatchMode>>
          /\ \A u \in Threads \ {t} : pc'[u] = pc[u] /\ loc'[u] = loc[u]
      BY <1>0, <1>6 DEF ImplicitFlush, Goto, SetLocals
    <3>2. /\ pc'[t] \in {"fb_loop", "e_count"}
          /\ pc'[t] = "fb_loop" => loc'[t].ret = "e_count"
          /\ loc'[t].n = loc[t].n /\ loc'[t].clean = loc[t].clean
      <4>1. \/ pc'[t] = "fb_loop" /\ loc'[t] = [loc[t] EXCEPT !.ret = "e_count"]
            \/ pc'[t] = "e_count" /\ loc'[t] = loc[t]
        BY <1>0, <1>6 DEF ImplicitFlush, Goto, SetLocals
      <4> QED
        BY <1>0, <4>1 DEF Locals
    <3> QED
      BY <1>0, <3>1, <3>2 DEF CountInv, Counting, Building, InBatch
  <2>2. TaskCountsAreHonest'
    BY <1>0, <1>6 DEF ImplicitFlush, Goto, SetLocals, CountInv, TaskCountsAreHonest
  <2>3. NobodyWaitsForABatch'
    BY <1>0, <1>6 DEF ImplicitFlush, Goto, SetLocals, NoLocals, Locals, CountInv, TaskCountsAreHonest, NobodyWaitsForABatch
  <2> QED
    BY <2>1, <2>2, <2>3
<1>7. ASSUME NEW t \in Threads, CountTask(t)
      PROVE  CountInv' /\ TaskCountsAreHonest' /\ NobodyWaitsForABatch'
  <2>1. CountInv'
    BY SMTT(60), <1>0, <1>7 DEF CountTask, Goto, SetLocals, NoLocals, Locals, OwnershipInv, CountInv, Counting, Building, Owning, InBatch
  <2>2. TaskCountsAreHonest'
    BY <1>0, <1>7 DEF CountTask, Goto, SetLocals, CountInv, TaskCountsAreHonest
  <2>3. NobodyWaitsForABatch'
    BY <1>0, <1>7 DEF CountTask, Goto, SetLocals, NoLocals, Locals, CountInv, TaskCountsAreHonest, NobodyWaitsForABatch
  <2> QED
    BY <2>1, <2>2, <2>3
<1>8. ASSUME NEW t \in Threads, EndEnqueue(t)
      PROVE  CountInv' /\ TaskCountsAreHonest' /\ NobodyWaitsForABatch'
  <2>1. /\ pc[t] = "e_store"
        /\ UNCHANGED <<taskCount, queueTaskCount, latestFlushedTaskCount, submitted, cmdBuffers, executed,
                       tag, dispatchMode>>
        /\ \A u \in Threads \ {t} : pc'[u] = pc[u] /\ loc'[u] = loc[u]
    BY <1>0, <1>8 DEF EndEnqueue, Goto, SetLocals
  <2>2. /\ pc'[t] \in {"w_read", "idle"} /\ loc'[t].n <= taskCount /\ loc'[t].clean <= taskCount
    <3>1. \/ pc'[t] = "w_read" /\ loc'[t] = [NoLocals EXCEPT !.n = queueTaskCount,
                                               !.clean = loc[t].clean, !.timeout = TRUE]
          \/ pc'[t] = "idle" /\ loc'[t] = NoLocals
      BY <1>0, <1>8 DEF EndEnqueue, Goto, SetLocals
    <3>2. CASE pc'[t] = "idle" /\ loc'[t] = NoLocals
      BY <1>0, <3>2 DEF NoLocals
    <3>3. CASE pc'[t] = "w_read" /\ loc'[t] = [NoLocals EXCEPT !.n = queueTaskCount,
                                               !.clean = loc[t].clean, !.timeout = TRUE]
      <4>1. loc'[t].n = queueTaskCount /\ loc'[t].clean = loc[t].clean
        BY <3>3 DEF NoLocals
      <4> QED
        BY <1>0, <3>3, <4>1 DEF CountInv
    <3> QED
      BY <3>1, <3>2, <3>3
  <2>3. CountInv'
    BY <1>0, <2>1, <2>2 DEF CountInv, Counting, Building, InBatch
  <2>4. TaskCountsAreHonest' /\ NobodyWaitsForABatch'
    BY <1>0, <2>1, <2>2 DEF TaskCountsAreHonest, NobodyWaitsForABatch
  <2> QED
    BY <2>3, <2>4
<1>9. ASSUME NEW t \in Threads, FlushBatchedLock(t)
      PROVE  CountInv' /\ TaskCountsAreHonest' /\ NobodyWaitsForABatch'
  <2>0. /\ pc[t] = "fb_lock"
        /\ \/ dispatchMode = "ImmediateDispatch" /\ pc' = [pc EXCEPT ![t] = loc[t].ret]
           \/ ownershipMutex = None /\ pc' = [pc EXCEPT ![t] = "fb_loop"]
        /\ UNCHANGED <<loc, dispatchMode, taskCount, queueTaskCount, latestFlushedTaskCount, submitted, cmdBuffers,
                       executed, tag>>
    BY <1>9 DEF FlushBatchedLock, Acquire, Goto
  <2>1. CountInv'
    BY SMTT(60), <1>0, <2>0 DEF OwnershipInv, CountInv, Counting, Building, Owning, InBatch
  <2>2. TaskCountsAreHonest'
    BY <1>0, <1>9 DEF FlushBatchedLock, Acquire, Goto, CountInv, TaskCountsAreHonest
  <2>3. NobodyWaitsForABatch'
    BY <1>0, <1>9 DEF FlushBatchedLock, Acquire, Goto, NoLocals, Locals, CountInv, TaskCountsAreHonest, NobodyWaitsForABatch
  <2> QED
    BY <2>1, <2>2, <2>3
<1>10. ASSUME NEW t \in Threads, FlushBatch(t)
      PROVE  CountInv' /\ TaskCountsAreHonest' /\ NobodyWaitsForABatch'
  <2>1. PICK k \in 1..Len(cmdBuffers) :
          /\ submitted' = submitted \o
               Merged(cmdBuffers, k, resourcePackage(cmdBuffers, k) \cup {Head(cmdBuffers).cb})
          /\ cmdBuffers' = SubSeq(cmdBuffers, k + 1, Len(cmdBuffers))
          /\ SetLocals(t, [loc[t] EXCEPT !.list = resourcePackage(cmdBuffers, k)])
    BY <1>10 DEF FlushBatch
  <2>r. PICK R \in SUBSET Allocations : R = resourcePackage(cmdBuffers, k) \cup {Head(cmdBuffers).cb}
    BY ResourcePackageType DEF IInv
  <2>2. submitted' = submitted \o Merged(cmdBuffers, k, R)
    BY <2>1, <2>r
  <2>3. /\ Len(submitted') = Len(submitted) + k /\ DOMAIN submitted' = 1..Len(submitted) + k
        /\ \A i \in 1..Len(submitted) : submitted'[i] = submitted[i]
        /\ \A i \in 1..k : submitted'[Len(submitted) + i].n = cmdBuffers[i].n
    BY <2>1, <2>2, MergedSubmission DEF IInv
  <2>4. /\ Len(cmdBuffers') = Len(cmdBuffers) - k /\ DOMAIN cmdBuffers' = 1..Len(cmdBuffers) - k
        /\ \A i \in 1..Len(cmdBuffers) - k : cmdBuffers'[i] = cmdBuffers[k + i]
    BY <2>1, <2>2, MergedSubmission DEF IInv
  <2>5. /\ pc[t] = "fb_loop" /\ pc' = [pc EXCEPT ![t] = "fb_flushed"]
        /\ UNCHANGED <<taskCount, queueTaskCount, latestFlushedTaskCount, executed, tag, dispatchMode>>
        /\ \A u \in Threads : /\ loc'[u].n = loc[u].n /\ loc'[u].clean = loc[u].clean
                              /\ loc'[u].ret = loc[u].ret
    <3>1. \A u \in Threads : loc'[u] = IF u = t THEN [loc[t] EXCEPT !.list = resourcePackage(cmdBuffers, k)]
                                              ELSE loc[u]
      BY <1>0, <2>1 DEF SetLocals
    <3>2. \A u \in Threads : /\ loc'[u].n = loc[u].n /\ loc'[u].clean = loc[u].clean
                             /\ loc'[u].ret = loc[u].ret
      <4>1. \A S : /\ [loc[t] EXCEPT !.list = S].n = loc[t].n
                   /\ [loc[t] EXCEPT !.list = S].clean = loc[t].clean
                   /\ [loc[t] EXCEPT !.list = S].ret = loc[t].ret
        BY <1>0 DEF Locals
      <4> QED
        BY <3>1, <4>1
    <3> QED
      BY <1>10, <3>2 DEF FlushBatch, Goto
  <2>6. dispatchMode = "BatchedDispatch" /\ submitted' # <<>>
    BY <1>0, <2>3, <2>5 DEF OwnershipInv, InBatch
  <2>7. CountInv'
    <3>1. \A u \in Threads : (Counting(u)' <=> Counting(u)) /\ (Building(u)' <=> Building(u))
      BY <1>0, <2>5 DEF Counting, Building, InBatch
    <3>2. Len(submitted') + Len(cmdBuffers') = Len(submitted) + Len(cmdBuffers)
      BY <1>0, <2>3, <2>4
    <3> QED
      <4>1. \A u \in Threads : /\ pc[u] \notin {"d_store", "d_clean"}
                               /\ pc'[u] \in {"d_store", "d_clean", "c_free"} => pc'[u] = pc[u]
        BY <1>0, <2>5 DEF IInv, ControlInv, DestroyInv
      <4>2. executed <= Len(submitted') /\ pc'[t] = "fb_flushed"
        BY <1>0, <2>3, <2>5 DEF CountInv
      <4> QED
        BY <1>0, <2>5, <2>6, <3>1, <3>2, <4>1, <4>2 DEF CountInv
  <2>8. TaskCountsAreHonest'
    <3>1. \A i \in 1..Len(submitted) + k : submitted'[i].n = i
      <4> TAKE i \in 1..Len(submitted) + k
      <4>1. CASE i <= Len(submitted)
        BY <1>0, <2>3, <4>1 DEF TaskCountsAreHonest
      <4>2. CASE i > Len(submitted)
        <5>1. /\ i - Len(submitted) \in 1..k /\ i - Len(submitted) \in DOMAIN cmdBuffers
              /\ i = Len(submitted) + (i - Len(submitted))
          BY <1>0, <4>2
        <5>2. submitted'[i].n = cmdBuffers[i - Len(submitted)].n
          BY <2>3, <5>1
        <5> QED
          BY <1>0, <5>1, <5>2 DEF TaskCountsAreHonest
      <4> QED
        BY <1>0, <4>1, <4>2
    <3>2. \A i \in DOMAIN cmdBuffers' : cmdBuffers'[i].n = Len(submitted') + i
      <4> TAKE i \in DOMAIN cmdBuffers'
      <4>1. i \in 1..Len(cmdBuffers) - k /\ k + i \in DOMAIN cmdBuffers
        BY <1>0, <2>4
      <4>2. cmdBuffers'[i].n = cmdBuffers[k + i].n /\ cmdBuffers[k + i].n = Len(submitted) + (k + i)
        BY <1>0, <2>4, <4>1 DEF TaskCountsAreHonest
      <4> QED
        BY <1>0, <2>3, <4>1, <4>2
    <3> QED
      BY <1>0, <2>3, <2>5, <3>1, <3>2 DEF TaskCountsAreHonest
  <2>9. NobodyWaitsForABatch'
    BY <1>0, <2>3, <2>5 DEF NobodyWaitsForABatch
  <2> QED
    BY <2>7, <2>8, <2>9
<1>11. ASSUME NEW t \in Threads, BatchFlushed(t)
      PROVE  CountInv' /\ TaskCountsAreHonest' /\ NobodyWaitsForABatch'
  <2>1. /\ pc[t] = "fb_flushed" /\ pc' = [pc EXCEPT ![t] = "fb_loop"]
        /\ UNCHANGED <<taskCount, queueTaskCount, submitted, cmdBuffers, executed, tag, dispatchMode>>
        /\ latestFlushedTaskCount' = LastTaskCount
        /\ \A u \in Threads : /\ loc'[u].n = loc[u].n /\ loc'[u].clean = loc[u].clean
                              /\ loc'[u].ret = loc[u].ret
    BY <1>0, <1>11 DEF BatchFlushed, Goto, SetLocals, Locals
  <2>2. LastTaskCount = Len(submitted)
    BY <1>0, <2>1 DEF CountInv, TaskCountsAreHonest, LastTaskCount, Last
  <2>3. \A u \in Threads : Counting(u)' = Counting(u) /\ Building(u)' = Building(u)
    BY <1>0, <2>1 DEF Counting, Building, InBatch
  <2>4. CountInv'
    BY <1>0, <2>1, <2>2, <2>3 DEF CountInv
  <2>5. TaskCountsAreHonest' /\ NobodyWaitsForABatch'
    BY <1>0, <2>1, <2>2 DEF TaskCountsAreHonest, NobodyWaitsForABatch
  <2> QED
    BY <2>4, <2>5
<1>12. ASSUME NEW t \in Threads, FlushBatchedReturn(t)
      PROVE  CountInv' /\ TaskCountsAreHonest' /\ NobodyWaitsForABatch'
  <2>1. CountInv'
    BY SMTT(60), <1>0, <1>12 DEF FlushBatchedReturn, Goto, NoLocals, Locals, OwnershipInv, CountInv, Counting, Building, Owning, InBatch
  <2>2. TaskCountsAreHonest'
    BY <1>0, <1>12 DEF FlushBatchedReturn, Goto, CountInv, TaskCountsAreHonest
  <2>3. NobodyWaitsForABatch'
    BY <1>0, <1>12 DEF FlushBatchedReturn, Goto, NoLocals, Locals, CountInv, TaskCountsAreHonest, NobodyWaitsForABatch
  <2> QED
    BY <2>1, <2>2, <2>3
<1>13. ASSUME NEW t \in Threads, clFlush(t, "flush", "idle")
      PROVE  CountInv' /\ TaskCountsAreHonest' /\ NobodyWaitsForABatch'
  <2>1. CountInv'
    BY SMTT(60), <1>0, <1>13 DEF clFlush, Calls, Start, NoLocals, Locals, OwnershipInv, CountInv, Counting, Building, Owning, InBatch
  <2>2. TaskCountsAreHonest'
    BY <1>0, <1>13 DEF clFlush, Calls, Start, CountInv, TaskCountsAreHonest
  <2>3. NobodyWaitsForABatch'
    BY <1>0, <1>13 DEF clFlush, Calls, Start, NoLocals, Locals, CountInv, TaskCountsAreHonest, NobodyWaitsForABatch
  <2> QED
    BY <2>1, <2>2, <2>3
<1>14. ASSUME NEW t \in Threads, clFlush(t, "finish", "f_read")
      PROVE  CountInv' /\ TaskCountsAreHonest' /\ NobodyWaitsForABatch'
  <2>1. CountInv'
    BY <1>0, <1>14 DEF clFlush, Calls, Start, NoLocals, Locals, OwnershipInv, CountInv, Counting, Building, Owning, InBatch
  <2>2. TaskCountsAreHonest'
    BY <1>0, <1>14 DEF clFlush, Calls, Start, CountInv, TaskCountsAreHonest
  <2>3. NobodyWaitsForABatch'
    BY <1>0, <1>14 DEF clFlush, Calls, Start, NoLocals, Locals, CountInv, TaskCountsAreHonest, NobodyWaitsForABatch
  <2> QED
    BY <2>1, <2>2, <2>3
<1>15. ASSUME NEW t \in Threads, FinishRead(t)
      PROVE  CountInv' /\ TaskCountsAreHonest' /\ NobodyWaitsForABatch'
  <2>1. CountInv'
    BY <1>0, <1>15 DEF FinishRead, Goto, SetLocals, NoLocals, Locals, OwnershipInv, CountInv, Counting, Building, Owning, InBatch
  <2>2. TaskCountsAreHonest'
    BY <1>0, <1>15 DEF FinishRead, Goto, SetLocals, CountInv, TaskCountsAreHonest
  <2>3. NobodyWaitsForABatch'
    BY <1>0, <1>15 DEF FinishRead, Goto, SetLocals, NoLocals, Locals, CountInv, TaskCountsAreHonest, NobodyWaitsForABatch
  <2> QED
    BY <2>1, <2>2, <2>3
<1>16. ASSUME NEW t \in Threads, WaitRead(t)
      PROVE  CountInv' /\ TaskCountsAreHonest' /\ NobodyWaitsForABatch'
  <2>1. /\ pc[t] = "w_read"
        /\ UNCHANGED <<taskCount, queueTaskCount, latestFlushedTaskCount, submitted, cmdBuffers, executed,
                       tag, dispatchMode>>
        /\ \A u \in Threads \ {t} : pc'[u] = pc[u] /\ loc'[u] = loc[u]
    BY <1>0, <1>16 DEF WaitRead, Goto, SetLocals
  <2>2. /\ pc'[t] \in {"fb_lock", "w_spin"} /\ loc'[t].n = loc[t].n /\ loc'[t].clean = loc[t].clean
        /\ pc'[t] = "w_spin" => loc[t].n <= latestFlushedTaskCount
    <3>1. \/ pc'[t] = "fb_lock" /\ loc'[t] = [loc[t] EXCEPT !.ret = "w_spin"]
          \/ pc'[t] = "w_spin" /\ loc'[t] = loc[t] /\ ~(latestFlushedTaskCount < loc[t].n)
      BY <1>0, <1>16 DEF WaitRead, Goto, SetLocals
    <3> QED
      BY <1>0, <3>1 DEF Locals
  <2>3. CountInv'
    BY <1>0, <2>1, <2>2 DEF CountInv, Counting, Building, InBatch
  <2>4. TaskCountsAreHonest' /\ NobodyWaitsForABatch'
    BY <1>0, <2>1, <2>2 DEF TaskCountsAreHonest, NobodyWaitsForABatch
  <2> QED
    BY <2>3, <2>4
<1>17. ASSUME NEW t \in Threads, WaitSpin(t)
      PROVE  CountInv' /\ TaskCountsAreHonest' /\ NobodyWaitsForABatch'
  <2>1. CountInv'
    BY SMTT(60), <1>0, <1>17 DEF WaitSpin, Goto, NoLocals, Locals, OwnershipInv, CountInv, Counting, Building, Owning, InBatch
  <2>2. TaskCountsAreHonest'
    BY <1>0, <1>17 DEF WaitSpin, Goto, CountInv, TaskCountsAreHonest
  <2>3. NobodyWaitsForABatch'
    BY <1>0, <1>17 DEF WaitSpin, Goto, NoLocals, Locals, CountInv, TaskCountsAreHonest, NobodyWaitsForABatch
  <2> QED
    BY <2>1, <2>2, <2>3
<1>18. ASSUME NEW t \in Threads, WaitAgain(t)
      PROVE  CountInv' /\ TaskCountsAreHonest' /\ NobodyWaitsForABatch'
  <2>1. CountInv'
    BY <1>0, <1>18 DEF WaitAgain, Goto, SetLocals, NoLocals, Locals, OwnershipInv, CountInv, Counting, Building, Owning, InBatch
  <2>2. TaskCountsAreHonest'
    BY <1>0, <1>18 DEF WaitAgain, Goto, SetLocals, CountInv, TaskCountsAreHonest
  <2>3. NobodyWaitsForABatch'
    BY <1>0, <1>18 DEF WaitAgain, Goto, SetLocals, NoLocals, Locals, CountInv, TaskCountsAreHonest, NobodyWaitsForABatch
  <2> QED
    BY <2>1, <2>2, <2>3
<1>19. ASSUME NEW t \in Threads, CleanDetach(t)
      PROVE  CountInv' /\ TaskCountsAreHonest' /\ NobodyWaitsForABatch'
  <2>1. CountInv'
    BY <1>0, <1>19 DEF CleanDetach, Goto, SetLocals, NoLocals, Locals, OwnershipInv, CountInv, Counting, Building, Owning, InBatch
  <2>2. TaskCountsAreHonest'
    BY <1>0, <1>19 DEF CleanDetach, Goto, SetLocals, CountInv, TaskCountsAreHonest
  <2>3. NobodyWaitsForABatch'
    BY <1>0, <1>19 DEF CleanDetach, Goto, SetLocals, NoLocals, Locals, CountInv, TaskCountsAreHonest, NobodyWaitsForABatch
  <2> QED
    BY <2>1, <2>2, <2>3
<1>20. ASSUME NEW t \in Threads, CleanOne(t)
      PROVE  CountInv' /\ TaskCountsAreHonest' /\ NobodyWaitsForABatch'
  <2>1. CountInv'
    <3>1. /\ \A u \in Threads : /\ loc'[u].n = loc[u].n /\ loc'[u].clean = loc[u].clean
                                /\ loc'[u].ret = loc[u].ret
      BY <1>0, <1>20, CleanOneLocals
    <3> QED
      BY <1>0, <1>20, <3>1 DEF CleanOne, CountInv, Counting, Building
  <2>2. TaskCountsAreHonest'
    BY <1>0, <1>20 DEF CleanOne, SetLocals, CountInv, TaskCountsAreHonest
  <2>3. NobodyWaitsForABatch'
    BY <1>0, <1>20 DEF CleanOne, SetLocals, NoLocals, Locals, CountInv, TaskCountsAreHonest, NobodyWaitsForABatch
  <2> QED
    BY <2>1, <2>2, <2>3
<1>21. ASSUME NEW t \in Threads, CleanSplice(t)
      PROVE  CountInv' /\ TaskCountsAreHonest' /\ NobodyWaitsForABatch'
  <2>1. CountInv'
    BY <1>0, <1>21 DEF CleanSplice, Goto, SetLocals, NoLocals, Locals, OwnershipInv, CountInv, Counting, Building, Owning, InBatch
  <2>2. TaskCountsAreHonest'
    BY <1>0, <1>21 DEF CleanSplice, Goto, SetLocals, CountInv, TaskCountsAreHonest
  <2>3. NobodyWaitsForABatch'
    BY <1>0, <1>21 DEF CleanSplice, Goto, SetLocals, NoLocals, Locals, CountInv, TaskCountsAreHonest, NobodyWaitsForABatch
  <2> QED
    BY <2>1, <2>2, <2>3
<1>22. ASSUME NEW t \in Threads, checkGpuUsageAndDestroyGraphicsAllocations(t)
      PROVE  CountInv' /\ TaskCountsAreHonest' /\ NobodyWaitsForABatch'
  <2>1. CountInv'
    BY <1>0, <1>22 DEF checkGpuUsageAndDestroyGraphicsAllocations, Calls, Start, NoLocals, Locals, OwnershipInv, CountInv, Counting, Building, Owning, InBatch
  <2>2. TaskCountsAreHonest'
    BY <1>0, <1>22 DEF checkGpuUsageAndDestroyGraphicsAllocations, Calls, Start, CountInv, TaskCountsAreHonest
  <2>3. NobodyWaitsForABatch'
    BY <1>0, <1>22 DEF checkGpuUsageAndDestroyGraphicsAllocations, Calls, Start, NoLocals, Locals, CountInv, TaskCountsAreHonest, NobodyWaitsForABatch
  <2> QED
    BY <2>1, <2>2, <2>3
<1>23. ASSUME NEW t \in Threads, DestroyDevice(t)
      PROVE  CountInv' /\ TaskCountsAreHonest' /\ NobodyWaitsForABatch'
  <2>1. CountInv'
    BY SMTT(60), <1>0, <1>23 DEF DestroyDevice, Goto, SetLocals, NoLocals, Locals, OwnershipInv, CountInv, Counting, Building, Owning, InBatch
  <2>2. TaskCountsAreHonest'
    BY <1>0, <1>23 DEF DestroyDevice, Goto, SetLocals, CountInv, TaskCountsAreHonest
  <2>3. NobodyWaitsForABatch'
    BY <1>0, <1>23 DEF DestroyDevice, Goto, SetLocals, NoLocals, Locals, CountInv, TaskCountsAreHonest, NobodyWaitsForABatch
  <2> QED
    BY <2>1, <2>2, <2>3
<1>24. ASSUME NEW t \in Threads, DestroyStore(t)
      PROVE  CountInv' /\ TaskCountsAreHonest' /\ NobodyWaitsForABatch'
  <2>1. CountInv'
    BY <1>0, <1>24 DEF DestroyStore, Goto, NoLocals, Locals, OwnershipInv, CountInv, Counting, Building, Owning, InBatch
  <2>2. TaskCountsAreHonest'
    BY <1>0, <1>24 DEF DestroyStore, Goto, CountInv, TaskCountsAreHonest
  <2>3. NobodyWaitsForABatch'
    BY <1>0, <1>24 DEF DestroyStore, Goto, NoLocals, Locals, CountInv, TaskCountsAreHonest, NobodyWaitsForABatch
  <2> QED
    BY <2>1, <2>2, <2>3
<1>25. ASSUME NEW t \in Threads, DestroyClean(t)
      PROVE  CountInv' /\ TaskCountsAreHonest' /\ NobodyWaitsForABatch'
  <2>1. CountInv'
    BY <1>0, <1>25 DEF DestroyClean, Goto, NoLocals, Locals, OwnershipInv, CountInv, Counting, Building, Owning, InBatch
  <2>2. TaskCountsAreHonest'
    BY <1>0, <1>25 DEF DestroyClean, Goto, CountInv, TaskCountsAreHonest
  <2>3. NobodyWaitsForABatch'
    BY <1>0, <1>25 DEF DestroyClean, Goto, NoLocals, Locals, CountInv, TaskCountsAreHonest, NobodyWaitsForABatch
  <2> QED
    BY <2>1, <2>2, <2>3
<1>26. CASE GpuExecute
  <2>1. CountInv' /\ NobodyWaitsForABatch'
    BY <1>0, <1>26 DEF GpuExecute, CountInv, Counting, Building, NobodyWaitsForABatch, TaskCountsAreHonest
  <2>2. TaskCountsAreHonest'
    BY <1>0, <1>26 DEF GpuExecute, TaskCountsAreHonest
  <2> QED
    BY <2>1, <2>2
<1>27. CASE UNCHANGED vars
  BY <1>0, <1>27 DEF CountInv, Counting, Building, TaskCountsAreHonest, NobodyWaitsForABatch
<1> QED
  BY <1>1, <1>1b, <1>2, <1>3, <1>4, <1>5, <1>6, <1>7, <1>8, <1>9, <1>10, <1>11, <1>12, <1>13, <1>14, <1>15, <1>16, <1>17, <1>18, <1>19, <1>20, <1>21, <1>22, <1>23, <1>24, <1>25, <1>26, <1>27
  DEF Next, Step, Invoke, Spin, enqueueHandler, flushBatchedSubmissions, wait, Destroy

----------------------------------------------------------------------------
(* Residency.                                                               *)

\* A step that neither submits nor marks anything.
LEMMA ResidencyFrame ==
  ASSUME ResidencyInv, SubmissionIsResident,
         UNCHANGED <<residencyAllocations, residencyTaskCount, cmdBuffers, submitted, inspected,
                     inspectionId, taskCount>>,
         \A u \in Threads : pc'[u] = "e_submit" =>
           pc[u] = "e_submit" /\ loc'[u] = loc[u] /\ UNCHANGED stream,
         \A u \in Threads : pc[u] = "e_submit" \/ Counting(u) => pc'[u] = "e_submit" \/ Counting(u)'
  PROVE  ResidencyInv' /\ SubmissionIsResident'
<1>1. \A u \in Threads : pc'[u] = "e_submit" => SurfacesOf(u)' = SurfacesOf(u)
  BY DEF SurfacesOf
<1>2. ResidencyInv'
  BY <1>1 DEF ResidencyInv
<1>3. SubmissionIsResident'
  BY DEF SubmissionIsResident
<1> QED
  BY <1>2, <1>3

LEMMA NextResidency ==
  IInv /\ [Next]_vars => ResidencyInv' /\ SubmissionIsResident'
<1> SUFFICES ASSUME IInv, [Next]_vars PROVE ResidencyInv' /\ SubmissionIsResident'
  OBVIOUS
<1>0. /\ pc \in [Threads -> Labels] /\ loc \in [Threads -> Locals] /\ None \notin Threads
      /\ submitted \in Seq(Task) /\ cmdBuffers \in Seq(CommandBuffer)
      /\ residencyTaskCount \in [Allocations -> 0..NotUsed] /\ NotUsed \in Nat
      /\ inspected \in [Allocations -> Nat] /\ inspectionId \in Nat /\ taskCount \in Nat
      /\ OwnershipInv /\ ResidencyInv /\ SubmissionIsResident
  BY CsrAssumption DEF IInv, TypeOK, ControlInv, NotUsed
<1> USE DEF countVars, batchVars, allocVars, residencyVars, gpuVars, threadVars, vars
<1>1. ASSUME NEW t \in Threads, BeginEnqueue(t) PROVE ResidencyInv' /\ SubmissionIsResident'
  <2>1. /\ pc[t] \notin {"e_submit", "e_flushed", "e_count"} /\ pc'[t] # "e_submit"
        /\ UNCHANGED <<residencyAllocations, residencyTaskCount, cmdBuffers, submitted, inspected,
                       inspectionId, taskCount>>
        /\ \A u \in Threads \ {t} : pc'[u] = pc[u] /\ loc'[u] = loc[u]
    BY <1>0, <1>1 DEF BeginEnqueue, Calls, Start, allocate, OwnershipInv
  <2>2. \A u \in Threads : pc'[u] = "e_submit" => UNCHANGED stream
    BY <1>0, <1>1 DEF BeginEnqueue, Calls, Start, allocate, IInv, ControlInv, OwnershipInv, DestroyInv, Owning
  <2>3. Counting(t) => Counting(t)'
    BY <1>0, <1>1 DEF BeginEnqueue, Calls, Start, allocate, Counting, InBatch, OwnershipInv
  <2> QED
    BY <1>0, <2>1, <2>2, <2>3, ResidencyFrame DEF Counting
<1>1b. ASSUME NEW t \in Threads, EnqueueOutOfResources(t) PROVE ResidencyInv' /\ SubmissionIsResident'
  <2>1. UNCHANGED <<pc, loc, residencyAllocations, residencyTaskCount, cmdBuffers, submitted,
                    inspected, inspectionId, taskCount, stream>>
    BY <1>1b DEF EnqueueOutOfResources
  <2> QED
    BY <1>0, <2>1 DEF ResidencyInv, SubmissionIsResident, Counting, SurfacesOf
<1>2. ASSUME NEW t \in Threads, EnqueueLock(t) PROVE ResidencyInv' /\ SubmissionIsResident'
  <2>1. ResidencyInv'
    BY <1>0, <1>2 DEF EnqueueLock, Acquire, Goto, NoLocals, Locals, OwnershipInv, ResidencyInv, Counting, Owning, InBatch, SurfacesOf
  <2>2. SubmissionIsResident'
    BY <1>0, <1>2 DEF EnqueueLock, Acquire, Goto, SubmissionIsResident
  <2> QED
    BY <2>1, <2>2
<1>3. ASSUME NEW t \in Threads, MakeResident(t) PROVE ResidencyInv' /\ SubmissionIsResident'
  <2>1. /\ pc[t] = "e_resident" /\ \A u \in Threads : pc'[u] = IF u = t THEN "e_submit" ELSE pc[u]
        /\ \A u \in Threads : u # t => pc[u] \notin Owning
        /\ UNCHANGED <<loc, stream, cmdBuffers, submitted, inspected, inspectionId, taskCount>>
    BY <1>0, <1>3 DEF MakeResident, Goto, OwnershipInv, Owning
  <2>2. \A a \in Allocations : residencyTaskCount[a] = NotUsed \/ residencyTaskCount[a] <= taskCount
    BY <1>0, <2>1 DEF ResidencyInv, Counting, Owning, InBatch
  <2>3. SurfacesOf(t) \subseteq Allocations /\ SurfacesOf(t)' = SurfacesOf(t)
    BY <2>1, SurfacesType DEF IInv, SurfacesOf
  <2>4. SurfacesOf(t) \subseteq residencyAllocations'
    BY <1>0, <1>3, <2>2, <2>3 DEF MakeResident
  <2>5. \A a \in Allocations : residencyTaskCount'[a] = NotUsed \/ residencyTaskCount'[a] <= taskCount + 1
    BY <1>0, <1>3, <2>2 DEF MakeResident
  <2>6. \A u \in Threads : pc'[u] = "e_submit" => u = t
    BY <2>1 DEF Owning
  <2>7. ResidencyInv'
    BY <1>0, <2>1, <2>3, <2>4, <2>5, <2>6 DEF ResidencyInv
  <2> QED
    BY <1>0, <2>1, <2>7 DEF SubmissionIsResident
<1>4. ASSUME NEW t \in Threads, SubmitTask(t) PROVE ResidencyInv' /\ SubmissionIsResident'
  <2>1. /\ pc[t] = "e_submit" /\ pc'[t] \in {"e_flushed", "e_implicit"}
        /\ \A u \in Threads : u # t => pc'[u] = pc[u]
        /\ \A u \in Threads : u # t => pc[u] \notin Owning
        /\ UNCHANGED <<loc, stream, inspected, inspectionId, taskCount, residencyTaskCount>>
    BY <1>0, <1>4 DEF SubmitTask, Goto, OwnershipInv, Owning
  <2>2. Counting(t)' /\ \A u \in Threads : pc'[u] # "e_submit"
    BY <2>1 DEF Counting, Owning
  <2> DEFINE b == NewCommandBuffer(t)
             x == Submit(b, FALSE, b.surfaces \cup {b.cb}, b.n)
  <2>3. /\ b \in CommandBuffer /\ x \in Task
        /\ b.accesses \subseteq b.surfaces \cup {b.cb} /\ x.accesses \subseteq x.resident
    <3>1. b \in CommandBuffer
      BY <2>1, CommandBufferType DEF IInv
    <3>2. b.accesses \subseteq b.surfaces \cup {b.cb}
      BY <1>0, <2>1 DEF NewCommandBuffer, ResidencyInv
    <3> QED
      BY <3>1, <3>2 DEF Submit, Task, CommandBuffer
  <2>4. \/ submitted' = Append(submitted, x) /\ UNCHANGED cmdBuffers
        \/ cmdBuffers' = Append(cmdBuffers, b) /\ UNCHANGED submitted
    BY <1>4 DEF SubmitTask
  <2> HIDE DEF b, x
  <2>5. SubmissionIsResident'
    <3>1. CASE submitted' = Append(submitted, x)
      <4>1. \A i \in DOMAIN submitted' : (i \in DOMAIN submitted /\ submitted'[i] = submitted[i]) \/ submitted'[i] = x
        BY <1>0, <2>3, <3>1
      <4> QED
        BY <1>0, <2>3, <4>1 DEF SubmissionIsResident
    <3> QED
      BY <1>0, <2>4, <3>1 DEF SubmissionIsResident
  <2>6. \A i \in DOMAIN cmdBuffers' : cmdBuffers'[i].accesses \subseteq cmdBuffers'[i].surfaces \cup {cmdBuffers'[i].cb}
    <3>1. CASE cmdBuffers' = Append(cmdBuffers, b)
      <4>1. \A i \in DOMAIN cmdBuffers' :
              (i \in DOMAIN cmdBuffers /\ cmdBuffers'[i] = cmdBuffers[i]) \/ cmdBuffers'[i] = b
        BY <1>0, <2>3, <3>1
      <4> QED
        BY <1>0, <2>3, <4>1 DEF ResidencyInv
    <3> QED
      BY <1>0, <2>4, <3>1 DEF ResidencyInv
  <2>7. ResidencyInv'
    BY <1>0, <2>1, <2>2, <2>6 DEF ResidencyInv
  <2> QED
    BY <2>5, <2>7
<1>5. ASSUME NEW t \in Threads, TaskFlushed(t) PROVE ResidencyInv' /\ SubmissionIsResident'
  <2>1. /\ \A u \in Threads : pc'[u] = "e_submit" => pc[u] = "e_submit" /\ u # t
        /\ pc[t] = "e_flushed" /\ \A u \in Threads : u # t => pc[u] \notin Owning
        /\ UNCHANGED <<stream, cmdBuffers, submitted, inspected, inspectionId, taskCount>>
    BY <1>0, <1>5 DEF TaskFlushed, Goto, OwnershipInv, Owning
  <2>2. \A u \in Threads : pc'[u] # "e_submit"
    BY <2>1 DEF Owning
  <2>3. \A a \in Allocations : residencyTaskCount'[a] = NotUsed \/ residencyTaskCount'[a] = residencyTaskCount[a]
    BY <1>0, <1>5 DEF TaskFlushed, MakeNonResident
  <2>4. Counting(t) => Counting(t)'
    BY <1>0, <1>5 DEF TaskFlushed, Counting, InBatch, Goto, SetLocals, Locals
  <2>5. ResidencyInv'
    BY <1>0, <2>1, <2>2, <2>3, <2>4 DEF ResidencyInv, Counting, Owning, InBatch
  <2> QED
    BY <1>0, <2>1, <2>5 DEF SubmissionIsResident
<1>6. ASSUME NEW t \in Threads, ImplicitFlush(t) PROVE ResidencyInv' /\ SubmissionIsResident'
  <2>1. /\ pc[t] \notin {"e_submit", "e_flushed", "e_count"} /\ pc'[t] # "e_submit"
        /\ UNCHANGED <<residencyAllocations, residencyTaskCount, cmdBuffers, submitted, inspected,
                       inspectionId, taskCount>>
        /\ \A u \in Threads \ {t} : pc'[u] = pc[u] /\ loc'[u] = loc[u]
    BY <1>0, <1>6 DEF ImplicitFlush, Goto, SetLocals, Locals, OwnershipInv
  <2>2. \A u \in Threads : pc'[u] = "e_submit" => UNCHANGED stream
    BY <1>0, <1>6 DEF ImplicitFlush, Goto, SetLocals, Locals, IInv, ControlInv, OwnershipInv, DestroyInv, Owning
  <2>3. Counting(t) => Counting(t)'
    BY <1>0, <1>6 DEF ImplicitFlush, Goto, SetLocals, Locals, Counting, InBatch, OwnershipInv
  <2> QED
    BY <1>0, <2>1, <2>2, <2>3, ResidencyFrame DEF Counting
<1>7. ASSUME NEW t \in Threads, CountTask(t) PROVE ResidencyInv' /\ SubmissionIsResident'
  <2>1. ResidencyInv'
    BY <1>0, <1>7 DEF CountTask, Goto, SetLocals, NoLocals, Locals, OwnershipInv, ResidencyInv, Counting, Owning, InBatch, SurfacesOf
  <2>2. SubmissionIsResident'
    BY <1>0, <1>7 DEF CountTask, Goto, SetLocals, SubmissionIsResident
  <2> QED
    BY <2>1, <2>2
<1>8. ASSUME NEW t \in Threads, EndEnqueue(t) PROVE ResidencyInv' /\ SubmissionIsResident'
  <2>1. /\ pc[t] \notin {"e_submit", "e_flushed", "e_count"} /\ pc'[t] # "e_submit"
        /\ UNCHANGED <<residencyAllocations, residencyTaskCount, cmdBuffers, submitted, inspected,
                       inspectionId, taskCount>>
        /\ \A u \in Threads \ {t} : pc'[u] = pc[u] /\ loc'[u] = loc[u]
    BY <1>0, <1>8 DEF EndEnqueue, Goto, SetLocals, OwnershipInv
  <2>2. \A u \in Threads : pc'[u] = "e_submit" => UNCHANGED stream
    BY <1>0, <1>8 DEF EndEnqueue, Goto, SetLocals, IInv, ControlInv, OwnershipInv, DestroyInv, Owning
  <2>3. Counting(t) => Counting(t)'
    BY <1>0, <1>8 DEF EndEnqueue, Goto, SetLocals, Counting, InBatch, OwnershipInv
  <2> QED
    BY <1>0, <2>1, <2>2, <2>3, ResidencyFrame DEF Counting
<1>9. ASSUME NEW t \in Threads, FlushBatchedLock(t) PROVE ResidencyInv' /\ SubmissionIsResident'
  <2>1. /\ pc[t] \notin {"e_submit", "e_flushed", "e_count"} /\ pc'[t] # "e_submit"
        /\ UNCHANGED <<residencyAllocations, residencyTaskCount, cmdBuffers, submitted, inspected,
                       inspectionId, taskCount>>
        /\ \A u \in Threads \ {t} : pc'[u] = pc[u] /\ loc'[u] = loc[u]
    BY <1>0, <1>9 DEF FlushBatchedLock, Goto, OwnershipInv
  <2>2. \A u \in Threads : pc'[u] = "e_submit" => UNCHANGED stream
    BY <1>0, <1>9 DEF FlushBatchedLock, Goto, IInv, ControlInv, OwnershipInv, DestroyInv, Owning
  <2>3. Counting(t) => Counting(t)'
    BY <1>0, <1>9 DEF FlushBatchedLock, Goto, Counting, InBatch, OwnershipInv
  <2> QED
    BY <1>0, <2>1, <2>2, <2>3, ResidencyFrame DEF Counting
<1>10. ASSUME NEW t \in Threads, FlushBatch(t) PROVE ResidencyInv' /\ SubmissionIsResident'
  <2>1. PICK k \in 1..Len(cmdBuffers) :
          /\ submitted' = submitted \o
               Merged(cmdBuffers, k, resourcePackage(cmdBuffers, k) \cup {Head(cmdBuffers).cb})
          /\ cmdBuffers' = SubSeq(cmdBuffers, k + 1, Len(cmdBuffers))
          /\ inspected' = [a \in Allocations |->
               IF a \in resourcePackage(cmdBuffers, Inspected(cmdBuffers, k))
                 THEN inspectionId ELSE inspected[a]]
          /\ SetLocals(t, [loc[t] EXCEPT !.list = resourcePackage(cmdBuffers, k)])
    BY <1>10 DEF FlushBatch
  <2>2. /\ pc[t] = "fb_loop" /\ \A u \in Threads : pc'[u] = IF u = t THEN "fb_flushed" ELSE pc[u]
        /\ \A u \in Threads : u # t => pc[u] \notin Owning
        /\ inspectionId' = inspectionId + 1
        /\ UNCHANGED <<stream, taskCount, residencyTaskCount, residencyAllocations>>
    BY <1>0, <1>10 DEF FlushBatch, NextInspection, Goto, OwnershipInv, Owning
  <2>3. Counting(t)' <=> Counting(t)
    <3>1. loc'[t].ret = loc[t].ret
      BY <1>0, <2>1 DEF SetLocals, Locals
    <3> QED
      BY <2>2, <3>1 DEF Counting, InBatch
  <2>r. PICK R \in SUBSET Allocations : R = resourcePackage(cmdBuffers, k) \cup {Head(cmdBuffers).cb}
    BY ResourcePackageType DEF IInv
  <2>4. submitted' = submitted \o Merged(cmdBuffers, k, R)
    BY <2>1, <2>r
  <2>5. /\ DOMAIN submitted' = 1..Len(submitted) + k
        /\ \A i \in 1..Len(submitted) : submitted'[i] = submitted[i]
        /\ \A i \in 1..k : /\ submitted'[Len(submitted) + i].accesses = cmdBuffers[i].accesses
                           /\ submitted'[Len(submitted) + i].resident = R
    <3>1. TypeOK /\ cmdBuffers' = SubSeq(cmdBuffers, k + 1, Len(cmdBuffers))
      BY <2>1 DEF IInv
    <3> QED
      BY <2>4, <3>1, MergedSubmission
  <2>6. \A i \in 1..k : cmdBuffers[i].accesses \subseteq R
    <3> TAKE i \in 1..k
    <3>1. cmdBuffers[i] \in CommandBuffer /\ i \in DOMAIN cmdBuffers /\ Head(cmdBuffers) = cmdBuffers[1]
      BY <1>0
    <3>2. cmdBuffers[i].accesses \subseteq cmdBuffers[i].surfaces \cup {cmdBuffers[i].cb}
      BY <1>0, <3>1 DEF ResidencyInv
    <3>3. cmdBuffers[i].surfaces \cup {cmdBuffers[i].cb}
            \subseteq Referenced(cmdBuffers, k) \cup {Head(cmdBuffers).cb}
      BY <3>1 DEF Referenced
    <3>4. cmdBuffers[i].surfaces \cup {cmdBuffers[i].cb} \subseteq Allocations
      BY <3>1 DEF CommandBuffer
    <3> QED
      BY <1>0, <2>r, <3>2, <3>3, <3>4 DEF ResidencyInv, resourcePackage
  <2>8. SubmissionIsResident'
    <3> SUFFICES ASSUME NEW i \in 1..Len(submitted) + k
                 PROVE  submitted'[i].accesses \subseteq submitted'[i].resident
      BY <2>5 DEF SubmissionIsResident
    <3>1. CASE i <= Len(submitted)
      BY <1>0, <2>5, <3>1 DEF SubmissionIsResident
    <3>2. CASE i > Len(submitted)
      <4>1. i - Len(submitted) \in 1..k /\ i = Len(submitted) + (i - Len(submitted))
        BY <1>0, <3>2
      <4> QED
        BY <2>5, <2>6, <4>1
    <3> QED
      BY <1>0, <3>1, <3>2
  <2>9. \A i \in DOMAIN cmdBuffers' : cmdBuffers'[i].accesses \subseteq cmdBuffers'[i].surfaces \cup {cmdBuffers'[i].cb}
    <3> TAKE i \in DOMAIN cmdBuffers'
    <3>1. k + i \in DOMAIN cmdBuffers /\ cmdBuffers'[i] = cmdBuffers[k + i]
      BY <1>0, <2>1
    <3> QED
      BY <1>0, <3>1 DEF ResidencyInv
  <2>10. \A a \in Allocations : inspected'[a] < inspectionId'
    BY <1>0, <2>1, <2>2 DEF ResidencyInv
  <2>11. ResidencyInv'
    BY <1>0, <2>2, <2>3, <2>9, <2>10 DEF ResidencyInv, Counting, Owning, InBatch
  <2> QED
    BY <2>8, <2>11
<1>11. ASSUME NEW t \in Threads, BatchFlushed(t) PROVE ResidencyInv' /\ SubmissionIsResident'
  <2>1. /\ \A u \in Threads : pc'[u] = "e_submit" => pc[u] = "e_submit" /\ u # t
        /\ pc[t] = "fb_flushed" /\ \A u \in Threads : u # t => pc[u] \notin Owning
        /\ UNCHANGED <<stream, cmdBuffers, submitted, inspected, inspectionId, taskCount>>
    BY <1>0, <1>11 DEF BatchFlushed, Goto, OwnershipInv, Owning
  <2>2. \A u \in Threads : pc'[u] # "e_submit"
    BY <2>1 DEF Owning
  <2>3. \A a \in Allocations : residencyTaskCount'[a] = NotUsed \/ residencyTaskCount'[a] = residencyTaskCount[a]
    BY <1>0, <1>11 DEF BatchFlushed, MakeNonResident
  <2>4. Counting(t) => Counting(t)'
    BY <1>0, <1>11 DEF BatchFlushed, Counting, InBatch, Goto, SetLocals, Locals
  <2>5. ResidencyInv'
    BY <1>0, <2>1, <2>2, <2>3, <2>4 DEF ResidencyInv, Counting, Owning, InBatch
  <2> QED
    BY <1>0, <2>1, <2>5 DEF SubmissionIsResident
<1>12. ASSUME NEW t \in Threads, FlushBatchedReturn(t) PROVE ResidencyInv' /\ SubmissionIsResident'
  <2>0. /\ pc[t] = "fb_loop" /\ pc' = [pc EXCEPT ![t] = loc[t].ret]
        /\ UNCHANGED <<loc, inspected, inspectionId, residencyTaskCount, residencyAllocations, taskCount, stream,
                       cmdBuffers>>
    BY <1>12 DEF FlushBatchedReturn, Goto
  <2>a. \A u \in Threads : /\ pc'[u] = "e_submit" => pc[u] = "e_submit" /\ SurfacesOf(u)' = SurfacesOf(u)
                           /\ pc[u] = "e_submit" => pc'[u] = "e_submit"
                           /\ Counting(u)' <=> Counting(u)
    BY <1>0, <2>0 DEF OwnershipInv, Counting, InBatch, SurfacesOf
  <2>1. ResidencyInv'
    BY <1>0, <2>0, <2>a DEF ResidencyInv
  <2>2. SubmissionIsResident'
    BY <1>0, <1>12 DEF FlushBatchedReturn, Goto, SubmissionIsResident
  <2> QED
    BY <2>1, <2>2
<1>13. ASSUME NEW t \in Threads, clFlush(t, "flush", "idle") PROVE ResidencyInv' /\ SubmissionIsResident'
  <2>1. ResidencyInv'
    BY <1>0, <1>13 DEF clFlush, Calls, Start, NoLocals, Locals, OwnershipInv, ResidencyInv, Counting, Owning, InBatch, SurfacesOf
  <2>2. SubmissionIsResident'
    BY <1>0, <1>13 DEF clFlush, Calls, Start, SubmissionIsResident
  <2> QED
    BY <2>1, <2>2
<1>14. ASSUME NEW t \in Threads, clFlush(t, "finish", "f_read") PROVE ResidencyInv' /\ SubmissionIsResident'
  <2>1. ResidencyInv'
    BY <1>0, <1>14 DEF clFlush, Calls, Start, NoLocals, Locals, OwnershipInv, ResidencyInv, Counting, Owning, InBatch, SurfacesOf
  <2>2. SubmissionIsResident'
    BY <1>0, <1>14 DEF clFlush, Calls, Start, SubmissionIsResident
  <2> QED
    BY <2>1, <2>2
<1>15. ASSUME NEW t \in Threads, FinishRead(t) PROVE ResidencyInv' /\ SubmissionIsResident'
  <2>1. ResidencyInv'
    BY <1>0, <1>15 DEF FinishRead, Goto, SetLocals, NoLocals, Locals, OwnershipInv, ResidencyInv, Counting, Owning, InBatch, SurfacesOf
  <2>2. SubmissionIsResident'
    BY <1>0, <1>15 DEF FinishRead, Goto, SetLocals, SubmissionIsResident
  <2> QED
    BY <2>1, <2>2
<1>16. ASSUME NEW t \in Threads, WaitRead(t) PROVE ResidencyInv' /\ SubmissionIsResident'
  <2>1. /\ pc[t] \notin {"e_submit", "e_flushed", "e_count"} /\ pc'[t] # "e_submit"
        /\ UNCHANGED <<residencyAllocations, residencyTaskCount, cmdBuffers, submitted, inspected,
                       inspectionId, taskCount>>
        /\ \A u \in Threads \ {t} : pc'[u] = pc[u] /\ loc'[u] = loc[u]
    BY <1>0, <1>16 DEF WaitRead, Goto, SetLocals, OwnershipInv
  <2>2. \A u \in Threads : pc'[u] = "e_submit" => UNCHANGED stream
    BY <1>0, <1>16 DEF WaitRead, Goto, SetLocals, IInv, ControlInv, OwnershipInv, DestroyInv, Owning
  <2>3. Counting(t) => Counting(t)'
    BY <1>0, <1>16 DEF WaitRead, Goto, SetLocals, Counting, InBatch, OwnershipInv
  <2> QED
    BY <1>0, <2>1, <2>2, <2>3, ResidencyFrame DEF Counting
<1>17. ASSUME NEW t \in Threads, WaitSpin(t) PROVE ResidencyInv' /\ SubmissionIsResident'
  <2>1. ResidencyInv'
    BY <1>0, <1>17 DEF WaitSpin, Goto, NoLocals, Locals, OwnershipInv, ResidencyInv, Counting, Owning, InBatch, SurfacesOf
  <2>2. SubmissionIsResident'
    BY <1>0, <1>17 DEF WaitSpin, Goto, SubmissionIsResident
  <2> QED
    BY <2>1, <2>2
<1>18. ASSUME NEW t \in Threads, WaitAgain(t) PROVE ResidencyInv' /\ SubmissionIsResident'
  <2>1. ResidencyInv'
    BY <1>0, <1>18 DEF WaitAgain, Goto, SetLocals, NoLocals, Locals, OwnershipInv, ResidencyInv, Counting, Owning, InBatch, SurfacesOf
  <2>2. SubmissionIsResident'
    BY <1>0, <1>18 DEF WaitAgain, Goto, SetLocals, SubmissionIsResident
  <2> QED
    BY <2>1, <2>2
<1>19. ASSUME NEW t \in Threads, CleanDetach(t) PROVE ResidencyInv' /\ SubmissionIsResident'
  <2>1. ResidencyInv'
    BY <1>0, <1>19 DEF CleanDetach, Goto, SetLocals, NoLocals, Locals, OwnershipInv, ResidencyInv, Counting, Owning, InBatch, SurfacesOf
  <2>2. SubmissionIsResident'
    BY <1>0, <1>19 DEF CleanDetach, Goto, SetLocals, SubmissionIsResident
  <2> QED
    BY <2>1, <2>2
<1>20. ASSUME NEW t \in Threads, CleanOne(t) PROVE ResidencyInv' /\ SubmissionIsResident'
  <2>1. ResidencyInv'
    BY SMTT(60), <1>0, <1>20 DEF CleanOne, SetLocals, NoLocals, Locals, OwnershipInv, ResidencyInv, Counting, Owning, InBatch, SurfacesOf
  <2>2. SubmissionIsResident'
    BY <1>0, <1>20 DEF CleanOne, SetLocals, SubmissionIsResident
  <2> QED
    BY <2>1, <2>2
<1>21. ASSUME NEW t \in Threads, CleanSplice(t) PROVE ResidencyInv' /\ SubmissionIsResident'
  <2>1. ResidencyInv'
    BY <1>0, <1>21 DEF CleanSplice, Goto, SetLocals, NoLocals, Locals, OwnershipInv, ResidencyInv, Counting, Owning, InBatch, SurfacesOf
  <2>2. SubmissionIsResident'
    BY <1>0, <1>21 DEF CleanSplice, Goto, SetLocals, SubmissionIsResident
  <2> QED
    BY <2>1, <2>2
<1>22. ASSUME NEW t \in Threads, checkGpuUsageAndDestroyGraphicsAllocations(t) PROVE ResidencyInv' /\ SubmissionIsResident'
  <2>1. ResidencyInv'
    BY <1>0, <1>22 DEF checkGpuUsageAndDestroyGraphicsAllocations, Calls, Start, NoLocals, Locals, OwnershipInv, ResidencyInv, Counting, Owning, InBatch, SurfacesOf
  <2>2. SubmissionIsResident'
    BY <1>0, <1>22 DEF checkGpuUsageAndDestroyGraphicsAllocations, Calls, Start, SubmissionIsResident
  <2> QED
    BY <2>1, <2>2
<1>23. ASSUME NEW t \in Threads, DestroyDevice(t) PROVE ResidencyInv' /\ SubmissionIsResident'
  <2>1. ResidencyInv'
    BY <1>0, <1>23 DEF DestroyDevice, Goto, SetLocals, NoLocals, Locals, OwnershipInv, ResidencyInv, Counting, Owning, InBatch, SurfacesOf
  <2>2. SubmissionIsResident'
    BY <1>0, <1>23 DEF DestroyDevice, Goto, SetLocals, SubmissionIsResident
  <2> QED
    BY <2>1, <2>2
<1>24. ASSUME NEW t \in Threads, DestroyStore(t) PROVE ResidencyInv' /\ SubmissionIsResident'
  <2>1. /\ pc[t] \notin {"e_submit", "e_flushed", "e_count"} /\ pc'[t] # "e_submit"
        /\ UNCHANGED <<residencyAllocations, residencyTaskCount, cmdBuffers, submitted, inspected,
                       inspectionId, taskCount>>
        /\ \A u \in Threads \ {t} : pc'[u] = pc[u] /\ loc'[u] = loc[u]
    BY <1>0, <1>24 DEF DestroyStore, Goto, OwnershipInv
  <2>2. \A u \in Threads : pc'[u] = "e_submit" => UNCHANGED stream
    BY <1>0, <1>24 DEF DestroyStore, Goto, IInv, ControlInv, OwnershipInv, DestroyInv, Owning
  <2>3. Counting(t) => Counting(t)'
    BY <1>0, <1>24 DEF DestroyStore, Goto, Counting, InBatch, OwnershipInv
  <2> QED
    BY <1>0, <2>1, <2>2, <2>3, ResidencyFrame DEF Counting
<1>25. ASSUME NEW t \in Threads, DestroyClean(t) PROVE ResidencyInv' /\ SubmissionIsResident'
  <2>1. ResidencyInv'
    BY <1>0, <1>25 DEF DestroyClean, Goto, NoLocals, Locals, OwnershipInv, ResidencyInv, Counting, Owning, InBatch, SurfacesOf
  <2>2. SubmissionIsResident'
    BY <1>0, <1>25 DEF DestroyClean, Goto, SubmissionIsResident
  <2> QED
    BY <2>1, <2>2
<1>26. CASE GpuExecute
  BY <1>0, <1>26 DEF GpuExecute, ResidencyInv, SubmissionIsResident, Counting, SurfacesOf
<1>27. CASE UNCHANGED vars
  BY <1>0, <1>27 DEF ResidencyInv, SubmissionIsResident, Counting, SurfacesOf
<1> QED
  BY <1>1, <1>1b, <1>2, <1>3, <1>4, <1>5, <1>6, <1>7, <1>8, <1>9, <1>10, <1>11, <1>12, <1>13, <1>14, <1>15, <1>16, <1>17, <1>18, <1>19, <1>20, <1>21, <1>22, <1>23, <1>24, <1>25, <1>26, <1>27
  DEF Next, Step, Invoke, Spin, enqueueHandler, flushBatchedSubmissions, wait, Destroy

----------------------------------------------------------------------------
(* The theorems.                                                            *)

LEMMA InitInv == Init => IInv
<1> SUFFICES ASSUME Init PROVE IInv
  OBVIOUS
<1>1. TypeOK
  BY InitType
<1>2. /\ \A t \in Threads : pc[t] = "idle" /\ loc[t] = NoLocals
      /\ \A s \in Streams : stream[s] # None
  BY CsrAssumption DEF Init
<1>3. ControlInv
  <2>1. OwnershipInv
    BY <1>2, CsrAssumption DEF Init, OwnershipInv, NoLocals, Owning, InBatch, EnqueueLabels
  <2>2. DestroyInv
    BY <1>2 DEF Init, DestroyInv, NoLocals, Streams
  <2> QED
    BY <2>1, <2>2 DEF ControlInv
<1>4. CountInv /\ TaskCountsAreHonest /\ NobodyWaitsForABatch
  BY <1>2, CsrAssumption DEF Init, CountInv, Counting, Building, InBatch, NoLocals, TaskCountsAreHonest,
                             NobodyWaitsForABatch
<1>5. ResidencyInv /\ SubmissionIsResident
  BY <1>2 DEF Init, ResidencyInv, Counting, SubmissionIsResident
<1> QED
  BY <1>1, <1>3, <1>4, <1>5 DEF IInv

LEMMA InvHolds == Spec => []IInv
<1>1. IInv /\ [Next]_vars => IInv'
  BY NextType, NextControl, NextCount, NextResidency DEF IInv
<1> QED
  BY <1>1, InitInv, PTL DEF Spec

\* Every variable of the receiver keeps its type, for any threads and calls: in
\* particular the task count an allocation is stored with is at most NotUsed.
THEOREM TypeCorrect == Spec => []TypeOK
BY InvHolds, PTL DEF IInv

\* flushTask and flushBatchedSubmissions: whatever is merged and whatever earlier
\* inspections have marked, a submission makes resident all its tasks access.
THEOREM ResidencyCorrect == Spec => []SubmissionIsResident
BY InvHolds, PTL DEF IInv

\* Task counts have no gap, and neither latestFlushedTaskCount nor the tag is
\* ever ahead of what was submitted and executed.
THEOREM TaskCountsCorrect == Spec => []TaskCountsAreHonest
BY InvHolds, PTL DEF IInv

\* waitForCompletionWithTimeout never spins for a task that is still in a batch.
THEOREM WaitsAreForSubmitted == Spec => []NobodyWaitsForABatch
BY InvHolds, PTL DEF IInv
=============================================================================
