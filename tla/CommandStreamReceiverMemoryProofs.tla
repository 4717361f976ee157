----------------- MODULE CommandStreamReceiverMemoryProofs -----------------
(* Memory is freed and used again only when nobody accesses it, and nothing *)
(* is left at the end: who has each allocation, and which task counts it    *)
(* is stored with, on top of CommandStreamReceiverProofs.                   *)
EXTENDS CommandStreamReceiverProofs

\* The task counts of the tasks still to be executed that access an allocation.
Uses(a) ==
  {submitted[i].n : i \in {j \in executed + 1..Len(submitted) : a \in submitted[j].accesses}}
    \cup {cmdBuffers[i].n : i \in {j \in DOMAIN cmdBuffers : a \in cmdBuffers[j].accesses}}

\* The allocation is memory of a call's own that nobody else can have: a host
\* pointer surface may be freed once the call is over.
HasOwn(t, a) ==
  /\ loc[t].call # None /\ loc[t].mine = a
  /\ loc[t].call.memory = "hostPtr" => pc[t] # "e_store"

\* Each stream has an allocation of its own.
StreamInv ==
  /\ \A r, s \in Streams : stream[r] = stream[s] /\ stream[r] # None => r = s
  /\ \A s \in Streams : stream[s] # None => where[stream[s]] = "held" /\ stream[s] \notin buffers

\* Memory objects are held until their release, after which no call uses them.
BufferInv ==
  /\ \A a \in buffers : where[a] = "held"
  /\ \A t \in Threads : loc[t].call # None /\ pc[t] # "e_store" => loc[t].call.uses \subseteq buffers
  /\ \A t \in Threads : \A i \in DOMAIN todo[t] :
       todo[t][i].op = "enqueue" => todo[t][i].on.uses \subseteq buffers

\* A call's own memory.
OwnInv ==
  /\ \A t \in Threads : loc[t].call # None => (loc[t].mine = None <=> loc[t].call.memory = "none")
  /\ \A t \in Threads, a \in Allocations : HasOwn(t, a) =>
       /\ a \notin buffers /\ \A s \in Streams : stream[s] # a
       /\ \A u \in Threads : u # t => ~HasOwn(u, a)
       /\ loc[t].call.memory # "hostPtr" => where[a] = "held"
       /\ loc[t].call.memory = "hostPtr" =>
            /\ where[a] \in {"temporary", "detached"}
            /\ pc[t] \in {"e_lock", "e_resident"} => lastTask[a] = eventNotReady
            /\ pc[t] \notin {"e_lock", "e_resident"} => lastTask[a] = taskCount + 1

\* Everything else that is held or detached has an owner, too.
HeldInv ==
  \A a \in Allocations :
    where[a] = "held" => \/ a \in buffers
                         \/ \E s \in Streams : stream[s] = a
                         \/ \E t \in Threads : HasOwn(t, a)

\* The detached lists.
ListInv ==
  /\ \A t \in Threads : loc[t].list \cap loc[t].left = {}
  /\ \A t \in Threads : pc[t] = "c_free" =>
       \A a \in loc[t].list \cup loc[t].left :
         /\ where[a] = "detached"
         /\ \A u \in Threads : u # t /\ pc[u] = "c_free" => a \notin loc[u].list \cup loc[u].left
  /\ \A a \in Allocations : where[a] = "detached" =>
       \E t \in Threads : pc[t] = "c_free" /\ a \in loc[t].list \cup loc[t].left

\* What is still to be executed accesses memory that is allocated, and that is
\* a stream's or has a task count at least as large.
UseInv ==
  \A a \in Allocations : \A m \in Uses(a) :
    /\ where[a] # "free"
    /\ (\A s \in Streams : stream[s] # a) => m <= lastTask[a] /\ lastTask[a] < eventNotReady
    /\ \A t \in Threads : pc[t] = "e_store" /\ HasOwn(t, a) => m <= taskCount

\* The task that is about to be submitted.
SurfaceInv ==
  \A t \in Threads : pc[t] = "e_submit" => \A a \in SurfacesOf(t) : lastTask[a] = taskCount + 1

\* The streams that are taken down, and what is left at the end.
EndInv ==
  /\ destroyed => stream["queue"] = None
  /\ \A t \in Threads : pc[t] = "d_clean" => stream["heap"] = None
  /\ NothingLeftWhenDestroyed

MemInv == StreamInv /\ BufferInv /\ OwnInv /\ HeldInv /\ ListInv /\ UseInv /\ SurfaceInv /\ EndInv
----------------------------------------------------------------------------
(* Operators.                                                               *)

LEMMA UsesBound ==
  ASSUME IInv, NEW a, NEW m \in Uses(a)
  PROVE  /\ m \in Nat /\ executed < m /\ tag < m /\ m <= taskCount + 1
         /\ (\A t \in Threads : ~Counting(t)) => m <= taskCount
         /\ m <= Len(submitted) + Len(cmdBuffers)
<1>1. /\ submitted \in Seq(Task) /\ cmdBuffers \in Seq(CommandBuffer) /\ executed \in Nat /\ tag \in Nat
      /\ taskCount \in Nat /\ executed <= Len(submitted) /\ tag <= executed
      /\ \A i \in DOMAIN submitted : submitted[i].n = i
      /\ \A i \in DOMAIN cmdBuffers : cmdBuffers[i].n = Len(submitted) + i
  BY DEF IInv, TypeOK, CountInv, TaskCountsAreHonest
<1>2. m \in Nat /\ executed < m /\ m <= Len(submitted) + Len(cmdBuffers)
  <2>1. CASE \E i \in executed + 1..Len(submitted) : m = submitted[i].n
    BY <1>1, <2>1
  <2>2. CASE \E i \in DOMAIN cmdBuffers : m = cmdBuffers[i].n
    BY <1>1, <2>2
  <2> QED
    BY <2>1, <2>2 DEF Uses
<1>3. /\ Len(submitted) + Len(cmdBuffers) <= taskCount + 1
      /\ (\A t \in Threads : ~Counting(t)) => Len(submitted) + Len(cmdBuffers) = taskCount
  BY <1>1 DEF IInv, CountInv
<1>4. Len(submitted) \in Nat /\ Len(cmdBuffers) \in Nat
  BY <1>1
<1> QED
  BY <1>1, <1>2, <1>3, <1>4

LEMMA IntervalShrinks ==
  ASSUME NEW e \in Nat, NEW f \in Nat, NEW l \in Nat, e <= f
  PROVE  (f + 1)..l \subseteq (e + 1)..l
OBVIOUS

LEMMA UsesShrink ==
  ASSUME TypeOK, UNCHANGED <<submitted, cmdBuffers>>, executed' \in Nat, executed <= executed'
  PROVE  \A a \in Allocations : Uses(a)' \subseteq Uses(a)
<1>1. executed \in Nat /\ submitted \in Seq(Task)
  BY DEF TypeOK
<1>2. Len(submitted) \in Nat
  BY <1>1
<1>3. (executed' + 1)..Len(submitted) \subseteq (executed + 1)..Len(submitted)
  BY <1>1, <1>2, IntervalShrinks, Zenon
<1> QED
  BY <1>3 DEF Uses

\* A submission makes no difference to what is still to be executed.
LEMMA UsesMerged ==
  ASSUME IInv, NEW t \in Threads, FlushBatch(t)
  PROVE  \A a \in Allocations : Uses(a)' \subseteq Uses(a)
<1>1. PICK k \in 1..Len(cmdBuffers) :
        /\ submitted' = submitted \o
             Merged(cmdBuffers, k, resourcePackage(cmdBuffers, k) \cup {Head(cmdBuffers).cb})
        /\ cmdBuffers' = SubSeq(cmdBuffers, k + 1, Len(cmdBuffers))
  BY DEF FlushBatch
<1>2. PICK R \in SUBSET Allocations : R = resourcePackage(cmdBuffers, k) \cup {Head(cmdBuffers).cb}
  BY ResourcePackageType DEF IInv
<1>3. submitted' = submitted \o Merged(cmdBuffers, k, R)
  BY <1>1, <1>2
<1>4. /\ Len(submitted') = Len(submitted) + k
      /\ \A i \in 1..Len(submitted) : submitted'[i] = submitted[i]
      /\ \A i \in 1..k : /\ submitted'[Len(submitted) + i].n = cmdBuffers[i].n
                         /\ submitted'[Len(submitted) + i].accesses = cmdBuffers[i].accesses
      /\ DOMAIN cmdBuffers' = 1..Len(cmdBuffers) - k
      /\ \A i \in 1..Len(cmdBuffers) - k : cmdBuffers'[i] = cmdBuffers[k + i]
  <2>1. TypeOK /\ cmdBuffers' = SubSeq(cmdBuffers, k + 1, Len(cmdBuffers))
    BY <1>1 DEF IInv
  <2>2. /\ Len(submitted') = Len(submitted) + k
        /\ \A i \in 1..Len(submitted) : submitted'[i] = submitted[i]
        /\ DOMAIN cmdBuffers' = 1..Len(cmdBuffers) - k
        /\ \A i \in 1..Len(cmdBuffers) - k : cmdBuffers'[i] = cmdBuffers[k + i]
    BY <1>3, <2>1, MergedSubmission
  <2>3. \A i \in 1..k : LET x == submitted'[Len(submitted) + i]
                        IN  /\ x.n = cmdBuffers[i].n /\ x.accesses = cmdBuffers[i].accesses
                            /\ x.resident = R
    BY <1>3, <2>1, MergedSubmission
  <2> QED
    BY <2>2, <2>3
<1>5. /\ executed' = executed /\ executed \in Nat /\ Len(submitted) \in Nat /\ DOMAIN cmdBuffers = 1..Len(cmdBuffers)
      /\ Len(cmdBuffers) \in Nat /\ executed <= Len(submitted)
  BY DEF FlushBatch, gpuVars, IInv, TypeOK, CountInv
<1> SUFFICES ASSUME NEW a \in Allocations, NEW m \in Uses(a)' PROVE m \in Uses(a)
  OBVIOUS
<1>6. CASE \E i \in executed + 1..Len(submitted') : a \in submitted'[i].accesses /\ m = submitted'[i].n
  <2>1. PICK i \in executed + 1..Len(submitted') : a \in submitted'[i].accesses /\ m = submitted'[i].n
    BY <1>6
  <2>2. CASE i <= Len(submitted)
    <3>1. i \in executed + 1..Len(submitted) /\ submitted'[i] = submitted[i]
      BY <1>4, <1>5, <2>1, <2>2
    <3> QED
      BY <3>1, <2>1 DEF Uses
  <2>3. CASE ~(i <= Len(submitted))
    <3>1. i - Len(submitted) \in 1..k /\ i = Len(submitted) + (i - Len(submitted))
      BY <1>4, <1>5, <2>1, <2>3
    <3>2. PICK j \in 1..k : i = Len(submitted) + j
      BY <3>1
    <3>3. j \in DOMAIN cmdBuffers /\ a \in cmdBuffers[j].accesses /\ m = cmdBuffers[j].n
      <4>1. j \in DOMAIN cmdBuffers
        BY <1>5
      <4>2. submitted'[i].n = cmdBuffers[j].n /\ submitted'[i].accesses = cmdBuffers[j].accesses
        BY <1>4, <3>2
      <4> QED
        BY <4>1, <4>2, <2>1
    <3> QED
      BY <3>3 DEF Uses
  <2> QED
    BY <2>2, <2>3
<1>7. CASE \E i \in DOMAIN cmdBuffers' : a \in cmdBuffers'[i].accesses /\ m = cmdBuffers'[i].n
  <2>1. PICK i \in DOMAIN cmdBuffers' : a \in cmdBuffers'[i].accesses /\ m = cmdBuffers'[i].n
    BY <1>7
  <2>2. k + i \in DOMAIN cmdBuffers /\ cmdBuffers'[i] = cmdBuffers[k + i]
    BY <1>4, <1>5, <2>1
  <2> QED
    BY <2>1, <2>2 DEF Uses
<1> QED
  BY <1>5, <1>6, <1>7 DEF Uses

\* A new task is added.
LEMMA UsesSubmit ==
  ASSUME IInv, NEW t \in Threads, SubmitTask(t), NEW a \in Allocations, NEW m \in Uses(a)'
  PROVE  \/ m \in Uses(a)
         \/ m = taskCount + 1 /\ a \in SurfacesOf(t) \cup {CommandBufferOf(loc[t].call)}
<1> DEFINE b == NewCommandBuffer(t)
           x == Submit(b, FALSE, b.surfaces \cup {b.cb}, b.n)
<1>1. /\ pc[t] = "e_submit" /\ executed' = executed /\ executed \in Nat
      /\ submitted \in Seq(Task) /\ cmdBuffers \in Seq(CommandBuffer)
  BY DEF SubmitTask, gpuVars, IInv, TypeOK
<1>2. b \in CommandBuffer
  BY <1>1, CommandBufferType DEF IInv
<1>3. /\ b.n = taskCount + 1 /\ b.accesses = SurfacesOf(t) \cup {CommandBufferOf(loc[t].call)}
      /\ x.n = b.n /\ x.accesses = b.accesses
  BY DEF NewCommandBuffer, Submit
<1>4. x \in Task
  BY <1>2 DEF Submit, Task, CommandBuffer
<1>5. \/ submitted' = Append(submitted, x) /\ cmdBuffers' = cmdBuffers
      \/ submitted' = submitted /\ cmdBuffers' = Append(cmdBuffers, b)
  BY DEF SubmitTask
<1> HIDE DEF b, x
<1>6. CASE submitted' = Append(submitted, x) /\ cmdBuffers' = cmdBuffers
  <2>1. /\ Len(submitted') = Len(submitted) + 1
        /\ \A i \in 1..Len(submitted) : submitted'[i] = submitted[i]
        /\ submitted'[Len(submitted) + 1] = x /\ Len(submitted) \in Nat
    BY <1>1, <1>4, <1>6
  <2>2. \A i \in executed + 1..Len(submitted') :
          submitted'[i] # x => i \in executed + 1..Len(submitted) /\ submitted'[i] = submitted[i]
    BY <1>1, <2>1
  <2> QED
    BY <1>1, <1>3, <1>6, <2>2 DEF Uses
<1>7. CASE submitted' = submitted /\ cmdBuffers' = Append(cmdBuffers, b)
  <2>1. \A i \in DOMAIN cmdBuffers' :
          cmdBuffers'[i] # b => i \in DOMAIN cmdBuffers /\ cmdBuffers'[i] = cmdBuffers[i]
    BY <1>1, <1>2, <1>7
  <2> QED
    BY <1>1, <1>3, <1>7, <2>1 DEF Uses
<1> QED
  BY <1>5, <1>6, <1>7

----------------------------------------------------------------------------
(* Steps that leave the allocations alone.                                  *)

\* The step neither gives nor takes memory: the calls under way stay what they
\* are, at labels that the invariant does not tell apart.
SameCalls ==
  \A u \in Threads :
    /\ loc'[u].call = loc[u].call
    /\ loc[u].call # None => loc'[u].mine = loc[u].mine
    /\ pc'[u] = "e_store" <=> pc[u] = "e_store"
    /\ loc[u].call # None => (pc'[u] \in {"e_lock", "e_resident"} <=> pc[u] \in {"e_lock", "e_resident"})
    /\ pc'[u] = "e_submit" => pc[u] = "e_submit" /\ loc'[u] = loc[u]
    /\ pc'[u] = "d_clean" => pc[u] = "d_clean"

SameLists ==
  \A u \in Threads :
    /\ pc'[u] = "c_free" <=> pc[u] = "c_free"
    /\ pc[u] = "c_free" => loc'[u].list = loc[u].list /\ loc'[u].left = loc[u].left
    /\ loc'[u].list \cap loc'[u].left = {}

LEMMA MemFrame ==
  ASSUME MemInv, UNCHANGED <<where, lastTask, stream, buffers, taskCount, destroyed>>,
         \A a \in Allocations : Uses(a)' \subseteq Uses(a),
         SameCalls, SameLists, Destroyed' => Destroyed,
         \A u \in Threads : \A i \in DOMAIN todo'[u] : \E j \in DOMAIN todo[u] : todo'[u][i] = todo[u][j]
  PROVE  MemInv'
<1>1. \A u \in Threads, a \in Allocations : HasOwn(u, a)' <=> HasOwn(u, a)
  BY DEF HasOwn, SameCalls
<1>2. StreamInv'
  BY DEF MemInv, StreamInv
<1>3. BufferInv'
  BY DEF MemInv, BufferInv, SameCalls
<1>4. OwnInv'
  <2>1. \A t \in Threads, a \in Allocations : HasOwn(t, a) => loc[t].call # None
    BY DEF HasOwn
  <2>2. \A t \in Threads : loc'[t].call # None => (loc'[t].mine = None <=> loc'[t].call.memory = "none")
    BY DEF MemInv, OwnInv, SameCalls
  <2> SUFFICES ASSUME NEW t \in Threads, NEW a \in Allocations, HasOwn(t, a)
               PROVE  /\ a \notin buffers /\ \A s \in Streams : stream[s] # a
                      /\ \A u \in Threads : u # t => ~HasOwn(u, a)
                      /\ loc'[t].call.memory # "hostPtr" => where[a] = "held"
                      /\ loc'[t].call.memory = "hostPtr" =>
                           /\ where[a] \in {"temporary", "detached"}
                           /\ pc'[t] \in {"e_lock", "e_resident"} => lastTask[a] = eventNotReady
                           /\ pc'[t] \notin {"e_lock", "e_resident"} => lastTask[a] = taskCount + 1
    BY <1>1, <2>2 DEF OwnInv
  <2> QED
    BY <2>1 DEF MemInv, OwnInv, SameCalls
<1>5. HeldInv'
  BY <1>1 DEF MemInv, HeldInv
<1>6. ListInv'
  BY DEF MemInv, ListInv, SameLists
<1>7. UseInv'
  BY <1>1 DEF MemInv, UseInv, SameCalls
<1>8. SurfaceInv'
  <2>1. \A u \in Threads : pc'[u] = "e_submit" => pc[u] = "e_submit" /\ SurfacesOf(u)' = SurfacesOf(u)
    BY DEF SameCalls, SurfacesOf
  <2> QED
    BY <2>1 DEF MemInv, SurfaceInv
<1>9. EndInv'
  BY DEF MemInv, EndInv, SameCalls, NothingLeftWhenDestroyed
<1> QED
  BY <1>2, <1>3, <1>4, <1>5, <1>6, <1>7, <1>8, <1>9 DEF MemInv

\* Labels at which the invariant says something of the thread's memory
Marked == {"e_store", "e_lock", "e_resident", "e_submit", "c_free", "d_clean"}

Quiet(t) ==
  /\ UNCHANGED <<where, lastTask, stream, buffers, taskCount, destroyed, executed>>
  /\ UNCHANGED <<submitted, cmdBuffers>> \/ FlushBatch(t)
  /\ UNCHANGED todo \/ (todo[t] # <<>> /\ todo' = [todo EXCEPT ![t] = Tail(@)])
  /\ \A u \in Threads \ {t} : pc'[u] = pc[u] /\ loc'[u] = loc[u]
  /\ pc[t] \notin Marked /\ pc'[t] \notin Marked /\ (destroyed => pc'[t] # "idle")
  /\ loc'[t].call = loc[t].call /\ (loc[t].call # None => loc'[t].mine = loc[t].mine)
  /\ loc'[t].list \cap loc'[t].left = {}

LEMMA QuietStep ==
  ASSUME IInv, MemInv, NEW t \in Threads, Quiet(t)
  PROVE  MemInv'
<1>1. \A a \in Allocations : Uses(a)' \subseteq Uses(a)
  <2>1. executed \in Nat /\ executed' = executed
    BY DEF Quiet, IInv, TypeOK
  <2> QED
    BY <2>1, UsesShrink, UsesMerged DEF IInv, Quiet
<1>2. SameCalls
  BY DEF Quiet, SameCalls, Marked
<1>3. SameLists
  BY DEF Quiet, SameLists, Marked, MemInv, ListInv
<1>4. Destroyed' => Destroyed
  BY DEF Quiet, Destroyed
<1>5. \A u \in Threads : \A i \in DOMAIN todo'[u] : \E j \in DOMAIN todo[u] : todo'[u][i] = todo[u][j]
  <2>1. todo \in [Threads -> Seq(Call)]
    BY DEF IInv, TypeOK
  <2>2. CASE UNCHANGED todo
    BY <2>2, Zenon
  <2>3. CASE todo[t] # <<>> /\ todo' = [todo EXCEPT ![t] = Tail(@)]
    <3>1. todo[t] \in Seq(Call) /\ todo'[t] = Tail(todo[t]) /\ \A u \in Threads \ {t} : todo'[u] = todo[u]
      BY <2>1, <2>3
    <3>2. \A i \in DOMAIN todo'[t] : i + 1 \in DOMAIN todo[t] /\ todo'[t][i] = todo[t][i + 1]
      <4>1. PICK q \in Seq(Call) : q = todo[t]
        BY <3>1
      <4>2. \A i \in DOMAIN Tail(q) : i + 1 \in DOMAIN q /\ Tail(q)[i] = q[i + 1]
        BY <2>3, <4>1
      <4> QED
        BY <3>1, <4>1, <4>2
    <3> QED
      BY <3>1, <3>2
  <2> QED
    BY <2>2, <2>3 DEF Quiet
<1> QED
  BY <1>1, <1>2, <1>3, <1>4, <1>5, MemFrame DEF Quiet

QuietAction(t) ==
  \/ TaskFlushed(t) \/ ImplicitFlush(t) \/ flushBatchedSubmissions(t)
  \/ EnqueueOutOfResources(t) \/ clFlush(t, "flush", "idle") \/ clFlush(t, "finish", "f_read")
  \/ FinishRead(t) \/ WaitRead(t) \/ WaitSpin(t) \/ WaitAgain(t)

LEMMA NextQuiet ==
  ASSUME IInv, MemInv, NEW t \in Threads, QuietAction(t)
  PROVE  MemInv'
<1> USE DEF countVars, batchVars, allocVars, residencyVars, gpuVars, threadVars
<1>0. /\ pc \in [Threads -> Labels] /\ loc \in [Threads -> Locals] /\ OwnershipInv /\ DestroyInv
      /\ \A u \in Threads : loc[u].list \cap loc[u].left = {}
  BY DEF IInv, TypeOK, ControlInv, MemInv, ListInv
<1>1. CASE TaskFlushed(t)
  <2>1. /\ pc[t] = "e_flushed" /\ pc' = [pc EXCEPT ![t] = "e_implicit"]
        /\ UNCHANGED <<loc, todo, submitted, cmdBuffers, executed, where, lastTask, stream, buffers, taskCount, destroyed>>
    BY <1>1 DEF TaskFlushed, Goto
  <2> Quiet(t)
    BY <1>0, <2>1 DEF Quiet, Marked
  <2> QED
    BY QuietStep
<1>2. CASE ImplicitFlush(t)
  <2>1. /\ pc[t] = "e_implicit" /\ pc' \in {[pc EXCEPT ![t] = "fb_loop"], [pc EXCEPT ![t] = "e_count"]}
        /\ UNCHANGED <<todo, submitted, cmdBuffers, executed, where, lastTask, stream, buffers, taskCount, destroyed>>
        /\ loc' \in {loc, [loc EXCEPT ![t] = [loc[t] EXCEPT !.ret = "e_count"]]}
    BY <1>2 DEF ImplicitFlush, Goto, SetLocals
  <2>2. /\ \A u \in Threads \ {t} : loc'[u] = loc[u]
        /\ loc'[t].call = loc[t].call /\ loc'[t].mine = loc[t].mine
        /\ loc'[t].list = loc[t].list /\ loc'[t].left = loc[t].left
    BY <1>0, <2>1 DEF Locals
  <2> Quiet(t)
    BY <1>0, <2>1, <2>2 DEF Quiet, Marked
  <2> QED
    BY QuietStep
<1>3. CASE FlushBatchedLock(t)
  <2>1. /\ pc[t] = "fb_lock" /\ pc' \in {[pc EXCEPT ![t] = loc[t].ret], [pc EXCEPT ![t] = "fb_loop"]}
        /\ UNCHANGED <<loc, todo, submitted, cmdBuffers, executed, where, lastTask, stream, buffers, taskCount, destroyed>>
    BY <1>3 DEF FlushBatchedLock, Goto, Acquire
  <2>2. loc[t].ret \notin Marked /\ (destroyed => loc[t].ret # "idle")
    BY <1>0, <2>1 DEF OwnershipInv, DestroyInv, Marked
  <2> Quiet(t)
    BY <1>0, <2>1, <2>2 DEF Quiet, Marked
  <2> QED
    BY QuietStep
<1>4. CASE FlushBatch(t)
  <2>1. /\ pc[t] = "fb_loop" /\ pc' = [pc EXCEPT ![t] = "fb_flushed"]
        /\ UNCHANGED <<todo, executed, where, lastTask, stream, buffers, taskCount, destroyed>>
    BY <1>4 DEF FlushBatch, Goto
  <2>2. PICK k \in 1..Len(cmdBuffers) :
          SetLocals(t, [loc[t] EXCEPT !.list = resourcePackage(cmdBuffers, k)])
    BY <1>4 DEF FlushBatch
  <2>3. PICK R : R = resourcePackage(cmdBuffers, k)
    OBVIOUS
  <2>4. loc' = [loc EXCEPT ![t] = [loc[t] EXCEPT !.list = R]]
    BY <2>2, <2>3 DEF SetLocals
  <2>5. /\ \A u \in Threads \ {t} : loc'[u] = loc[u]
        /\ loc'[t].call = loc[t].call /\ loc'[t].mine = loc[t].mine
        /\ loc'[t].left = loc[t].left
    BY <1>0, <2>4 DEF Locals
  <2>6. loc[t].left = {}
    BY <1>0, <2>1 DEF OwnershipInv
  <2> Quiet(t)
    BY <1>0, <1>4, <2>1, <2>5, <2>6 DEF Quiet, Marked
  <2> QED
    BY QuietStep
<1>5. CASE BatchFlushed(t)
  <2>1. /\ pc[t] = "fb_flushed" /\ pc' = [pc EXCEPT ![t] = "fb_loop"]
        /\ UNCHANGED <<todo, submitted, cmdBuffers, executed, where, lastTask, stream, buffers, taskCount, destroyed>>
        /\ loc' = [loc EXCEPT ![t] = [loc[t] EXCEPT !.list = {}]]
    BY <1>5 DEF BatchFlushed, Goto, SetLocals
  <2>2. /\ \A u \in Threads \ {t} : loc'[u] = loc[u]
        /\ loc'[t].call = loc[t].call /\ loc'[t].mine = loc[t].mine /\ loc'[t].list = {}
    BY <1>0, <2>1 DEF Locals
  <2> Quiet(t)
    BY <1>0, <2>1, <2>2 DEF Quiet, Marked
  <2> QED
    BY QuietStep
<1>6. CASE FlushBatchedReturn(t)
  <2>1. /\ pc[t] = "fb_loop" /\ pc' = [pc EXCEPT ![t] = loc[t].ret]
        /\ UNCHANGED <<loc, todo, submitted, cmdBuffers, executed, where, lastTask, stream, buffers, taskCount, destroyed>>
    BY <1>6 DEF FlushBatchedReturn, Goto
  <2>2. loc[t].ret \notin Marked /\ (destroyed => loc[t].ret # "idle")
    BY <1>0, <2>1 DEF OwnershipInv, DestroyInv, Marked
  <2> Quiet(t)
    BY <1>0, <2>1, <2>2 DEF Quiet, Marked
  <2> QED
    BY QuietStep
<1>7. ASSUME NEW o, NEW l, clFlush(t, o, l) PROVE MemInv'
  <2>1. /\ pc[t] = "idle" /\ pc' = [pc EXCEPT ![t] = "fb_lock"]
        /\ UNCHANGED <<submitted, cmdBuffers, executed, where, lastTask, stream, buffers, taskCount, destroyed>>
        /\ loc' = [loc EXCEPT ![t] = [NoLocals EXCEPT !.ret = l]]
        /\ todo[t] # <<>> /\ todo' = [todo EXCEPT ![t] = Tail(@)]
    BY <1>7 DEF clFlush, Start, Calls
  <2>2. /\ \A u \in Threads \ {t} : loc'[u] = loc[u]
        /\ loc'[t].call = None /\ loc'[t].mine = None /\ loc'[t].list = {}
    BY <1>0, <2>1 DEF NoLocals
  <2>3. loc[t].call = None
    BY <1>0, <2>1 DEF OwnershipInv, EnqueueLabels, InBatch
  <2> Quiet(t)
    BY <1>0, <2>1, <2>2, <2>3 DEF Quiet, Marked
  <2> QED
    BY QuietStep
<1>7b. CASE EnqueueOutOfResources(t)
  <2>1. /\ pc[t] = "idle" /\ todo[t] # <<>> /\ todo' = [todo EXCEPT ![t] = Tail(@)]
        /\ UNCHANGED <<pc, loc, submitted, cmdBuffers, executed, where, lastTask, stream, buffers, taskCount, destroyed>>
    BY <1>7b DEF EnqueueOutOfResources, Calls
  <2>2. loc[t].list = {} /\ ~destroyed
    BY <1>0, <2>1 DEF OwnershipInv, DestroyInv
  <2> Quiet(t)
    BY <1>0, <2>1, <2>2 DEF Quiet, Marked
  <2> QED
    BY QuietStep
<1>8. CASE FinishRead(t)
  <2>1. /\ pc[t] = "f_read" /\ pc' = [pc EXCEPT ![t] = "w_read"]
        /\ UNCHANGED <<todo, submitted, cmdBuffers, executed, where, lastTask, stream, buffers, taskCount, destroyed>>
        /\ loc' = [loc EXCEPT ![t] = [loc[t] EXCEPT !.n = queueTaskCount, !.clean = queueTaskCount, !.timeout = TRUE]]
    BY <1>8 DEF FinishRead, Goto, SetLocals
  <2>2. /\ \A u \in Threads \ {t} : loc'[u] = loc[u]
        /\ loc'[t].call = loc[t].call /\ loc'[t].mine = loc[t].mine
        /\ loc'[t].list = loc[t].list /\ loc'[t].left = loc[t].left
    BY <1>0, <2>1 DEF Locals
  <2> Quiet(t)
    BY <1>0, <2>1, <2>2 DEF Quiet, Marked
  <2> QED
    BY QuietStep
<1>9. CASE WaitRead(t)
  <2>1. /\ pc[t] = "w_read" /\ pc' \in {[pc EXCEPT ![t] = "fb_lock"], [pc EXCEPT ![t] = "w_spin"]}
        /\ UNCHANGED <<todo, submitted, cmdBuffers, executed, where, lastTask, stream, buffers, taskCount, destroyed>>
        /\ loc' \in {loc, [loc EXCEPT ![t] = [loc[t] EXCEPT !.ret = "w_spin"]]}
    BY <1>9 DEF WaitRead, Goto, SetLocals
  <2>2. /\ \A u \in Threads \ {t} : loc'[u] = loc[u]
        /\ loc'[t].call = loc[t].call /\ loc'[t].mine = loc[t].mine
        /\ loc'[t].list = loc[t].list /\ loc'[t].left = loc[t].left
    BY <1>0, <2>1 DEF Locals
  <2> Quiet(t)
    BY <1>0, <2>1, <2>2 DEF Quiet, Marked
  <2> QED
    BY QuietStep
<1>10. CASE WaitSpin(t)
  <2>1. /\ pc[t] = "w_spin" /\ pc' \in {[pc EXCEPT ![t] = "c_detach"], [pc EXCEPT ![t] = "w_stamp"]}
        /\ UNCHANGED <<loc, todo, submitted, cmdBuffers, executed, where, lastTask, stream, buffers, taskCount, destroyed>>
    BY <1>10 DEF WaitSpin, Goto
  <2> Quiet(t)
    BY <1>0, <2>1 DEF Quiet, Marked
  <2> QED
    BY QuietStep
<1>11. CASE WaitAgain(t)
  <2>1. /\ pc[t] = "w_stamp" /\ pc' = [pc EXCEPT ![t] = "w_read"]
        /\ UNCHANGED <<todo, submitted, cmdBuffers, executed, where, lastTask, stream, buffers, taskCount, destroyed>>
        /\ loc' = [loc EXCEPT ![t] = [loc[t] EXCEPT !.timeout = FALSE]]
    BY <1>11 DEF WaitAgain, Goto, SetLocals
  <2>2. /\ \A u \in Threads \ {t} : loc'[u] = loc[u]
        /\ loc'[t].call = loc[t].call /\ loc'[t].mine = loc[t].mine
        /\ loc'[t].list = loc[t].list /\ loc'[t].left = loc[t].left
    BY <1>0, <2>1 DEF Locals
  <2> Quiet(t)
    BY <1>0, <2>1, <2>2 DEF Quiet, Marked
  <2> QED
    BY QuietStep
<1> QED
  BY <1>1, <1>2, <1>3, <1>4, <1>5, <1>6, <1>7, <1>7b, <1>8, <1>9, <1>10, <1>11 DEF QuietAction, flushBatchedSubmissions

LEMMA NextGpu == ASSUME IInv, MemInv, GpuExecute PROVE MemInv'
<1>1. /\ UNCHANGED <<where, lastTask, stream, buffers, taskCount, destroyed, submitted, cmdBuffers, pc, loc, todo>>
      /\ executed' = executed + 1 /\ executed \in Nat
  BY DEF GpuExecute, countVars, batchVars, allocVars, threadVars, IInv, TypeOK
<1>2. \A a \in Allocations : Uses(a)' \subseteq Uses(a)
  <2>1. executed' \in Nat /\ executed <= executed'
    BY <1>1
  <2> QED
    BY <1>1, <2>1, UsesShrink DEF IInv
<1>3. SameCalls /\ SameLists /\ (Destroyed' => Destroyed)
  BY <1>1 DEF SameCalls, SameLists, Destroyed, MemInv, ListInv
<1> QED
  BY <1>1, <1>2, <1>3, MemFrame

LEMMA NextStutter == ASSUME IInv, MemInv, UNCHANGED vars PROVE MemInv'
<1>1. /\ UNCHANGED <<where, lastTask, stream, buffers, taskCount, destroyed, submitted, cmdBuffers, pc, loc, todo, executed>>
      /\ executed \in Nat
  BY DEF vars, gpuVars, countVars, batchVars, allocVars, threadVars, IInv, TypeOK
<1>2. \A a \in Allocations : Uses(a)' \subseteq Uses(a)
  BY <1>1, UsesShrink DEF IInv
<1>3. SameCalls /\ SameLists /\ (Destroyed' => Destroyed)
  BY <1>1 DEF SameCalls, SameLists, Destroyed, MemInv, ListInv
<1> QED
  BY <1>1, <1>2, <1>3, MemFrame

----------------------------------------------------------------------------
(* A task gets memory, is built and counted.                                *)

\* What a task accesses is allocated, and is memory of no other call.
LEMMA SurfacesOwned ==
  ASSUME IInv, MemInv, NEW t \in Threads, pc[t] \in {"e_resident", "e_submit"},
         NEW a \in SurfacesOf(t) \cup {CommandBufferOf(loc[t].call)}
  PROVE  /\ a \in buffers \/ (\E s \in Streams : stream[s] = a) \/ HasOwn(t, a)
         /\ where[a] # "free" /\ where[a] # "reusable"
         /\ \A u \in Threads : u # t => ~HasOwn(u, a)
<1>1. /\ loc[t].call \in Dispatch /\ loc[t].call # None /\ a \in Allocations
      /\ \A s \in Streams : stream[s] \in Allocations /\ stream[s] # None
  BY SurfacesType, CsrAssumption DEF IInv
<1>2. a \in buffers \/ (\E s \in Streams : stream[s] = a) \/ HasOwn(t, a)
  <2>1. loc[t].call.uses \subseteq buffers
    BY <1>1 DEF MemInv, BufferInv
  <2>2. CommandBufferOf(loc[t].call) \in {stream["csr"], stream["queue"]}
    BY DEF CommandBufferOf
  <2> QED
    BY <1>1, <2>1, <2>2 DEF SurfacesOf, Streams, HasOwn
<1>3. where[a] # "free" /\ where[a] # "reusable"
  BY <1>1, <1>2 DEF MemInv, StreamInv, BufferInv, OwnInv
<1> QED
  BY <1>1, <1>2, <1>3 DEF MemInv, OwnInv

LEMMA NextCountTask == ASSUME IInv, MemInv, NEW t \in Threads, CountTask(t) PROVE MemInv'
<1>0. /\ pc \in [Threads -> Labels] /\ loc \in [Threads -> Locals] /\ OwnershipInv /\ DestroyInv
      /\ taskCount \in Nat /\ executed \in Nat /\ eventNotReady \in Nat /\ None \notin Threads
  BY CsrAssumption DEF IInv, TypeOK, ControlInv
<1>1. /\ pc[t] = "e_count" /\ pc' = [pc EXCEPT ![t] = "e_store"]
      /\ taskCount' = taskCount + 1 /\ loc' = [loc EXCEPT ![t] = [loc[t] EXCEPT !.clean = taskCount']]
      /\ UNCHANGED <<todo, submitted, cmdBuffers, executed, where, lastTask, stream, buffers, destroyed>>
  BY DEF CountTask, Goto, SetLocals, batchVars, allocVars, gpuVars
<1>2. /\ \A u \in Threads \ {t} : pc'[u] = pc[u] /\ loc'[u] = loc[u]
      /\ pc'[t] = "e_store" /\ loc'[t].call = loc[t].call /\ loc'[t].mine = loc[t].mine
      /\ loc'[t].list = loc[t].list /\ loc'[t].left = loc[t].left
  BY <1>0, <1>1 DEF Locals
<1>3. /\ \A u \in Threads \ {t} : pc[u] \notin Owning
      /\ ~destroyed /\ loc[t].call # None /\ loc[t].call \in Dispatch
      /\ \A u \in Threads \ {t} : loc[u].call # None => pc[u] \in {"e_lock", "e_store"}
  BY <1>0, <1>1 DEF OwnershipInv, DestroyInv, Owning, EnqueueLabels, InBatch, Locals
<1>4. \A u \in Threads, a \in Allocations :
        HasOwn(u, a)' <=> HasOwn(u, a) /\ (u = t => loc[t].call.memory # "hostPtr")
  BY <1>1, <1>2, <1>3 DEF HasOwn
<1>5. \A a \in Allocations : /\ Uses(a)' \subseteq Uses(a)
                             /\ \A m \in Uses(a) : m \in Nat /\ m <= taskCount'
  BY <1>0, <1>1, UsesShrink, UsesBound DEF IInv
<1>6. StreamInv'
  BY <1>1 DEF MemInv, StreamInv
<1>7. BufferInv'
  BY <1>1, <1>2 DEF MemInv, BufferInv
<1>8. OwnInv'
  <2>1. \A u \in Threads : loc'[u].call # None => (loc'[u].mine = None <=> loc'[u].call.memory = "none")
    BY <1>2 DEF MemInv, OwnInv
  <2>2. ASSUME NEW u \in Threads, NEW a \in Allocations, HasOwn(u, a)'
        PROVE  /\ a \notin buffers /\ \A s \in Streams : stream[s] # a
               /\ \A v \in Threads : v # u => ~HasOwn(v, a)'
               /\ loc'[u].call.memory # "hostPtr" => where[a] = "held"
               /\ loc'[u].call.memory = "hostPtr" =>
                    /\ where[a] \in {"temporary", "detached"}
                    /\ pc'[u] \in {"e_lock", "e_resident"} /\ lastTask[a] = eventNotReady
    <3>1. HasOwn(u, a) /\ (u = t => loc[t].call.memory # "hostPtr")
      BY <1>4, <2>2
    <3>2. loc'[u].call = loc[u].call /\ (loc[u].call.memory = "hostPtr" => pc'[u] = "e_lock" /\ pc[u] = "e_lock")
      BY <1>2, <1>3, <3>1 DEF HasOwn
    <3> QED
      BY <1>4, <3>1, <3>2 DEF MemInv, OwnInv
  <2> QED
    BY <1>1, <2>1, <2>2 DEF OwnInv
<1>9. HeldInv'
  BY <1>1, <1>4 DEF MemInv, HeldInv, OwnInv
<1>10. ListInv'
  BY <1>1, <1>2 DEF MemInv, ListInv
<1>11. UseInv'
  BY <1>0, <1>1, <1>2, <1>4, <1>5 DEF MemInv, UseInv
<1>12. SurfaceInv'
  BY <1>2, <1>3 DEF SurfaceInv, Owning
<1>13. EndInv'
  BY <1>1, <1>2, <1>3 DEF MemInv, EndInv, NothingLeftWhenDestroyed, Destroyed
<1> QED
  BY <1>6, <1>7, <1>8, <1>9, <1>10, <1>11, <1>12, <1>13 DEF MemInv

LEMMA NextMakeResident == ASSUME IInv, MemInv, NEW t \in Threads, MakeResident(t) PROVE MemInv'
<1>0. /\ pc \in [Threads -> Labels] /\ loc \in [Threads -> Locals] /\ OwnershipInv /\ DestroyInv
      /\ taskCount \in Nat /\ executed \in Nat /\ eventNotReady \in Nat /\ None \notin Threads
      /\ residencyTaskCount \in [Allocations -> 0..NotUsed]
  BY CsrAssumption DEF IInv, TypeOK, ControlInv
<1>1. /\ pc[t] = "e_resident" /\ pc' = [pc EXCEPT ![t] = "e_submit"]
      /\ UNCHANGED <<loc, todo, submitted, cmdBuffers, executed, where, stream, buffers, taskCount, destroyed>>
  BY DEF MakeResident, Goto, countVars, batchVars, gpuVars
<1>2. pc'[t] = "e_submit" /\ \A u \in Threads \ {t} : pc'[u] = pc[u]
  BY <1>0, <1>1
<1>3. /\ \A u \in Threads \ {t} : pc[u] \notin Owning
      /\ ~destroyed /\ loc[t].call # None
      /\ \A u \in Threads \ {t} : loc[u].call # None => pc[u] \in {"e_lock", "e_store"}
      /\ \A u \in Threads : ~(pc[u] = "e_submit" \/ Counting(u))
  BY <1>0, <1>1 DEF OwnershipInv, DestroyInv, Owning, EnqueueLabels, InBatch, Counting
<1>4. \A a \in Allocations : residencyTaskCount[a] = NotUsed \/ residencyTaskCount[a] < taskCount + 1
  <2>1. \A a \in Allocations : residencyTaskCount[a] = NotUsed \/ residencyTaskCount[a] <= taskCount
    BY <1>3 DEF IInv, ResidencyInv
  <2>2. NotUsed \in Nat /\ \A a \in Allocations : residencyTaskCount[a] \in Nat
    BY <1>0 DEF NotUsed
  <2> QED
    BY <1>0, <2>1, <2>2
<1>5. SurfacesOf(t) \subseteq Allocations
  BY <1>1, SurfacesType DEF IInv
<1>6. \A a \in Allocations : lastTask'[a] = IF a \in SurfacesOf(t) THEN taskCount + 1 ELSE lastTask[a]
  BY <1>4, <1>5 DEF MakeResident
<1>7. \A a \in SurfacesOf(t), u \in Threads : u # t => ~HasOwn(u, a)
  BY <1>1, SurfacesOwned
<1>8. \A u \in Threads, a \in Allocations : HasOwn(u, a)' <=> HasOwn(u, a)
  BY <1>1, <1>2 DEF HasOwn
<1>9. \A a \in Allocations : /\ Uses(a)' \subseteq Uses(a)
                             /\ \A m \in Uses(a) : m \in Nat /\ m <= taskCount + 1
  BY <1>0, <1>1, UsesShrink, UsesBound DEF IInv
<1>10. StreamInv'
  BY <1>1 DEF MemInv, StreamInv
<1>11. BufferInv'
  BY <1>1, <1>2 DEF MemInv, BufferInv
<1>12. OwnInv'
  <2>1. ASSUME NEW u \in Threads, NEW a \in Allocations, HasOwn(u, a), loc[u].call.memory = "hostPtr"
        PROVE  /\ pc'[u] \in {"e_lock", "e_resident"} => lastTask'[a] = eventNotReady
               /\ pc'[u] \notin {"e_lock", "e_resident"} => lastTask'[a] = taskCount + 1
    <3>1. CASE u = t
      <4>1. a \in SurfacesOf(t)
        BY <2>1, <3>1, SurfacesType, CsrAssumption DEF HasOwn, SurfacesOf
      <4> QED
        BY <1>2, <1>6, <3>1, <4>1
    <3>2. CASE u # t
      BY <1>2, <1>3, <1>6, <1>7, <2>1, <3>2 DEF HasOwn, MemInv, OwnInv
    <3> QED
      BY <3>1, <3>2
  <2>2. \A u \in Threads, a \in Allocations : HasOwn(u, a) =>
          /\ a \notin buffers /\ \A s \in Streams : stream[s] # a
          /\ \A v \in Threads : v # u => ~HasOwn(v, a)
          /\ loc[u].call.memory # "hostPtr" => where[a] = "held"
          /\ loc[u].call.memory = "hostPtr" => where[a] \in {"temporary", "detached"}
    BY DEF MemInv, OwnInv
  <2>3. \A u \in Threads : loc'[u].call # None => (loc'[u].mine = None <=> loc'[u].call.memory = "none")
    BY <1>1 DEF MemInv, OwnInv
  <2> QED
    BY <1>1, <1>8, <2>1, <2>2, <2>3 DEF OwnInv
<1>13. HeldInv'
  BY <1>1, <1>8 DEF MemInv, HeldInv
<1>14. ListInv'
  BY <1>1, <1>2 DEF MemInv, ListInv
<1>15. UseInv'
  <2>1. taskCount + 1 < eventNotReady
    BY <1>1 DEF IInv, CountInv, Building
  <2> SUFFICES ASSUME NEW a \in Allocations, NEW m \in Uses(a)
               PROVE  /\ where[a] # "free"
                      /\ (\A s \in Streams : stream[s] # a) => m <= lastTask'[a] /\ lastTask'[a] < eventNotReady
                      /\ \A u \in Threads : pc'[u] = "e_store" /\ HasOwn(u, a) => m <= taskCount
    BY <1>1, <1>8, <1>9 DEF UseInv
  <2>2. (\A s \in Streams : stream[s] # a) => m <= lastTask'[a] /\ lastTask'[a] < eventNotReady
    BY <1>0, <1>6, <1>9, <2>1 DEF MemInv, UseInv
  <2> QED
    BY <1>2, <2>2 DEF MemInv, UseInv
<1>16. SurfaceInv'
  <2>1. SurfacesOf(t)' = SurfacesOf(t)
    BY <1>1 DEF SurfacesOf
  <2>2. \A u \in Threads : pc'[u] = "e_submit" => u = t
    BY <1>2, <1>3
  <2> QED
    BY <1>1, <1>5, <1>6, <2>1, <2>2 DEF SurfaceInv
<1>17. EndInv'
  BY <1>1, <1>2, <1>3 DEF MemInv, EndInv, NothingLeftWhenDestroyed, Destroyed
<1> QED
  BY <1>10, <1>11, <1>12, <1>13, <1>14, <1>15, <1>16, <1>17 DEF MemInv

LEMMA NextSubmitTask == ASSUME IInv, MemInv, NEW t \in Threads, SubmitTask(t) PROVE MemInv'
<1>0. /\ pc \in [Threads -> Labels] /\ loc \in [Threads -> Locals] /\ OwnershipInv /\ DestroyInv
      /\ taskCount \in Nat /\ executed \in Nat /\ eventNotReady \in Nat /\ None \notin Threads
  BY CsrAssumption DEF IInv, TypeOK, ControlInv
<1>1. /\ pc[t] = "e_submit" /\ pc' \in {[pc EXCEPT ![t] = "e_flushed"], [pc EXCEPT ![t] = "e_implicit"]}
      /\ UNCHANGED <<loc, todo, executed, where, lastTask, stream, buffers, taskCount, destroyed>>
  BY DEF SubmitTask, Goto, countVars, allocVars, gpuVars
<1>2. pc'[t] \in {"e_flushed", "e_implicit"} /\ \A u \in Threads \ {t} : pc'[u] = pc[u]
  BY <1>0, <1>1
<1>3. /\ \A u \in Threads \ {t} : pc[u] \notin Owning
      /\ ~destroyed /\ loc[t].call # None
  BY <1>0, <1>1 DEF OwnershipInv, DestroyInv, Owning, EnqueueLabels, InBatch
<1>4. \A u \in Threads, a \in Allocations : HasOwn(u, a)' <=> HasOwn(u, a)
  BY <1>1, <1>2 DEF HasOwn
<1>5. StreamInv'
  BY <1>1 DEF MemInv, StreamInv
<1>6. BufferInv'
  BY <1>1, <1>2 DEF MemInv, BufferInv
<1>7. OwnInv'
  BY <1>1, <1>2, <1>4 DEF MemInv, OwnInv
<1>8. HeldInv'
  BY <1>1, <1>4 DEF MemInv, HeldInv
<1>9. ListInv'
  BY <1>1, <1>2 DEF MemInv, ListInv
<1>10. UseInv'
  <2>1. taskCount + 1 < eventNotReady
    BY <1>1 DEF IInv, CountInv, Building
  <2> SUFFICES ASSUME NEW a \in Allocations, NEW m \in Uses(a)'
               PROVE  /\ where[a] # "free"
                      /\ (\A s \in Streams : stream[s] # a) => m <= lastTask[a] /\ lastTask[a] < eventNotReady
                      /\ \A u \in Threads : pc'[u] = "e_store" /\ HasOwn(u, a) => m <= taskCount
    BY <1>1, <1>4 DEF UseInv
  <2>2. CASE m \in Uses(a)
    BY <1>2, <2>2 DEF MemInv, UseInv
  <2>3. CASE m = taskCount + 1 /\ a \in SurfacesOf(t) \cup {CommandBufferOf(loc[t].call)}
    <3>1. where[a] # "free" /\ \A u \in Threads : u # t => ~HasOwn(u, a)
      BY <1>1, <2>3, SurfacesOwned
    <3>2. (\A s \in Streams : stream[s] # a) => a \in SurfacesOf(t)
      BY <2>3 DEF CommandBufferOf, Streams
    <3>3. a \in SurfacesOf(t) => lastTask[a] = taskCount + 1
      BY <1>1 DEF MemInv, SurfaceInv
    <3> QED
      BY <1>0, <1>2, <2>1, <2>3, <3>1, <3>2, <3>3
  <2> QED
    BY <2>2, <2>3, UsesSubmit
<1>11. SurfaceInv'
  BY <1>2, <1>3 DEF SurfaceInv, Owning
<1>12. EndInv'
  BY <1>1, <1>2, <1>3 DEF MemInv, EndInv, NothingLeftWhenDestroyed, Destroyed
<1> QED
  BY <1>5, <1>6, <1>7, <1>8, <1>9, <1>10, <1>11, <1>12 DEF MemInv

LEMMA NextEndEnqueue == ASSUME IInv, MemInv, NEW t \in Threads, EndEnqueue(t) PROVE MemInv'
<1>0. /\ pc \in [Threads -> Labels] /\ loc \in [Threads -> Locals] /\ OwnershipInv /\ DestroyInv
      /\ taskCount \in Nat /\ executed \in Nat /\ eventNotReady \in Nat /\ None \notin Threads
      /\ where \in [Allocations -> Places] /\ lastTask \in [Allocations -> 0..NotUsed]
      /\ queueTaskCount = taskCount /\ taskCount < eventNotReady
  BY CsrAssumption DEF IInv, TypeOK, ControlInv, CountInv
<1>1. /\ pc[t] = "e_store" /\ pc' \in {[pc EXCEPT ![t] = "w_read"], [pc EXCEPT ![t] = "idle"]}
      /\ UNCHANGED <<todo, submitted, cmdBuffers, executed, stream, buffers, taskCount, destroyed>>
      /\ \/ loc' = [loc EXCEPT ![t] = NoLocals]
         \/ loc' = [loc EXCEPT ![t] = [NoLocals EXCEPT !.n = queueTaskCount, !.clean = loc[t].clean,
                                                        !.timeout = TRUE]]
  BY DEF EndEnqueue, Goto, SetLocals, countVars, batchVars, gpuVars
<1>2. /\ pc'[t] \in {"w_read", "idle"} /\ \A u \in Threads \ {t} : pc'[u] = pc[u] /\ loc'[u] = loc[u]
      /\ loc'[t].call = None /\ loc'[t].list = {} /\ loc'[t].left = {}
  <2>1. pc'[t] \in {"w_read", "idle"} /\ \A u \in Threads \ {t} : pc'[u] = pc[u] /\ loc'[u] = loc[u]
    BY <1>0, <1>1
  <2>2. PICK x \in {NoLocals, [NoLocals EXCEPT !.n = queueTaskCount, !.clean = loc[t].clean, !.timeout = TRUE]} :
          loc' = [loc EXCEPT ![t] = x]
    BY <1>1
  <2>3. x.call = None /\ x.list = {} /\ x.left = {}
    <3>1. CASE x = NoLocals
      BY <3>1 DEF NoLocals
    <3>2. CASE x # NoLocals
      BY <3>2 DEF NoLocals
    <3> QED
      BY <3>1, <3>2
  <2>4. loc'[t] = x
    BY <1>0, <2>2
  <2> QED
    BY <2>1, <2>3, <2>4
<1>3. ~destroyed /\ loc[t].call # None /\ loc[t].call \in Dispatch /\ loc[t].mine \in Allocations \cup {None}
  BY <1>0, <1>1 DEF OwnershipInv, DestroyInv, EnqueueLabels, Locals
<1>4. \A u \in Threads, a \in Allocations : HasOwn(u, a)' <=> u # t /\ HasOwn(u, a)
  BY <1>1, <1>2 DEF HasOwn
<1>5. \A a \in Allocations : Uses(a)' \subseteq Uses(a)
  BY <1>0, <1>1, UsesShrink DEF IInv
\* The memory of the call, unless it is none or a host pointer surface
<1>6. \A a \in Allocations : HasOwn(t, a) =>
        /\ a \notin buffers /\ \A s \in Streams : stream[s] # a
        /\ \A u \in Threads : u # t => ~HasOwn(u, a)
        /\ where[a] = "held"
        /\ \A m \in Uses(a) : m <= taskCount
  BY <1>1 DEF MemInv, OwnInv, UseInv, HasOwn
<1>7. \A a \in Allocations :
        /\ ~HasOwn(t, a) => where'[a] = where[a] /\ lastTask'[a] = lastTask[a]
        /\ HasOwn(t, a) => where'[a] \in {"temporary", "reusable"} /\ lastTask'[a] = taskCount
  <2>1. loc[t].mine = None <=> loc[t].call.memory = "none"
    BY <1>3 DEF MemInv, OwnInv
  <2>2. CASE loc[t].call.memory \in {"none", "hostPtr"}
    <3>1. \A a \in Allocations : ~HasOwn(t, a)
      BY <1>1, <2>1, <2>2, CsrAssumption DEF HasOwn
    <3>2. UNCHANGED <<where, lastTask>>
      BY <2>2 DEF EndEnqueue
    <3> QED
      BY <3>1, <3>2
  <2>3. CASE loc[t].call.memory \in {"fillBuffer", "svmMemFill"}
    <3>1. /\ loc[t].mine \in Allocations /\ lastTask' = [lastTask EXCEPT ![loc[t].mine] = taskCount]
          /\ \/ where' = [where EXCEPT ![loc[t].mine] = "temporary"]
             \/ where' = [where EXCEPT ![loc[t].mine] = "reusable"]
      BY <1>0, <1>3, <2>1, <2>3 DEF EndEnqueue, storeAllocation
    <3>2. \A a \in Allocations : HasOwn(t, a) <=> a = loc[t].mine
      BY <1>3, <2>3 DEF HasOwn
    <3> QED
      BY <1>0, <3>1, <3>2
  <2> QED
    BY <1>3, <2>2, <2>3 DEF Dispatch
<1>8. StreamInv'
  <2>1. \A s \in Streams : stream[s] # None => stream[s] \in Allocations
    BY DEF IInv, TypeOK
  <2> QED
    BY <1>1, <1>6, <1>7, <2>1 DEF MemInv, StreamInv
<1>9. BufferInv'
  <2>1. buffers \subseteq Allocations
    BY CsrAssumption DEF IInv, TypeOK
  <2> QED
    BY <1>1, <1>2, <1>6, <1>7, <2>1 DEF MemInv, BufferInv
<1>10. OwnInv'
  <2>1. \A u \in Threads : loc'[u].call # None => (loc'[u].mine = None <=> loc'[u].call.memory = "none")
    BY <1>2 DEF MemInv, OwnInv
  <2> SUFFICES ASSUME NEW u \in Threads, NEW a \in Allocations, HasOwn(u, a)'
               PROVE  /\ a \notin buffers /\ \A s \in Streams : stream[s] # a
                      /\ \A v \in Threads : v # u => ~HasOwn(v, a)'
                      /\ loc'[u].call.memory # "hostPtr" => where'[a] = "held"
                      /\ loc'[u].call.memory = "hostPtr" =>
                           /\ where'[a] \in {"temporary", "detached"}
                           /\ pc'[u] \in {"e_lock", "e_resident"} => lastTask'[a] = eventNotReady
                           /\ pc'[u] \notin {"e_lock", "e_resident"} => lastTask'[a] = taskCount + 1
    BY <1>1, <2>1 DEF OwnInv
  <2>2. u # t /\ HasOwn(u, a) /\ loc'[u] = loc[u] /\ pc'[u] = pc[u]
    BY <1>2, <1>4
  <2>3. where'[a] = where[a] /\ lastTask'[a] = lastTask[a]
    BY <1>6, <1>7, <2>2
  <2> QED
    BY <1>4, <2>2, <2>3 DEF MemInv, OwnInv
<1>11. HeldInv'
  BY <1>1, <1>4, <1>7 DEF MemInv, HeldInv
<1>12. ListInv'
  <2>1. \A u \in Threads : loc[u].list \subseteq Allocations /\ loc[u].left \subseteq Allocations
    BY <1>0, LocalsType
  <2>2. \A u \in Threads : (pc'[u] = "c_free" <=> pc[u] = "c_free") /\ (pc[u] = "c_free" => loc'[u] = loc[u])
    BY <1>1, <1>2
  <2>3. \A a \in Allocations : where'[a] = "detached" <=> where[a] = "detached"
    BY <1>6, <1>7
  <2>4. \A u \in Threads : loc'[u].list \cap loc'[u].left = {}
    BY <1>2 DEF MemInv, ListInv
  <2> QED
    BY <2>1, <2>2, <2>3, <2>4 DEF MemInv, ListInv
<1>13. UseInv'
  <2> SUFFICES ASSUME NEW a \in Allocations, NEW m \in Uses(a)
               PROVE  /\ where'[a] # "free"
                      /\ (\A s \in Streams : stream[s] # a) => m <= lastTask'[a] /\ lastTask'[a] < eventNotReady
                      /\ \A u \in Threads : pc'[u] = "e_store" /\ HasOwn(u, a)' => m <= taskCount
    BY <1>1, <1>5 DEF UseInv
  <2>1. where'[a] # "free"
    BY <1>7 DEF MemInv, UseInv
  <2>2. (\A s \in Streams : stream[s] # a) => m <= lastTask'[a] /\ lastTask'[a] < eventNotReady
    BY <1>0, <1>6, <1>7 DEF MemInv, UseInv
  <2>3. \A u \in Threads : pc'[u] = "e_store" /\ HasOwn(u, a)' => m <= taskCount
    BY <1>2, <1>4 DEF MemInv, UseInv
  <2> QED
    BY <2>1, <2>2, <2>3
<1>14. SurfaceInv'
  <2> SUFFICES ASSUME NEW u \in Threads, pc'[u] = "e_submit", NEW a \in SurfacesOf(u)'
               PROVE  lastTask'[a] = taskCount + 1
    BY <1>1 DEF SurfaceInv
  <2>1. u # t /\ pc[u] = "e_submit" /\ SurfacesOf(u)' = SurfacesOf(u)
    BY <1>1, <1>2 DEF SurfacesOf
  <2>2. a \in Allocations /\ ~HasOwn(t, a)
    BY <2>1, SurfacesType, SurfacesOwned DEF IInv
  <2> QED
    BY <1>7, <2>1, <2>2 DEF MemInv, SurfaceInv
<1>15. EndInv'
  BY <1>1, <1>2, <1>3 DEF MemInv, EndInv, NothingLeftWhenDestroyed, Destroyed
<1> QED
  BY <1>8, <1>9, <1>10, <1>11, <1>12, <1>13, <1>14, <1>15 DEF MemInv

----------------------------------------------------------------------------
(* The temporary list is cleaned.                                           *)

\* What an allocation that is freed or kept by a cleaning step satisfies: the
\* calls, the streams and the memory objects do not depend on it.
LEMMA CleanFrame ==
  ASSUME IInv, MemInv, NEW t \in Threads, pc[t] \in {"c_detach", "c_free"},
         pc'[t] \in {"c_free", "idle"},
         UNCHANGED <<todo, submitted, cmdBuffers, executed, stream, buffers, taskCount, destroyed, lastTask>>,
         \A u \in Threads \ {t} : pc'[u] = pc[u] /\ loc'[u] = loc[u],
         loc'[t].call = None,
         \A a \in Allocations : \/ where'[a] = where[a]
                                \/ {where[a], where'[a]} = {"temporary", "detached"}
                                \/ /\ where[a] = "detached" /\ where'[a] = "free" /\ Uses(a) = {}
                                   /\ \A u \in Threads : ~HasOwn(u, a)
  PROVE  StreamInv' /\ BufferInv' /\ OwnInv' /\ HeldInv' /\ UseInv' /\ SurfaceInv' /\ EndInv'
<1>0. /\ pc \in [Threads -> Labels] /\ loc \in [Threads -> Locals] /\ OwnershipInv /\ DestroyInv
      /\ executed \in Nat
  BY CsrAssumption DEF IInv, TypeOK, ControlInv
<1>1. loc[t].call = None /\ ~destroyed
  BY <1>0 DEF OwnershipInv, DestroyInv, EnqueueLabels, InBatch
<1>2. \A u \in Threads, a \in Allocations : HasOwn(u, a)' <=> HasOwn(u, a)
  BY <1>1 DEF HasOwn
<1>3. \A a \in Allocations : Uses(a)' \subseteq Uses(a)
  BY <1>0, UsesShrink DEF IInv
<1>4. \A a \in Allocations : /\ where'[a] = "held" <=> where[a] = "held"
                             /\ Uses(a) # {} => (where'[a] # "free" <=> where[a] # "free")
                             /\ \A u \in Threads : HasOwn(u, a) =>
                                  (where'[a] \in {"temporary", "detached"} <=> where[a] \in {"temporary", "detached"})
  OBVIOUS
<1>5. StreamInv'
  <2>1. \A s \in Streams : stream[s] # None => stream[s] \in Allocations
    BY DEF IInv, TypeOK
  <2> QED
    BY <1>4, <2>1 DEF MemInv, StreamInv
<1>6. BufferInv'
  <2>1. buffers \subseteq Allocations
    BY CsrAssumption DEF IInv, TypeOK
  <2> QED
    BY <1>4, <2>1 DEF MemInv, BufferInv
<1>7. OwnInv'
  <2>1. \A u \in Threads : loc'[u].call # None => (loc'[u].mine = None <=> loc'[u].call.memory = "none")
    BY DEF MemInv, OwnInv
  <2> SUFFICES ASSUME NEW u \in Threads, NEW a \in Allocations, HasOwn(u, a)
               PROVE  /\ a \notin buffers /\ \A s \in Streams : stream[s] # a
                      /\ \A v \in Threads : v # u => ~HasOwn(v, a)
                      /\ loc'[u].call.memory # "hostPtr" => where'[a] = "held"
                      /\ loc'[u].call.memory = "hostPtr" =>
                           /\ where'[a] \in {"temporary", "detached"}
                           /\ pc'[u] \in {"e_lock", "e_resident"} => lastTask[a] = eventNotReady
                           /\ pc'[u] \notin {"e_lock", "e_resident"} => lastTask[a] = taskCount + 1
    BY <1>2, <2>1 DEF OwnInv
  <2>2. u # t /\ loc'[u] = loc[u] /\ pc'[u] = pc[u]
    BY <1>1 DEF HasOwn
  <2> QED
    BY <1>4, <2>2 DEF MemInv, OwnInv
<1>8. HeldInv'
  BY <1>2, <1>4 DEF MemInv, HeldInv
<1>9. UseInv'
  <2> SUFFICES ASSUME NEW a \in Allocations, NEW m \in Uses(a)
               PROVE  /\ where'[a] # "free"
                      /\ (\A s \in Streams : stream[s] # a) => m <= lastTask[a] /\ lastTask[a] < eventNotReady
                      /\ \A u \in Threads : pc'[u] = "e_store" /\ HasOwn(u, a) => m <= taskCount
    BY <1>2, <1>3 DEF UseInv
  <2> QED
    BY <1>4 DEF MemInv, UseInv
<1>10. SurfaceInv'
  <2>1. \A u \in Threads : pc'[u] = "e_submit" => pc[u] = "e_submit" /\ SurfacesOf(u)' = SurfacesOf(u)
    BY DEF SurfacesOf
  <2> QED
    BY <2>1 DEF MemInv, SurfaceInv
<1>11. EndInv'
  BY <1>1 DEF MemInv, EndInv, NothingLeftWhenDestroyed, Destroyed
<1> QED
  BY <1>5, <1>6, <1>7, <1>8, <1>9, <1>10, <1>11

LEMMA NextCleanDetach == ASSUME IInv, MemInv, NEW t \in Threads, CleanDetach(t) PROVE MemInv'
<1>0. /\ pc \in [Threads -> Labels] /\ loc \in [Threads -> Locals] /\ OwnershipInv
  BY DEF IInv, TypeOK, ControlInv
<1>1. /\ pc[t] = "c_detach" /\ pc' = [pc EXCEPT ![t] = "c_free"]
      /\ UNCHANGED <<todo, submitted, cmdBuffers, executed, stream, buffers, taskCount, destroyed, lastTask>>
      /\ loc' = [loc EXCEPT ![t] = [loc[t] EXCEPT !.list = Listed("temporary")]]
      /\ where' = [a \in Allocations |-> IF where[a] = "temporary" THEN "detached" ELSE where[a]]
  BY DEF CleanDetach, Goto, SetLocals, countVars, batchVars, gpuVars
<1>2. PICK L : L = Listed("temporary")
  OBVIOUS
<1>3. /\ pc'[t] = "c_free" /\ \A u \in Threads \ {t} : pc'[u] = pc[u] /\ loc'[u] = loc[u]
      /\ loc'[t].call = loc[t].call /\ loc'[t].list = L /\ loc'[t].left = loc[t].left
  BY <1>0, <1>1, <1>2 DEF Locals
<1>4. loc[t].call = None /\ loc[t].left = {} /\ L = {a \in Allocations : where[a] = "temporary"}
  BY <1>0, <1>1, <1>2 DEF OwnershipInv, EnqueueLabels, InBatch, Listed
<1>5. ListInv'
  <2>1. \A u \in Threads : loc'[u].list \cap loc'[u].left = {}
    BY <1>3, <1>4 DEF MemInv, ListInv
  <2>2. \A u \in Threads : loc[u].list \subseteq Allocations /\ loc[u].left \subseteq Allocations
    BY <1>0, LocalsType
  <2>3. \A a \in Allocations : where'[a] = "detached" <=> where[a] = "detached" \/ a \in L
    BY <1>1, <1>4
  <2>4. \A u \in Threads \ {t} : pc'[u] = "c_free" => \A a \in loc[u].list \cup loc[u].left :
           a \in Allocations /\ where[a] = "detached" /\ a \notin L
    BY <1>3, <1>4, <2>2 DEF MemInv, ListInv
  <2>5. \A u, v \in Threads \ {t} : pc'[u] = "c_free" /\ pc'[v] = "c_free" /\ u # v =>
           \A a \in loc[u].list \cup loc[u].left : a \notin loc[v].list \cup loc[v].left
    BY <1>3 DEF MemInv, ListInv
  <2>6. \A a \in Allocations : where[a] = "detached" =>
          \E u \in Threads \ {t} : pc'[u] = "c_free" /\ a \in loc[u].list \cup loc[u].left
    BY <1>1, <1>3 DEF MemInv, ListInv
  <2>7. \A u \in Threads : pc'[u] = "c_free" => \A a \in loc'[u].list \cup loc'[u].left :
          /\ where'[a] = "detached"
          /\ \A v \in Threads : v # u /\ pc'[v] = "c_free" => a \notin loc'[v].list \cup loc'[v].left
    BY <1>3, <1>4, <2>3, <2>4, <2>5
  <2>8. \A a \in Allocations : where'[a] = "detached" =>
          \E u \in Threads : pc'[u] = "c_free" /\ a \in loc'[u].list \cup loc'[u].left
    BY <1>3, <2>3, <2>6
  <2> QED
    BY <2>1, <2>7, <2>8 DEF ListInv
<1>6. \A a \in Allocations : where'[a] = where[a] \/ {where[a], where'[a]} = {"temporary", "detached"}
  BY <1>1
<1> QED
  BY <1>1, <1>3, <1>4, <1>5, <1>6, CleanFrame DEF MemInv

LEMMA NextCleanOne == ASSUME IInv, MemInv, NEW t \in Threads, CleanOne(t) PROVE MemInv'
<1>0. /\ pc \in [Threads -> Labels] /\ loc \in [Threads -> Locals] /\ OwnershipInv
      /\ where \in [Allocations -> Places] /\ lastTask \in [Allocations -> 0..NotUsed]
      /\ taskCount \in Nat /\ tag \in Nat /\ eventNotReady \in Nat
      /\ \A u \in Threads : loc[u].clean \in Nat /\ loc[u].list \subseteq Allocations /\ loc[u].left \subseteq Allocations
  BY LocalsType, CsrAssumption DEF IInv, TypeOK, ControlInv
<1>1. /\ pc[t] = "c_free"
      /\ UNCHANGED <<pc, todo, submitted, cmdBuffers, executed, stream, buffers, taskCount, destroyed, lastTask>>
  BY DEF CleanOne, countVars, batchVars, gpuVars
<1>2. PICK a \in loc[t].list :
        \/ /\ lastTask[a] <= loc[t].clean /\ where' = [where EXCEPT ![a] = "free"]
           /\ loc' = [loc EXCEPT ![t] = [loc[t] EXCEPT !.list = @ \ {a}]]
        \/ /\ UNCHANGED where
           /\ loc' = [loc EXCEPT ![t] = [loc[t] EXCEPT !.list = @ \ {a}, !.left = @ \cup {a}]]
  BY DEF CleanOne, SetLocals
<1>3. /\ \A u \in Threads \ {t} : pc'[u] = pc[u] /\ loc'[u] = loc[u]
      /\ loc'[t].call = loc[t].call /\ pc'[t] = "c_free" /\ loc[t].call = None
  <2>1. /\ \A u \in Threads \ {t} : loc'[u] = loc[u]
        /\ loc'[t].call = loc[t].call
    BY <1>0, CleanOneLocals
  <2>2. loc[t].call = None
    BY <1>0, <1>1 DEF OwnershipInv, EnqueueLabels, InBatch
  <2> QED
    BY <1>1, <2>1, <2>2
<1>4. a \in Allocations /\ where[a] = "detached" /\ a \notin loc[t].left
  BY <1>0, <1>1, <1>2 DEF MemInv, ListInv
<1>5. CASE lastTask[a] <= loc[t].clean /\ where' = [where EXCEPT ![a] = "free"]
             /\ loc' = [loc EXCEPT ![t] = [loc[t] EXCEPT !.list = @ \ {a}]]
  <2>1. Uses(a) = {}
    <3>1. \A m \in Uses(a) : m \in Nat /\ tag < m
      BY UsesBound
    <3>2. loc[t].clean <= tag
      BY <1>1 DEF IInv, CountInv
    <3>3. \A s \in Streams : stream[s] # a
      BY <1>4, CsrAssumption DEF MemInv, StreamInv
    <3>4. \A m \in Uses(a) : m <= lastTask[a]
      BY <1>4, <3>3 DEF MemInv, UseInv
    <3>5. lastTask[a] \in Nat
      BY <1>0, <1>4
    <3>6. \A m \in Uses(a) : FALSE
      BY <1>0, <1>5, <3>1, <3>2, <3>4, <3>5
    <3> QED
      BY <3>6
  <2>2. \A u \in Threads : ~HasOwn(u, a)
    <3>1. loc[t].clean <= taskCount /\ taskCount < eventNotReady
      BY DEF IInv, CountInv
    <3>2. lastTask[a] \in Nat /\ lastTask[a] # eventNotReady /\ lastTask[a] # taskCount + 1
      BY <1>0, <1>4, <1>5, <3>1
    <3> QED
      BY <1>4, <3>2 DEF MemInv, OwnInv
  <2>3. /\ loc'[t].list = loc[t].list \ {a} /\ loc'[t].left = loc[t].left
        /\ where'[a] = "free" /\ \A b \in Allocations : b # a => where'[b] = where[b]
    BY <1>0, <1>4, <1>5 DEF Locals
  <2>4. ListInv'
    <3>1. \A u \in Threads : loc'[u].list \cap loc'[u].left = {}
      BY <1>3, <2>3 DEF MemInv, ListInv
    <3>2. ASSUME NEW u \in Threads, pc'[u] = "c_free", NEW b \in loc'[u].list \cup loc'[u].left
          PROVE  /\ where'[b] = "detached"
                 /\ \A v \in Threads : v # u /\ pc'[v] = "c_free" => b \notin loc'[v].list \cup loc'[v].left
      <4>1. pc[u] = "c_free" /\ b \in loc[u].list \cup loc[u].left /\ b # a /\ b \in Allocations
        BY <1>0, <1>1, <1>2, <1>3, <1>4, <2>3, <3>2 DEF MemInv, ListInv
      <4>2. where'[b] = "detached"
        BY <2>3, <4>1 DEF MemInv, ListInv
      <4>3. \A v \in Threads : v # u /\ pc'[v] = "c_free" => b \notin loc'[v].list \cup loc'[v].left
        BY <1>1, <1>3, <2>3, <4>1 DEF MemInv, ListInv
      <4> QED
        BY <4>2, <4>3
    <3>3. ASSUME NEW b \in Allocations, where'[b] = "detached"
          PROVE  \E u \in Threads : pc'[u] = "c_free" /\ b \in loc'[u].list \cup loc'[u].left
      <4>1. b # a /\ where[b] = "detached"
        BY <2>3, <3>3
      <4>2. PICK u \in Threads : pc[u] = "c_free" /\ b \in loc[u].list \cup loc[u].left
        BY <4>1 DEF MemInv, ListInv
      <4> QED
        BY <1>1, <1>3, <2>3, <4>1, <4>2
    <3> QED
      BY <3>1, <3>2, <3>3 DEF ListInv
  <2> QED
    BY <1>1, <1>3, <1>4, <2>1, <2>2, <2>3, <2>4, CleanFrame DEF MemInv
<1>6. CASE UNCHANGED where /\ loc' = [loc EXCEPT ![t] = [loc[t] EXCEPT !.list = @ \ {a}, !.left = @ \cup {a}]]
  <2>1. loc'[t].list = loc[t].list \ {a} /\ loc'[t].left = loc[t].left \cup {a}
    BY <1>0, <1>4, <1>6 DEF Locals
  <2>2. loc'[t].list \cup loc'[t].left = loc[t].list \cup loc[t].left /\ loc'[t].list \cap loc'[t].left = {}
    BY <1>2, <2>1 DEF MemInv, ListInv
  <2>3. \A u \in Threads : loc'[u].list \cup loc'[u].left = loc[u].list \cup loc[u].left
                             /\ loc'[u].list \cap loc'[u].left = {}
    BY <1>3, <2>2 DEF MemInv, ListInv
  <2>4. ListInv'
    BY <1>1, <1>6, <2>3 DEF MemInv, ListInv
  <2> QED
    BY <1>1, <1>3, <1>6, <2>4, CleanFrame DEF MemInv
<1> QED
  BY <1>2, <1>5, <1>6

LEMMA NextCleanSplice == ASSUME IInv, MemInv, NEW t \in Threads, CleanSplice(t) PROVE MemInv'
<1>0. /\ pc \in [Threads -> Labels] /\ loc \in [Threads -> Locals]
      /\ \A u \in Threads : loc[u].list \subseteq Allocations /\ loc[u].left \subseteq Allocations
  BY LocalsType DEF IInv, TypeOK
<1>1. /\ pc[t] = "c_free" /\ pc' = [pc EXCEPT ![t] = "idle"] /\ loc[t].list = {}
      /\ UNCHANGED <<todo, submitted, cmdBuffers, executed, stream, buffers, taskCount, destroyed, lastTask>>
      /\ loc' = [loc EXCEPT ![t] = NoLocals]
      /\ where' = [a \in Allocations |-> IF a \in loc[t].left THEN "temporary" ELSE where[a]]
  BY DEF CleanSplice, Goto, SetLocals, countVars, batchVars, gpuVars
<1>2. /\ pc'[t] = "idle" /\ \A u \in Threads \ {t} : pc'[u] = pc[u] /\ loc'[u] = loc[u]
      /\ loc'[t].call = None /\ loc'[t].list = {}
  BY <1>0, <1>1 DEF NoLocals
<1>3. \A a \in loc[t].left : a \in Allocations /\ where[a] = "detached" /\ where'[a] = "temporary"
  BY <1>0, <1>1 DEF MemInv, ListInv
<1>4. \A a \in Allocations : a \notin loc[t].left => where'[a] = where[a]
  BY <1>1
<1>5. ListInv'
  <2>1. \A u \in Threads : loc'[u].list \cap loc'[u].left = {}
    BY <1>2 DEF MemInv, ListInv
  <2>2. \A u \in Threads : pc'[u] = "c_free" => \A a \in loc'[u].list \cup loc'[u].left :
          /\ where'[a] = "detached"
          /\ \A v \in Threads : v # u /\ pc'[v] = "c_free" => a \notin loc'[v].list \cup loc'[v].left
    BY <1>0, <1>1, <1>2, <1>4 DEF MemInv, ListInv
  <2>3. \A a \in Allocations : where'[a] = "detached" =>
          \E u \in Threads : pc'[u] = "c_free" /\ a \in loc'[u].list \cup loc'[u].left
    BY <1>1, <1>2, <1>3, <1>4 DEF MemInv, ListInv
  <2> QED
    BY <2>1, <2>2, <2>3 DEF ListInv
<1>6. \A a \in Allocations : where'[a] = where[a] \/ {where[a], where'[a]} = {"temporary", "detached"}
  BY <1>3, <1>4
<1> QED
  BY <1>1, <1>2, <1>5, <1>6, CleanFrame DEF MemInv

----------------------------------------------------------------------------
(* A memory object is released.                                             *)

\* Nobody who is about to submit a task has the memory object of a release.
LEMMA ReleasedIsIdle ==
  ASSUME IInv, MemInv, NEW t \in Threads, NEW a \in buffers, NEW u \in Threads, ~WillUse(u, a)
  PROVE  /\ ~HasOwn(u, a) /\ \A s \in Streams : stream[s] # a
         /\ pc[u] = "e_submit" => a \notin SurfacesOf(u)
         /\ loc[u].call # None => a \notin loc[u].call.uses
         /\ \A i \in DOMAIN todo[u] : todo[u][i].op = "enqueue" => a \notin todo[u][i].on.uses
<1>1. a \in Allocations /\ None \notin Allocations
  BY CsrAssumption DEF IInv, TypeOK
<1>2. ~HasOwn(u, a) /\ \A s \in Streams : stream[s] # a
  BY <1>1 DEF MemInv, OwnInv, StreamInv
<1>3. /\ loc[u].call # None => a \notin loc[u].call.uses
      /\ \A i \in DOMAIN todo[u] : todo[u][i].op = "enqueue" => a \notin todo[u][i].on.uses
  BY DEF WillUse
<1>4. ASSUME pc[u] = "e_submit" PROVE a \notin SurfacesOf(u)
  <2>1. loc[u].call # None
    BY <1>4, SurfacesType, CsrAssumption DEF IInv
  <2> QED
    BY <1>2, <1>3, <1>4, <2>1 DEF SurfacesOf, HasOwn, Streams
<1> QED
  BY <1>2, <1>3, <1>4

LEMMA NextRelease ==
  ASSUME IInv, MemInv, NEW t \in Threads, checkGpuUsageAndDestroyGraphicsAllocations(t)
  PROVE  MemInv'
<1>0. /\ pc \in [Threads -> Labels] /\ loc \in [Threads -> Locals] /\ OwnershipInv /\ DestroyInv
      /\ todo \in [Threads -> Seq(Call)] /\ where \in [Allocations -> Places]
      /\ lastTask \in [Allocations -> 0..NotUsed] /\ executed \in Nat /\ tag \in Nat
      /\ eventNotReady \in Nat /\ None \notin Allocations /\ buffers \subseteq Allocations
  BY CsrAssumption DEF IInv, TypeOK, ControlInv
<1>1. /\ pc[t] = "idle" /\ pc' = [pc EXCEPT ![t] = "idle"] /\ todo[t] # <<>>
      /\ UNCHANGED <<submitted, cmdBuffers, executed, stream, taskCount, destroyed, lastTask>>
      /\ loc' = [loc EXCEPT ![t] = NoLocals] /\ todo' = [todo EXCEPT ![t] = Tail(@)]
  BY DEF checkGpuUsageAndDestroyGraphicsAllocations, Calls, Start, countVars, batchVars, gpuVars
<1>2. PICK a \in buffers :
        /\ \A u \in Threads : ~WillUse(u, a)
        /\ buffers' = buffers \ {a}
        /\ where' = [where EXCEPT ![a] =
                       IF lastTask[a] # NotUsed /\ lastTask[a] > tag THEN "temporary" ELSE "free"]
  BY DEF checkGpuUsageAndDestroyGraphicsAllocations
<1>3. /\ pc' = pc /\ \A u \in Threads \ {t} : loc'[u] = loc[u]
      /\ loc[t].call = None /\ loc'[t].call = None /\ loc'[t].list = {} /\ ~destroyed
  BY <1>0, <1>1 DEF NoLocals, OwnershipInv, EnqueueLabels, InBatch, DestroyInv
<1>4. \A u \in Threads, b \in Allocations : HasOwn(u, b)' <=> HasOwn(u, b)
  BY <1>3 DEF HasOwn
<1>5. /\ a \in Allocations /\ where[a] = "held" /\ \A b \in Allocations : b # a => where'[b] = where[b]
      /\ where'[a] \in {"temporary", "free"} /\ (where'[a] = "free" => ~(lastTask[a] # NotUsed /\ lastTask[a] > tag))
  BY <1>0, <1>2 DEF MemInv, BufferInv
<1>6. /\ \A u \in Threads : ~HasOwn(u, a) /\ (pc[u] = "e_submit" => a \notin SurfacesOf(u))
      /\ \A u \in Threads : loc[u].call # None => a \notin loc[u].call.uses
      /\ \A u \in Threads : \A i \in DOMAIN todo[u] : todo[u][i].op = "enqueue" => a \notin todo[u][i].on.uses
      /\ \A s \in Streams : stream[s] # a
  BY <1>2, ReleasedIsIdle
<1>7. \A b \in Allocations : Uses(b)' \subseteq Uses(b)
  BY <1>0, <1>1, UsesShrink DEF IInv
<1>8. StreamInv'
  <2>1. \A s \in Streams : stream[s] # None => stream[s] \in Allocations
    BY DEF IInv, TypeOK
  <2> QED
    BY <1>1, <1>2, <1>5, <1>6, <2>1 DEF MemInv, StreamInv
<1>9. BufferInv'
  <2>1. \A b \in buffers' : where'[b] = "held"
    BY <1>0, <1>2, <1>5 DEF MemInv, BufferInv
  <2>2. \A u \in Threads : loc'[u].call # None /\ pc'[u] # "e_store" => loc'[u].call.uses \subseteq buffers'
    BY <1>2, <1>3, <1>6 DEF MemInv, BufferInv
  <2>3. \A u \in Threads : \A i \in DOMAIN todo[u] : todo[u][i].op = "enqueue" => todo[u][i].on.uses \subseteq buffers'
    BY <1>2, <1>6 DEF MemInv, BufferInv
  <2>4. \A i \in DOMAIN todo'[t] : i + 1 \in DOMAIN todo[t] /\ todo'[t][i] = todo[t][i + 1]
    <3>1. PICK q \in Seq(Call) : q = todo[t]
      BY <1>0
    <3>2. q # <<>> /\ todo'[t] = Tail(q)
      BY <1>0, <1>1, <3>1
    <3>3. \A i \in DOMAIN Tail(q) : i + 1 \in DOMAIN q /\ Tail(q)[i] = q[i + 1]
      BY <3>1, <3>2
    <3> QED
      BY <3>1, <3>2, <3>3
  <2>5. \A u \in Threads \ {t} : todo'[u] = todo[u]
    BY <1>0, <1>1
  <2> QED
    BY <2>1, <2>2, <2>3, <2>4, <2>5 DEF BufferInv
<1>10. OwnInv'
  <2>1. \A u \in Threads : loc'[u].call # None => (loc'[u].mine = None <=> loc'[u].call.memory = "none")
    BY <1>3 DEF MemInv, OwnInv
  <2> SUFFICES ASSUME NEW u \in Threads, NEW b \in Allocations, HasOwn(u, b)
               PROVE  /\ b \notin buffers' /\ \A s \in Streams : stream[s] # b
                      /\ \A v \in Threads : v # u => ~HasOwn(v, b)
                      /\ loc'[u].call.memory # "hostPtr" => where'[b] = "held"
                      /\ loc'[u].call.memory = "hostPtr" =>
                           /\ where'[b] \in {"temporary", "detached"}
                           /\ pc[u] \in {"e_lock", "e_resident"} => lastTask[b] = eventNotReady
                           /\ pc[u] \notin {"e_lock", "e_resident"} => lastTask[b] = taskCount + 1
    BY <1>1, <1>3, <1>4, <2>1 DEF OwnInv
  <2>2. u # t /\ loc'[u] = loc[u] /\ b # a /\ where'[b] = where[b]
    BY <1>3, <1>5, <1>6 DEF HasOwn
  <2> QED
    BY <1>2, <2>2 DEF MemInv, OwnInv
<1>11. HeldInv'
  <2> SUFFICES ASSUME NEW b \in Allocations, where'[b] = "held"
               PROVE  \/ b \in buffers'
                      \/ \E s \in Streams : stream[s] = b
                      \/ \E u \in Threads : HasOwn(u, b)
    BY <1>1, <1>4 DEF HeldInv
  <2>1. b # a /\ where[b] = "held"
    BY <1>5
  <2> QED
    BY <1>2, <2>1 DEF MemInv, HeldInv
<1>12. ListInv'
  <2>1. \A u \in Threads : loc[u].list \subseteq Allocations /\ loc[u].left \subseteq Allocations
    BY <1>0, LocalsType
  <2>2. \A u \in Threads : pc'[u] = "c_free" => loc'[u] = loc[u]
    BY <1>1, <1>3
  <2>3. \A b \in Allocations : where'[b] = "detached" <=> where[b] = "detached"
    BY <1>5
  <2>4. \A u \in Threads : loc'[u].list \cap loc'[u].left = {}
    BY <1>3 DEF MemInv, ListInv
  <2> QED
    BY <1>3, <2>1, <2>2, <2>3, <2>4 DEF MemInv, ListInv
<1>13. UseInv'
  <2> SUFFICES ASSUME NEW b \in Allocations, NEW m \in Uses(b)
               PROVE  /\ where'[b] # "free"
                      /\ (\A s \in Streams : stream[s] # b) => m <= lastTask[b] /\ lastTask[b] < eventNotReady
                      /\ \A u \in Threads : pc[u] = "e_store" /\ HasOwn(u, b) => m <= taskCount
    BY <1>1, <1>3, <1>4, <1>7 DEF UseInv
  <2>1. where'[b] # "free"
    <3>1. CASE b # a
      BY <1>5, <3>1 DEF MemInv, UseInv
    <3>2. CASE b = a
      <4>1. m \in Nat /\ tag < m /\ m <= lastTask[a] /\ lastTask[a] < eventNotReady /\ lastTask[a] \in Nat
        BY <1>0, <1>5, <1>6, <3>2, UsesBound DEF MemInv, UseInv
      <4>2. lastTask[a] # NotUsed /\ lastTask[a] > tag
        BY <1>0, <4>1 DEF NotUsed
      <4> QED
        BY <1>5, <3>2, <4>2
    <3> QED
      BY <3>1, <3>2
  <2> QED
    BY <2>1 DEF MemInv, UseInv
<1>14. SurfaceInv'
  <2>1. \A u \in Threads : pc'[u] = "e_submit" => pc[u] = "e_submit" /\ SurfacesOf(u)' = SurfacesOf(u)
    BY <1>1, <1>3 DEF SurfacesOf
  <2> QED
    BY <1>1, <2>1 DEF MemInv, SurfaceInv
<1>15. EndInv'
  BY <1>1, <1>3 DEF MemInv, EndInv, NothingLeftWhenDestroyed, Destroyed
<1> QED
  BY <1>8, <1>9, <1>10, <1>11, <1>12, <1>13, <1>14, <1>15 DEF MemInv

----------------------------------------------------------------------------
(* Memory is taken.                                                         *)

\* Memory that is free, or reusable with a task count the tag has passed, is
\* nobody's.
LEMMA TakenIsIdle ==
  ASSUME IInv, MemInv, NEW a \in Allocations,
         where[a] = "free" \/ (where[a] = "reusable" /\ tag >= lastTask[a])
  PROVE  /\ Uses(a) = {} /\ a \notin buffers /\ \A s \in Streams : stream[s] # a
         /\ \A u \in Threads : ~HasOwn(u, a) /\ (pc[u] = "e_submit" => a \notin SurfacesOf(u))
<1>0. None \notin Allocations /\ lastTask[a] \in Nat /\ tag \in Nat
  BY CsrAssumption DEF IInv, TypeOK
<1>1. a \notin buffers /\ (\A s \in Streams : stream[s] # a) /\ \A u \in Threads : ~HasOwn(u, a)
  BY <1>0 DEF MemInv, StreamInv, BufferInv, OwnInv
<1>2. ASSUME NEW m \in Uses(a) PROVE FALSE
  <2>1. m \in Nat /\ tag < m
    BY UsesBound
  <2>2. where[a] # "free" /\ m <= lastTask[a]
    BY <1>1 DEF MemInv, UseInv
  <2> QED
    BY <1>0, <2>1, <2>2
<1>3. ASSUME NEW u \in Threads, pc[u] = "e_submit" PROVE a \notin SurfacesOf(u)
  BY <1>1, <1>3, SurfacesOwned
<1> QED
  BY <1>1, <1>2, <1>3

LEMMA NextBeginEnqueue == ASSUME IInv, MemInv, NEW t \in Threads, BeginEnqueue(t) PROVE MemInv'
<1>0. /\ pc \in [Threads -> Labels] /\ loc \in [Threads -> Locals] /\ OwnershipInv /\ DestroyInv
      /\ todo \in [Threads -> Seq(Call)] /\ where \in [Allocations -> Places]
      /\ lastTask \in [Allocations -> 0..NotUsed] /\ executed \in Nat /\ tag \in Nat
      /\ None \notin Allocations
  BY CsrAssumption DEF IInv, TypeOK, ControlInv
<1>1. /\ pc[t] = "idle" /\ todo[t] # <<>> /\ Head(todo[t]).op = "enqueue"
      /\ UNCHANGED <<submitted, cmdBuffers, executed, stream, buffers, taskCount, destroyed>>
  BY DEF BeginEnqueue, Calls, countVars, batchVars, gpuVars
<1>2. PICK d \in Dispatch : d = Argument(t) /\ d # None
  BY <1>1, CallType, CsrAssumption DEF IInv
<1>3. PICK a \in Allocations \cup {None} :
        /\ Start(t, "e_lock", [NoLocals EXCEPT !.call = d, !.mine = a])
        /\ \/ d.memory = "none" /\ a = None /\ UNCHANGED <<where, lastTask>>
           \/ /\ d.memory = "hostPtr" /\ a \in Allocations /\ where[a] = "free"
              /\ where' = [where EXCEPT ![a] = "temporary"]
              /\ lastTask' = [lastTask EXCEPT ![a] = eventNotReady]
           \/ /\ d.memory \notin {"none", "hostPtr"} /\ a \in Allocations
              /\ where[a] = "reusable" /\ tag >= lastTask[a]
              /\ where' = [where EXCEPT ![a] = "held"] /\ UNCHANGED lastTask
           \/ /\ d.memory \notin {"none", "hostPtr"} /\ a \in Allocations /\ where[a] = "free"
              /\ where' = [where EXCEPT ![a] = "held"]
              /\ lastTask' = [lastTask EXCEPT ![a] = NotUsed]
  BY <1>2, FreshIsFree DEF BeginEnqueue, allocate, allocVars, Reusable, HostPtrTaskCount
<1>4. /\ pc'[t] = "e_lock" /\ \A u \in Threads \ {t} : pc'[u] = pc[u] /\ loc'[u] = loc[u] /\ todo'[u] = todo[u]
      /\ loc'[t].call = d /\ loc'[t].mine = a /\ loc'[t].list = {} /\ loc'[t].left = {}
      /\ todo'[t] = Tail(todo[t])
  <2>1. PICK x : x = [NoLocals EXCEPT !.call = d, !.mine = a]
    OBVIOUS
  <2>2. x.call = d /\ x.mine = a /\ x.list = {} /\ x.left = {}
    BY <2>1 DEF NoLocals
  <2>3. pc' = [pc EXCEPT ![t] = "e_lock"] /\ loc' = [loc EXCEPT ![t] = x] /\ todo' = [todo EXCEPT ![t] = Tail(@)]
    BY <1>3, <2>1 DEF Start
  <2> QED
    BY <1>0, <2>2, <2>3
<1>5. loc[t].call = None /\ ~destroyed
  BY <1>0, <1>1 DEF OwnershipInv, EnqueueLabels, InBatch, DestroyInv
<1>6. /\ a = None <=> d.memory = "none"
      /\ \A b \in Allocations : b # a => where'[b] = where[b] /\ lastTask'[b] = lastTask[b]
      /\ a \in Allocations => \/ d.memory # "hostPtr" /\ where'[a] = "held"
                              \/ d.memory = "hostPtr" /\ where'[a] = "temporary" /\ lastTask'[a] = eventNotReady
      /\ a \in Allocations => where[a] = "free" \/ (where[a] = "reusable" /\ tag >= lastTask[a])
  <2>1. CASE d.memory = "none"
    BY <1>0, <1>3, <2>1
  <2>2. CASE d.memory = "hostPtr"
    BY <1>0, <1>3, <2>2
  <2>3. CASE d.memory \notin {"none", "hostPtr"}
    BY <1>0, <1>3, <2>3
  <2> QED
    BY <2>1, <2>2, <2>3
<1>7. a \in Allocations =>
        /\ Uses(a) = {} /\ a \notin buffers /\ \A s \in Streams : stream[s] # a
        /\ \A u \in Threads : ~HasOwn(u, a) /\ (pc[u] = "e_submit" => a \notin SurfacesOf(u))
  BY <1>6, TakenIsIdle
<1>8. \A u \in Threads, b \in Allocations : HasOwn(u, b)' <=> IF u = t THEN b = a ELSE HasOwn(u, b)
  BY <1>2, <1>4 DEF HasOwn
<1>9. \A b \in Allocations : Uses(b)' \subseteq Uses(b)
  BY <1>0, <1>1, UsesShrink DEF IInv
<1>10. StreamInv'
  <2>1. \A s \in Streams : stream[s] # None => stream[s] \in Allocations
    BY DEF IInv, TypeOK
  <2> QED
    BY <1>1, <1>6, <1>7, <2>1 DEF MemInv, StreamInv
<1>11. BufferInv'
  <2>1. \A b \in buffers : b \in Allocations
    BY CsrAssumption DEF IInv, TypeOK
  <2>2. \A b \in buffers : where'[b] = "held"
    BY <1>6, <1>7, <2>1 DEF MemInv, BufferInv
  <2>3. PICK q \in Seq(Call) : q = todo[t]
    BY <1>0
  <2>4. /\ q # <<>> /\ Head(q) = q[1] /\ 1 \in DOMAIN q
        /\ \A i \in DOMAIN Tail(q) : i + 1 \in DOMAIN q /\ Tail(q)[i] = q[i + 1]
    BY <1>1, <2>3
  <2>5. d.uses \subseteq buffers
    BY <1>1, <1>2, <2>3, <2>4 DEF MemInv, BufferInv, Argument
  <2>6. \A i \in DOMAIN q : q[i].op = "enqueue" => q[i].on.uses \subseteq buffers
    BY <2>3 DEF MemInv, BufferInv
  <2>7. \A u \in Threads : \A i \in DOMAIN todo'[u] : todo'[u][i].op = "enqueue" => todo'[u][i].on.uses \subseteq buffers
    <3>1. \A i \in DOMAIN todo'[t] : todo'[t][i].op = "enqueue" => todo'[t][i].on.uses \subseteq buffers
      BY <1>4, <2>3, <2>4, <2>6
    <3> QED
      BY <1>4, <3>1 DEF MemInv, BufferInv
  <2>8. \A u \in Threads : loc'[u].call # None /\ pc'[u] # "e_store" => loc'[u].call.uses \subseteq buffers
    BY <1>4, <2>5 DEF MemInv, BufferInv
  <2> QED
    BY <1>1, <2>2, <2>7, <2>8 DEF BufferInv
<1>12. OwnInv'
  <2>1. \A u \in Threads : loc'[u].call # None => (loc'[u].mine = None <=> loc'[u].call.memory = "none")
    BY <1>4, <1>6 DEF MemInv, OwnInv
  <2>2. ASSUME NEW u \in Threads, NEW b \in Allocations, HasOwn(u, b)'
        PROVE  /\ b \notin buffers /\ \A s \in Streams : stream[s] # b
               /\ \A v \in Threads : v # u => ~HasOwn(v, b)'
               /\ loc'[u].call.memory # "hostPtr" => where'[b] = "held"
               /\ loc'[u].call.memory = "hostPtr" =>
                    /\ where'[b] \in {"temporary", "detached"}
                    /\ pc'[u] \in {"e_lock", "e_resident"} => lastTask'[b] = eventNotReady
                    /\ pc'[u] \notin {"e_lock", "e_resident"} => lastTask'[b] = taskCount + 1
    <3>1. CASE u = t
      <4>1. b = a
        BY <1>8, <2>2, <3>1
      <4> QED
        BY <1>4, <1>6, <1>7, <1>8, <3>1, <4>1
    <3>2. CASE u # t
      <4>1. HasOwn(u, b) /\ b # a /\ loc'[u] = loc[u] /\ pc'[u] = pc[u]
        BY <1>4, <1>7, <1>8, <2>2, <3>2
      <4>2. where'[b] = where[b] /\ lastTask'[b] = lastTask[b]
        BY <1>6, <4>1
      <4>3. \A v \in Threads : v # u => ~HasOwn(v, b)'
        BY <1>8, <4>1 DEF MemInv, OwnInv
      <4> QED
        BY <4>1, <4>2, <4>3 DEF MemInv, OwnInv
    <3> QED
      BY <3>1, <3>2
  <2> QED
    BY <1>1, <2>1, <2>2 DEF OwnInv
<1>13. HeldInv'
  <2> SUFFICES ASSUME NEW b \in Allocations, where'[b] = "held"
               PROVE  \/ b \in buffers
                      \/ \E s \in Streams : stream[s] = b
                      \/ \E u \in Threads : HasOwn(u, b)'
    BY <1>1 DEF HeldInv
  <2>1. CASE b = a
    BY <1>8, <2>1
  <2>2. CASE b # a
    <3>1. \A u \in Threads : HasOwn(u, b) => u # t
      BY <1>5 DEF HasOwn
    <3> QED
      BY <1>6, <1>8, <2>2, <3>1 DEF MemInv, HeldInv
  <2> QED
    BY <2>1, <2>2
<1>14. ListInv'
  <2>1. \A u \in Threads : loc[u].list \subseteq Allocations /\ loc[u].left \subseteq Allocations
    BY <1>0, LocalsType
  <2>2. \A u \in Threads : (pc'[u] = "c_free" <=> pc[u] = "c_free") /\ (pc[u] = "c_free" => loc'[u] = loc[u])
    BY <1>1, <1>4
  <2>3. \A b \in Allocations : where'[b] = "detached" <=> where[b] = "detached"
    BY <1>6
  <2>4. \A u \in Threads : loc'[u].list \cap loc'[u].left = {}
    BY <1>4 DEF MemInv, ListInv
  <2> QED
    BY <2>1, <2>2, <2>3, <2>4 DEF MemInv, ListInv
<1>15. UseInv'
  <2> SUFFICES ASSUME NEW b \in Allocations, NEW m \in Uses(b)
               PROVE  /\ where'[b] # "free"
                      /\ (\A s \in Streams : stream[s] # b) => m <= lastTask'[b] /\ lastTask'[b] < eventNotReady
                      /\ \A u \in Threads : pc'[u] = "e_store" /\ HasOwn(u, b)' => m <= taskCount
    BY <1>1, <1>9 DEF UseInv
  <2>1. b # a /\ where'[b] = where[b] /\ lastTask'[b] = lastTask[b]
    BY <1>6, <1>7
  <2>2. \A u \in Threads : pc'[u] = "e_store" /\ HasOwn(u, b)' => pc[u] = "e_store" /\ HasOwn(u, b)
    BY <1>4, <1>8
  <2> QED
    BY <2>1, <2>2 DEF MemInv, UseInv
<1>16. SurfaceInv'
  <2> SUFFICES ASSUME NEW u \in Threads, pc'[u] = "e_submit", NEW b \in SurfacesOf(u)'
               PROVE  lastTask'[b] = taskCount + 1
    BY <1>1 DEF SurfaceInv
  <2>1. u # t /\ pc[u] = "e_submit" /\ SurfacesOf(u)' = SurfacesOf(u)
    BY <1>1, <1>4 DEF SurfacesOf
  <2>2. b \in Allocations /\ b # a
    BY <1>7, <2>1, SurfacesType DEF IInv
  <2> QED
    BY <1>6, <2>1, <2>2 DEF MemInv, SurfaceInv
<1>17. EndInv'
  BY <1>1, <1>4, <1>5 DEF MemInv, EndInv, NothingLeftWhenDestroyed, Destroyed
<1> QED
  BY <1>10, <1>11, <1>12, <1>13, <1>14, <1>15, <1>16, <1>17 DEF MemInv

LEMMA NextReplaceStream ==
  ASSUME IInv, MemInv, NEW t \in Threads, EnqueueLock(t), NEW s \in Streams, ReplaceStream(s)
  PROVE  MemInv'
<1>0. /\ pc \in [Threads -> Labels] /\ loc \in [Threads -> Locals] /\ OwnershipInv /\ DestroyInv
      /\ where \in [Allocations -> Places] /\ stream \in [Streams -> Allocations \cup {None}]
      /\ lastTask \in [Allocations -> 0..NotUsed] /\ executed \in Nat /\ tag \in Nat /\ taskCount \in Nat
      /\ None \notin Allocations \cup Threads
  BY CsrAssumption DEF IInv, TypeOK, ControlInv
<1>1. /\ pc[t] = "e_lock" /\ pc' = [pc EXCEPT ![t] = "e_resident"] /\ ownershipMutex = None
      /\ UNCHANGED <<loc, todo, submitted, cmdBuffers, executed, buffers, taskCount, destroyed>>
  BY DEF EnqueueLock, Acquire, Goto, countVars, batchVars, gpuVars
<1>2. pc'[t] = "e_resident" /\ \A u \in Threads \ {t} : pc'[u] = pc[u]
  BY <1>0, <1>1
<1>3. ~destroyed /\ \A u \in Threads : pc[u] \notin Owning /\ ~Counting(u)
  BY <1>0, <1>1 DEF OwnershipInv, DestroyInv, Owning, InBatch, Counting
<1>4. PICK old \in Allocations : old = stream[s]
  BY <1>0, <1>3 DEF DestroyInv
<1>5. /\ where[old] = "held" /\ old \notin buffers /\ \A r \in Streams : stream[r] = old => r = s
      /\ \A u \in Threads : ~HasOwn(u, old)
  BY <1>0, <1>4 DEF MemInv, StreamInv, OwnInv
<1>6. PICK a \in Allocations :
        /\ stream' = [stream EXCEPT ![s] = a]
        /\ where' = [[where EXCEPT ![old] = "reusable"] EXCEPT ![a] = "held"]
        /\ \/ lastTask' = [lastTask EXCEPT ![old] = taskCount]
           \/ lastTask' = [[lastTask EXCEPT ![old] = taskCount] EXCEPT ![a] = NotUsed]
        /\ a # old => where[a] = "free" \/ (where[a] = "reusable" /\ tag >= lastTask[a])
  <2> DEFINE stored == [where EXCEPT ![old] = "reusable"]
             counted == [lastTask EXCEPT ![old] = taskCount]
  <2>1. \A b \in Allocations : b # old => stored[b] = where[b] /\ counted[b] = lastTask[b]
    BY <1>0
  <2>2. CASE \E b \in Allocations : /\ \/ stored[b] = "reusable" /\ tag >= counted[b]
                                       \/ where[b] = "reusable" /\ tag >= lastTask[b]
                                    /\ stream' = [stream EXCEPT ![s] = b]
                                    /\ where' = [stored EXCEPT ![b] = "held"] /\ lastTask' = counted
    BY <2>1, <2>2
  <2>3. CASE /\ Free # {} /\ stream' = [stream EXCEPT ![s] = Fresh]
             /\ where' = [stored EXCEPT ![Fresh] = "held"]
             /\ lastTask' = [counted EXCEPT ![Fresh] = NotUsed]
    BY <2>3, FreshIsFree
  <2> QED
    BY <1>4, <2>2, <2>3 DEF ReplaceStream, Reusable
<1>7. /\ where'[a] = "held" /\ (a # old => where'[old] = "reusable" /\ lastTask'[old] = taskCount)
      /\ \A b \in Allocations : b # a /\ b # old => where'[b] = where[b] /\ lastTask'[b] = lastTask[b]
      /\ stream'[s] = a /\ \A r \in Streams : r # s => stream'[r] = stream[r]
  BY <1>0, <1>6
<1>8. /\ a # old => Uses(a) = {}
      /\ a \notin buffers /\ \A r \in Streams : stream[r] = a => r = s
      /\ \A u \in Threads : ~HasOwn(u, a)
  BY <1>5, <1>6, TakenIsIdle
<1>9. \A u \in Threads, b \in Allocations : HasOwn(u, b)' <=> HasOwn(u, b)
  BY <1>1, <1>2 DEF HasOwn
<1>10. \A b \in Allocations : Uses(b)' \subseteq Uses(b) /\ \A m \in Uses(b) : m \in Nat /\ m <= taskCount
  BY <1>0, <1>1, <1>3, UsesShrink, UsesBound DEF IInv
<1>11. StreamInv'
  <2>1. \A r \in Streams : stream[r] # None => stream[r] \in Allocations
    BY <1>0
  <2>2. \A r \in Streams : r # s => stream'[r] # a /\ (stream'[r] # None => stream'[r] # old)
    BY <1>5, <1>7, <1>8
  <2> QED
    BY <1>1, <1>7, <1>8, <2>1, <2>2 DEF MemInv, StreamInv
<1>12. BufferInv'
  <2>1. \A b \in buffers : b \in Allocations /\ b # a /\ b # old
    BY <1>5, <1>8, CsrAssumption DEF IInv, TypeOK
  <2>2. \A b \in buffers : where'[b] = "held"
    BY <1>7, <2>1 DEF MemInv, BufferInv
  <2>3. \A u \in Threads : loc'[u].call # None /\ pc'[u] # "e_store" => loc'[u].call.uses \subseteq buffers
    BY <1>1, <1>2 DEF MemInv, BufferInv
  <2> QED
    BY <1>1, <2>2, <2>3 DEF MemInv, BufferInv
<1>13. OwnInv'
  <2>1. \A u \in Threads : loc'[u].call # None => (loc'[u].mine = None <=> loc'[u].call.memory = "none")
    BY <1>1 DEF MemInv, OwnInv
  <2> SUFFICES ASSUME NEW u \in Threads, NEW b \in Allocations, HasOwn(u, b)
               PROVE  /\ b \notin buffers /\ \A r \in Streams : stream'[r] # b
                      /\ \A v \in Threads : v # u => ~HasOwn(v, b)
                      /\ loc[u].call.memory # "hostPtr" => where'[b] = "held"
                      /\ loc[u].call.memory = "hostPtr" =>
                           /\ where'[b] \in {"temporary", "detached"}
                           /\ pc'[u] \in {"e_lock", "e_resident"} => lastTask'[b] = eventNotReady
                           /\ pc'[u] \notin {"e_lock", "e_resident"} => lastTask'[b] = taskCount + 1
    BY <1>1, <1>9, <2>1 DEF OwnInv
  <2>2. b # a /\ b # old
    BY <1>5, <1>8
  <2>3. where'[b] = where[b] /\ lastTask'[b] = lastTask[b]
    BY <1>7, <2>2
  <2>4. pc'[u] \in {"e_lock", "e_resident"} <=> pc[u] \in {"e_lock", "e_resident"}
    BY <1>1, <1>2
  <2>5. \A r \in Streams : stream'[r] # b
    BY <1>7, <2>2 DEF MemInv, OwnInv
  <2> QED
    BY <2>3, <2>4, <2>5 DEF MemInv, OwnInv
<1>14. HeldInv'
  <2> SUFFICES ASSUME NEW b \in Allocations, where'[b] = "held"
               PROVE  \/ b \in buffers
                      \/ \E r \in Streams : stream'[r] = b
                      \/ \E u \in Threads : HasOwn(u, b)
    BY <1>1, <1>9 DEF HeldInv
  <2>1. CASE b = a
    BY <1>7, <2>1
  <2>2. CASE b # a
    <3>1. b # old /\ where[b] = "held"
      BY <1>7, <2>2
    <3>2. \A r \in Streams : stream[r] = b => r # s
      BY <1>4, <3>1
    <3> QED
      BY <1>7, <3>1, <3>2 DEF MemInv, HeldInv
  <2> QED
    BY <2>1, <2>2
<1>15. ListInv'
  <2>1. \A u \in Threads : loc[u].list \subseteq Allocations /\ loc[u].left \subseteq Allocations
    BY <1>0, LocalsType
  <2>2. \A u \in Threads : pc'[u] = "c_free" <=> pc[u] = "c_free"
    BY <1>1, <1>2
  <2>3. \A b \in Allocations : where'[b] = "detached" <=> where[b] = "detached"
    BY <1>5, <1>6, <1>7
  <2> QED
    BY <1>1, <2>1, <2>2, <2>3 DEF MemInv, ListInv
<1>16. UseInv'
  <2>0. taskCount < eventNotReady
    BY DEF IInv, CountInv
  <2> SUFFICES ASSUME NEW b \in Allocations, NEW m \in Uses(b)
               PROVE  /\ where'[b] # "free"
                      /\ (\A r \in Streams : stream'[r] # b) => m <= lastTask'[b] /\ lastTask'[b] < eventNotReady
                      /\ \A u \in Threads : pc'[u] = "e_store" /\ HasOwn(u, b) => m <= taskCount
    BY <1>1, <1>9, <1>10 DEF UseInv
  <2>1. CASE b = a
    BY <1>7, <1>8, <1>10, <2>1
  <2>2. CASE b = old /\ b # a
    BY <1>7, <1>10, <2>0, <2>2
  <2>3. CASE b # a /\ b # old
    <3>1. (\A r \in Streams : stream'[r] # b) => \A r \in Streams : stream[r] # b
      BY <1>4, <1>7, <2>3
    <3> QED
      BY <1>2, <1>7, <1>10, <2>3, <3>1 DEF MemInv, UseInv
  <2> QED
    BY <2>1, <2>2, <2>3
<1>17. SurfaceInv'
  BY <1>2, <1>3 DEF SurfaceInv, Owning
<1>18. EndInv'
  BY <1>1, <1>2, <1>3 DEF MemInv, EndInv, NothingLeftWhenDestroyed, Destroyed, DestroyInv, IInv, ControlInv
<1> QED
  BY <1>11, <1>12, <1>13, <1>14, <1>15, <1>16, <1>17, <1>18 DEF MemInv

LEMMA NextEnqueueLock == ASSUME IInv, MemInv, NEW t \in Threads, EnqueueLock(t) PROVE MemInv'
<1>0. /\ pc \in [Threads -> Labels] /\ loc \in [Threads -> Locals] /\ OwnershipInv /\ executed \in Nat
  BY DEF IInv, TypeOK, ControlInv
<1>1. /\ pc[t] = "e_lock" /\ pc' = [pc EXCEPT ![t] = "e_resident"]
      /\ UNCHANGED <<loc, todo, submitted, cmdBuffers, executed, buffers, taskCount, destroyed>>
  BY DEF EnqueueLock, Goto, countVars, batchVars, gpuVars
<1>2. loc[t].call \in Dispatch
  BY <1>0, <1>1 DEF OwnershipInv, EnqueueLabels, Locals
<1>3. CASE loc[t].call.full = "none"
  <2>1. UNCHANGED <<stream, where, lastTask>>
    BY <1>3 DEF EnqueueLock, allocVars
  <2>2. SameCalls /\ SameLists /\ (Destroyed' => Destroyed)
    BY <1>0, <1>1 DEF SameCalls, SameLists, Destroyed, MemInv, ListInv
  <2>3. \A a \in Allocations : Uses(a)' \subseteq Uses(a)
    BY <1>0, <1>1, UsesShrink DEF IInv
  <2> QED
    BY <1>1, <2>1, <2>2, <2>3, MemFrame
<1>4. CASE loc[t].call.full # "none"
  <2>1. loc[t].call.full \in Streams /\ ReplaceStream(loc[t].call.full)
    BY <1>2, <1>4 DEF EnqueueLock, Dispatch
  <2> QED
    BY <2>1, NextReplaceStream
<1> QED
  BY <1>3, <1>4

----------------------------------------------------------------------------
(* The receiver is destroyed.                                               *)

\* A stream's allocation is stored with the last task count when no call is left.
LEMMA StoreStream ==
  ASSUME IInv, MemInv, NEW s \in Streams, stream[s] # None,
         \A u \in Threads : /\ loc[u].call = None /\ loc'[u].call = None /\ ~Counting(u)
                            /\ pc[u] # "c_free" /\ pc'[u] \notin {"c_free", "e_submit"}
                            /\ loc'[u].list \cap loc'[u].left = {},
         UNCHANGED <<todo, submitted, cmdBuffers, executed, buffers, taskCount>>,
         storeAllocation(stream[s], "reusable", taskCount), stream' = [stream EXCEPT ![s] = None]
  PROVE  StreamInv' /\ BufferInv' /\ OwnInv' /\ HeldInv' /\ ListInv' /\ UseInv' /\ SurfaceInv'
<1>0. /\ where \in [Allocations -> Places] /\ stream \in [Streams -> Allocations \cup {None}]
      /\ lastTask \in [Allocations -> 0..NotUsed] /\ executed \in Nat /\ taskCount \in Nat
      /\ buffers \subseteq Allocations /\ None \notin Allocations /\ taskCount < eventNotReady
  BY CsrAssumption DEF IInv, TypeOK, CountInv
<1>1. PICK a \in Allocations : a = stream[s]
  BY <1>0
<1>2. where' = [where EXCEPT ![a] = "reusable"] /\ lastTask' = [lastTask EXCEPT ![a] = taskCount]
  BY <1>1 DEF storeAllocation
<1>3. /\ where'[a] = "reusable" /\ lastTask'[a] = taskCount
      /\ \A b \in Allocations : b # a => where'[b] = where[b] /\ lastTask'[b] = lastTask[b]
      /\ stream'[s] = None /\ \A r \in Streams : r # s => stream'[r] = stream[r]
  BY <1>0, <1>2
<1>4. where[a] = "held" /\ a \notin buffers /\ \A r \in Streams : stream[r] = a => r = s
  BY <1>0, <1>1 DEF MemInv, StreamInv
<1>5. \A u \in Threads, b \in Allocations : ~HasOwn(u, b) /\ ~HasOwn(u, b)'
  BY DEF HasOwn
<1>6. \A b \in Allocations : Uses(b)' \subseteq Uses(b) /\ \A m \in Uses(b) : m \in Nat /\ m <= taskCount
  BY <1>0, UsesShrink, UsesBound DEF IInv
<1>7. StreamInv'
  <2>1. \A r \in Streams : stream'[r] # None => r # s /\ stream'[r] = stream[r] /\ stream[r] \in Allocations /\ stream[r] # a
    BY <1>0, <1>3, <1>4
  <2> QED
    BY <1>3, <2>1 DEF MemInv, StreamInv
<1>8. BufferInv'
  <2>1. \A b \in buffers : where'[b] = "held"
    BY <1>0, <1>3, <1>4 DEF MemInv, BufferInv
  <2> QED
    BY <2>1 DEF MemInv, BufferInv
<1>9. OwnInv'
  BY <1>5 DEF OwnInv
<1>10. HeldInv'
  <2> SUFFICES ASSUME NEW b \in Allocations, where'[b] = "held"
               PROVE  b \in buffers \/ \E r \in Streams : stream'[r] = b
    BY DEF HeldInv
  <2>1. b # a /\ where[b] = "held"
    BY <1>3
  <2>2. \A r \in Streams : stream[r] = b => r # s
    BY <1>1, <2>1
  <2> QED
    BY <1>3, <1>5, <2>1, <2>2 DEF MemInv, HeldInv
<1>11. ListInv'
  <2>1. \A b \in Allocations : where'[b] # "detached"
    BY <1>3 DEF MemInv, ListInv
  <2> QED
    BY <2>1 DEF ListInv
<1>12. UseInv'
  <2> SUFFICES ASSUME NEW b \in Allocations, NEW m \in Uses(b)
               PROVE  /\ where'[b] # "free"
                      /\ (\A r \in Streams : stream'[r] # b) => m <= lastTask'[b] /\ lastTask'[b] < eventNotReady
    BY <1>5, <1>6 DEF UseInv
  <2>1. CASE b = a
    BY <1>0, <1>3, <1>6, <2>1
  <2>2. CASE b # a
    <3>1. (\A r \in Streams : stream'[r] # b) => \A r \in Streams : stream[r] # b
      BY <1>1, <1>3, <2>2
    <3> QED
      BY <1>3, <2>2, <3>1 DEF MemInv, UseInv
  <2> QED
    BY <2>1, <2>2
<1>13. SurfaceInv'
  BY DEF SurfaceInv
<1> QED
  BY <1>7, <1>8, <1>9, <1>10, <1>11, <1>12, <1>13

LEMMA NextDestroy == ASSUME IInv, MemInv, NEW t \in Threads, Destroy(t) PROVE MemInv'
<1>0. /\ pc \in [Threads -> Labels] /\ loc \in [Threads -> Locals] /\ OwnershipInv /\ DestroyInv
      /\ stream \in [Streams -> Allocations \cup {None}] /\ executed \in Nat /\ tag \in Nat
      /\ where \in [Allocations -> Places] /\ None \notin Allocations
  BY CsrAssumption DEF IInv, TypeOK, ControlInv
<1>1. CASE DestroyDevice(t)
  <2>1. /\ \A u \in Threads : pc[u] = "idle"
        /\ ~destroyed /\ destroyed' /\ storeAllocation(stream["queue"], "reusable", taskCount)
        /\ stream' = [stream EXCEPT !["queue"] = None] /\ pc' = [pc EXCEPT ![t] = "fb_lock"]
        /\ loc' = [loc EXCEPT ![t] = [NoLocals EXCEPT !.ret = "d_store"]]
        /\ UNCHANGED <<todo, submitted, cmdBuffers, executed, buffers, taskCount>>
    BY <1>1 DEF DestroyDevice, Goto, SetLocals, countVars, batchVars, gpuVars
  <2>2. /\ pc'[t] = "fb_lock" /\ \A u \in Threads \ {t} : pc'[u] = pc[u] /\ loc'[u] = loc[u]
        /\ loc'[t].call = None /\ loc'[t].list = {}
    BY <1>0, <2>1 DEF NoLocals
  <2>3. \A u \in Threads : loc[u].call = None /\ loc[u].list = {} /\ ~Counting(u)
    BY <1>0, <2>1 DEF OwnershipInv, EnqueueLabels, InBatch, Counting
  <2>4. \A u \in Threads : /\ loc[u].call = None /\ loc'[u].call = None /\ ~Counting(u)
                           /\ pc[u] # "c_free" /\ pc'[u] \notin {"c_free", "e_submit", "d_clean"}
                           /\ loc'[u].list \cap loc'[u].left = {}
    BY <2>1, <2>2, <2>3
  <2>5. "queue" \in Streams /\ stream["queue"] # None
    BY <1>0, <2>1 DEF Streams, DestroyInv
  <2>6. StreamInv' /\ BufferInv' /\ OwnInv' /\ HeldInv' /\ ListInv' /\ UseInv' /\ SurfaceInv'
    BY <2>1, <2>4, <2>5, StoreStream
  <2>7. EndInv'
    BY <1>0, <2>1, <2>2, <2>4, <2>5 DEF EndInv, NothingLeftWhenDestroyed, Destroyed
  <2> QED
    BY <2>6, <2>7 DEF MemInv
<1>2. ASSUME pc[t] \in {"d_store", "d_clean"}
      PROVE  /\ destroyed /\ buffers = {} /\ \A u \in Threads \ {t} : pc[u] = "idle"
             /\ \A u \in Threads : loc[u].call = None /\ loc[u].list = {} /\ ~Counting(u)
  <2>1. destroyed /\ buffers = {} /\ \A u \in Threads \ {t} : pc[u] = "idle"
    BY <1>0, <1>2 DEF DestroyInv
  <2> QED
    BY <1>0, <1>2, <2>1 DEF OwnershipInv, EnqueueLabels, InBatch, Counting
<1>3. CASE DestroyStore(t)
  <2>1. /\ pc[t] = "d_store" /\ storeAllocation(stream["heap"], "reusable", taskCount)
        /\ stream' = [stream EXCEPT !["heap"] = None] /\ pc' = [pc EXCEPT ![t] = "d_clean"]
        /\ UNCHANGED <<loc, todo, submitted, cmdBuffers, executed, buffers, taskCount, destroyed>>
    BY <1>3 DEF DestroyStore, Goto, countVars, batchVars, gpuVars
  <2>2. pc'[t] = "d_clean" /\ \A u \in Threads \ {t} : pc'[u] = pc[u]
    BY <1>0, <2>1
  <2>3. \A u \in Threads : /\ loc[u].call = None /\ loc'[u].call = None /\ ~Counting(u)
                           /\ pc[u] # "c_free" /\ pc'[u] \notin {"c_free", "e_submit"}
                           /\ loc'[u].list \cap loc'[u].left = {}
    BY <1>2, <2>1, <2>2
  <2>4. "heap" \in Streams /\ "queue" \in Streams /\ stream["heap"] # None
    BY <1>0, <2>1 DEF Streams, DestroyInv
  <2>5. StreamInv' /\ BufferInv' /\ OwnInv' /\ HeldInv' /\ ListInv' /\ UseInv' /\ SurfaceInv'
    BY <2>1, <2>3, <2>4, StoreStream
  <2>6. EndInv'
    BY <1>0, <2>1, <2>2, <2>4 DEF MemInv, EndInv, NothingLeftWhenDestroyed, Destroyed
  <2> QED
    BY <2>5, <2>6 DEF MemInv
<1>4. CASE DestroyClean(t)
  <2>1. /\ pc[t] = "d_clean" /\ tag >= latestFlushedTaskCount
        /\ where' = [a \in Allocations |->
                       IF where[a] \in {"temporary", "reusable"} \/ a = stream["csr"]
                         THEN "free" ELSE where[a]]
        /\ stream' = [stream EXCEPT !["csr"] = None] /\ pc' = [pc EXCEPT ![t] = "idle"]
        /\ UNCHANGED <<loc, todo, submitted, cmdBuffers, executed, buffers, taskCount, destroyed, lastTask>>
    BY <1>4 DEF DestroyClean, Goto, countVars, batchVars, gpuVars
  <2>2. /\ destroyed /\ buffers = {} /\ \A u \in Threads : pc'[u] = "idle"
        /\ \A u \in Threads : loc[u].call = None /\ loc[u].list = {} /\ ~Counting(u) /\ pc[u] \in {"idle", "d_clean"}
    BY <1>0, <1>2, <2>1
  <2>3. stream["queue"] = None /\ stream["heap"] = None
    BY <2>1, <2>2 DEF MemInv, EndInv
  <2>4. \A s \in Streams : stream'[s] = None
    BY <1>0, <2>1, <2>3 DEF Streams
  <2>5. \A u \in Threads, a \in Allocations : ~HasOwn(u, a) /\ ~HasOwn(u, a)'
    BY <2>1, <2>2 DEF HasOwn
  <2>6. \A a \in Allocations : where'[a] = "free"
    <3> SUFFICES ASSUME NEW a \in Allocations, where'[a] # "free" PROVE FALSE
      OBVIOUS
    <3>1. where[a] \in {"held", "detached"} /\ a # stream["csr"]
      BY <1>0, <2>1 DEF Places
    <3>2. where[a] # "detached"
      BY <2>2 DEF MemInv, ListInv
    <3>3. \A s \in Streams : stream[s] # a
      BY <1>0, <2>3, <3>1 DEF Streams
    <3> QED
      BY <2>2, <2>5, <3>1, <3>2, <3>3 DEF MemInv, HeldInv
  <2>7. \A a \in Allocations : Uses(a)' = {}
    <3>1. cmdBuffers = <<>> /\ latestFlushedTaskCount = Len(submitted) /\ executed <= Len(submitted) /\ tag <= executed
      BY <2>1, <2>2 DEF IInv, CountInv, TaskCountsAreHonest
    <3>2. submitted \in Seq(Task)
      BY DEF IInv, TypeOK
    <3>3. PICK l \in Nat : l = Len(submitted)
      BY <3>2
    <3>4. executed = l /\ Len(cmdBuffers) = 0
      BY <1>0, <2>1, <3>1, <3>3
    <3>5. \A a \in Allocations : \A m \in Uses(a) : m \in Nat /\ executed < m /\ m <= Len(submitted) + Len(cmdBuffers)
      BY UsesBound
    <3>6. \A a \in Allocations : \A m \in Uses(a) : FALSE
      BY <1>0, <3>3, <3>4, <3>5
    <3>7. \A a \in Allocations : Uses(a)' \subseteq Uses(a)
      BY <1>0, <2>1, UsesShrink DEF IInv
    <3> QED
      BY <3>6, <3>7
  <2>8. StreamInv'
    BY <2>4 DEF StreamInv
  <2>9. BufferInv'
    BY <2>1, <2>2 DEF MemInv, BufferInv
  <2>10. OwnInv'
    BY <2>1, <2>2, <2>5 DEF OwnInv
  <2>11. HeldInv' /\ ListInv'
    BY <2>1, <2>2, <2>6 DEF HeldInv, ListInv
  <2>12. UseInv' /\ SurfaceInv'
    BY <2>2, <2>7 DEF UseInv, SurfaceInv
  <2>13. EndInv'
    BY <2>1, <2>2, <2>4, <2>6 DEF EndInv, NothingLeftWhenDestroyed, Destroyed, Streams
  <2> QED
    BY <2>8, <2>9, <2>10, <2>11, <2>12, <2>13 DEF MemInv
<1> QED
  BY <1>1, <1>3, <1>4 DEF Destroy

----------------------------------------------------------------------------
(* The theorems.                                                            *)

LEMMA InitMem == Init => MemInv
<1> SUFFICES ASSUME Init PROVE MemInv
  OBVIOUS
<1>1. stream \in [Streams -> Allocations \ Buffers] /\ IsInjective(stream)
  BY CsrAssumption DEF Init
<1>2. /\ \A t \in Threads : pc[t] = "idle" /\ loc[t] = NoLocals
      /\ buffers = Buffers /\ Buffers \subseteq Allocations /\ submitted = <<>> /\ cmdBuffers = <<>> /\ executed = 0
      /\ where = [a \in Allocations |-> IF a \in Buffers \cup Range(stream) THEN "held" ELSE "free"]
      /\ destroyed = FALSE /\ todo \in [Threads -> Seq(Call)]
  BY CsrAssumption DEF Init
<1>3. \A t \in Threads : loc[t].call = None /\ loc[t].list = {}
  BY <1>2 DEF NoLocals
<1>4. \A r \in Streams : stream[r] \in Allocations \ Buffers /\ stream[r] \in Range(stream)
  BY <1>1 DEF Range
<1>5. \A a \in Allocations : Uses(a) = {}
  <2>1. DOMAIN cmdBuffers = {} /\ executed + 1..Len(submitted) = {}
    BY <1>2
  <2> QED
    BY <2>1 DEF Uses
<1>6. StreamInv
  BY <1>1, <1>2, <1>4 DEF StreamInv, IsInjective
<1>7. BufferInv
  <2>1. \A t \in Threads : \A i \in DOMAIN todo[t] : todo[t][i] \in Call
    BY <1>2
  <2>2. \A c \in Call : c.op = "enqueue" => c.on.uses \subseteq Buffers
    BY DEF Call, Dispatch
  <2> QED
    BY <1>2, <1>3, <2>1, <2>2 DEF BufferInv
<1>8. OwnInv
  BY <1>3 DEF OwnInv, HasOwn
<1>9. HeldInv
  BY <1>1, <1>2 DEF HeldInv, Range
<1>10. ListInv
  BY <1>2, <1>3 DEF ListInv
<1>11. UseInv /\ SurfaceInv
  BY <1>2, <1>5 DEF UseInv, SurfaceInv
<1>12. EndInv
  BY <1>2 DEF EndInv, NothingLeftWhenDestroyed, Destroyed
<1> QED
  BY <1>6, <1>7, <1>8, <1>9, <1>10, <1>11, <1>12 DEF MemInv

LEMMA NextMem == IInv /\ MemInv /\ [Next]_vars => MemInv'
<1> SUFFICES ASSUME IInv, MemInv, [Next]_vars PROVE MemInv'
  OBVIOUS
<1>1. ASSUME NEW t \in Threads, Step(t) PROVE MemInv'
  <2>1. CASE enqueueHandler(t)
    BY <2>1, NextBeginEnqueue, NextEnqueueLock, NextMakeResident, NextSubmitTask, NextCountTask,
       NextEndEnqueue, NextQuiet DEF enqueueHandler, QuietAction
  <2>2. CASE flushBatchedSubmissions(t)
    BY <2>2, NextQuiet DEF QuietAction
  <2>3. CASE wait(t)
    BY <2>3, NextQuiet, NextCleanDetach, NextCleanOne, NextCleanSplice DEF wait, QuietAction
  <2> QED
    BY <1>1, <2>1, <2>2, <2>3, NextDestroy DEF Step
<1>2. ASSUME NEW t \in Threads, Invoke(t) PROVE MemInv'
  BY <1>2, NextQuiet, NextRelease DEF Invoke, QuietAction
<1> QED
  BY <1>1, <1>2, NextGpu, NextStutter DEF Next, Spin

LEMMA MemHolds == Spec => [](IInv /\ MemInv)
<1>1. Init => IInv /\ MemInv
  BY InitInv, InitMem
<1>2. IInv /\ MemInv /\ [Next]_vars => (IInv /\ MemInv)'
  BY NextType, NextControl, NextCount, NextResidency, NextMem DEF IInv
<1> QED
  BY <1>1, <1>2, PTL DEF Spec

\* Memory that no pending task accesses and no call has is not in use.
LEMMA NotInUse ==
  ASSUME NEW a \in Allocations, Uses(a) = {}, \A u \in Threads : ~HasOwn(u, a)
  PROVE  a \notin InUse
<1>1. \A i \in executed + 1..Len(submitted) : a \notin submitted[i].accesses
  BY DEF Uses
<1>2. \A i \in DOMAIN cmdBuffers : a \notin cmdBuffers[i].accesses
  BY DEF Uses
<1>3. \A u \in Threads : loc[u].call # None /\ pc[u] # "e_store" => loc[u].mine # a
  BY DEF HasOwn
<1> DEFINE A == UNION {submitted[i].accesses : i \in executed + 1..Len(submitted)}
           B == UNION {cmdBuffers[i].accesses : i \in DOMAIN cmdBuffers}
           C == {loc[t].mine : t \in {u \in Threads : loc[u].call # None /\ pc[u] # "e_store"}}
<1>4. a \notin A /\ a \notin B /\ a \notin C
  BY <1>1, <1>2, <1>3
<1>5. InUse = A \cup B \cup C
  BY DEF InUse
<1> HIDE DEF A, B, C
<1> QED
  BY <1>4, <1>5

LEMMA FreedIsIdle ==
  ASSUME MemInv', UNCHANGED <<submitted, cmdBuffers, executed>>, NEW a \in Allocations, where'[a] = "free",
         \A u \in Threads : HasOwn(u, a) => HasOwn(u, a)'
  PROVE  a \notin InUse
<1>1. Uses(a)' = {} /\ \A u \in Threads : ~HasOwn(u, a)'
  BY DEF MemInv, UseInv, OwnInv
<1>2. Uses(a)' = Uses(a)
  BY DEF Uses
<1> QED
  BY <1>1, <1>2, NotInUse

\* A step that frees memory or hands it out again
Recycled(a) == \/ where[a] # "free" /\ where'[a] = "free"
               \/ where[a] = "reusable" /\ where'[a] = "held"

LEMMA NextIdle ==
  ASSUME IInv, MemInv, MemInv', [Next]_vars, NEW a \in Allocations, Recycled(a)
  PROVE  a \notin InUse
<1> USE DEF countVars, batchVars, allocVars, residencyVars, gpuVars, threadVars
<1>0. /\ pc \in [Threads -> Labels] /\ loc \in [Threads -> Locals] /\ OwnershipInv /\ DestroyInv
      /\ where \in [Allocations -> Places] /\ stream \in [Streams -> Allocations \cup {None}]
      /\ lastTask \in [Allocations -> 0..NotUsed] /\ None \notin Allocations /\ where'[a] # where[a]
  BY CsrAssumption DEF IInv, TypeOK, ControlInv, Recycled
<1>1. ASSUME where[a] = "free" \/ (where[a] = "reusable" /\ tag >= lastTask[a])
      PROVE  a \notin InUse
  BY <1>1, TakenIsIdle, NotInUse
<1>2. ASSUME NEW t \in Threads, BeginEnqueue(t) PROVE a \notin InUse
  <2>1. PICK b : /\ \/ where' = where
                    \/ where' = [where EXCEPT ![b] = "temporary"]
                    \/ where' = [where EXCEPT ![b] = "held"]
                 /\ where[b] = "free" \/ (where[b] = "reusable" /\ tag >= lastTask[b]) \/ where' = where
    BY <1>2, FreshIsFree DEF BeginEnqueue, allocate, Reusable
  <2>2. a = b
    BY <1>0, <2>1
  <2> QED
    BY <1>0, <1>1, <2>1, <2>2
<1>3. ASSUME NEW t \in Threads, EnqueueLock(t) PROVE a \notin InUse
  <2>1. loc[t].call \in Dispatch /\ ~destroyed
    BY <1>0, <1>3 DEF EnqueueLock, OwnershipInv, EnqueueLabels, Locals, DestroyInv
  <2>2. PICK s \in Streams : ReplaceStream(s)
    BY <1>0, <1>3, <2>1 DEF EnqueueLock, Dispatch
  <2>3. where[stream[s]] = "held" /\ stream[s] \in Allocations
    BY <1>0, <2>1 DEF MemInv, StreamInv, DestroyInv
  <2> DEFINE stored == [where EXCEPT ![stream[s]] = "reusable"]
             counted == [lastTask EXCEPT ![stream[s]] = taskCount]
  <2>4. PICK b \in Allocations : /\ where' = [stored EXCEPT ![b] = "held"]
                                 /\ \/ stored[b] = "reusable" /\ tag >= counted[b]
                                    \/ where[b] = "reusable" /\ tag >= lastTask[b]
                                    \/ where[b] = "free"
    BY <2>2, FreshIsFree DEF ReplaceStream, Reusable
  <2>5. \A c \in Allocations : c # stream[s] => stored[c] = where[c] /\ counted[c] = lastTask[c]
    BY <1>0
  <2>6. \A c \in Allocations : c # stream[s] /\ c # b => where'[c] = where[c]
    BY <1>0, <2>4
  <2>7. a # stream[s]
    BY <1>0, <2>3, <2>4 DEF Recycled
  <2>8. a = b
    BY <1>0, <2>6, <2>7
  <2> QED
    BY <1>1, <2>4, <2>5, <2>7, <2>8
<1>4. ASSUME NEW t \in Threads, EndEnqueue(t) PROVE a \notin InUse
  <2>1. loc[t].call \in Dispatch
    BY <1>0, <1>4 DEF EndEnqueue, OwnershipInv, EnqueueLabels, Locals
  <2>2. \/ where' = where
        \/ where' = [where EXCEPT ![loc[t].mine] = "temporary"]
        \/ where' = [where EXCEPT ![loc[t].mine] = "reusable"]
    BY <1>4, <2>1 DEF EndEnqueue, storeAllocation, Dispatch
  <2> QED
    BY <1>0, <2>2 DEF Recycled
<1>5. ASSUME NEW t \in Threads, CleanDetach(t) \/ CleanSplice(t) PROVE a \notin InUse
  BY <1>0, <1>5 DEF CleanDetach, CleanSplice, Recycled
<1>6. ASSUME NEW t \in Threads, CleanOne(t) PROVE a \notin InUse
  <2>1. UNCHANGED <<pc, submitted, cmdBuffers, executed>>
    BY <1>6 DEF CleanOne
  <2>2. \A u \in Threads : loc'[u].call = loc[u].call /\ loc'[u].mine = loc[u].mine
    BY <1>0, <1>6, CleanOneLocals
  <2>3. \A u \in Threads : HasOwn(u, a) => HasOwn(u, a)'
    BY <2>1, <2>2 DEF HasOwn
  <2>4. where'[a] = "free"
    BY <1>0, <1>6 DEF CleanOne, Recycled
  <2> QED
    BY <2>1, <2>3, <2>4, FreedIsIdle
<1>7. ASSUME NEW t \in Threads, checkGpuUsageAndDestroyGraphicsAllocations(t) PROVE a \notin InUse
  <2>1. /\ pc[t] = "idle" /\ pc' = [pc EXCEPT ![t] = "idle"] /\ loc' = [loc EXCEPT ![t] = NoLocals]
        /\ UNCHANGED <<submitted, cmdBuffers, executed>>
    BY <1>7 DEF checkGpuUsageAndDestroyGraphicsAllocations, Calls, Start
  <2>2. pc' = pc /\ loc[t].call = None /\ \A u \in Threads \ {t} : loc'[u] = loc[u]
    BY <1>0, <2>1 DEF OwnershipInv, EnqueueLabels, InBatch
  <2>3. \A u \in Threads : HasOwn(u, a) => HasOwn(u, a)'
    BY <2>2 DEF HasOwn
  <2>4. where'[a] = "free"
    BY <1>0, <1>7 DEF checkGpuUsageAndDestroyGraphicsAllocations, Recycled
  <2> QED
    BY <2>1, <2>3, <2>4, FreedIsIdle
<1>8. ASSUME NEW t \in Threads, Destroy(t) PROVE a \notin InUse
  <2>1. CASE DestroyDevice(t) \/ DestroyStore(t)
    <3>1. \E b : where' = [where EXCEPT ![b] = "reusable"]
      BY <2>1 DEF DestroyDevice, DestroyStore, storeAllocation
    <3> QED
      BY <1>0, <3>1 DEF Recycled
  <2>2. CASE DestroyClean(t)
    <3>1. pc[t] = "d_clean" /\ UNCHANGED <<loc, submitted, cmdBuffers, executed>>
      BY <2>2 DEF DestroyClean
    <3>2. \A u \in Threads : pc[u] \in {"idle", "d_clean"}
      BY <1>0, <3>1 DEF DestroyInv
    <3>3. \A u \in Threads : ~HasOwn(u, a)
      BY <1>0, <3>2 DEF OwnershipInv, EnqueueLabels, InBatch, HasOwn
    <3>4. where'[a] = "free"
      BY <1>0, <2>2 DEF DestroyClean, Recycled
    <3> QED
      BY <3>1, <3>3, <3>4, FreedIsIdle
  <2> QED
    BY <1>8, <2>1, <2>2 DEF Destroy
<1>9. \/ \E t \in Threads : \/ BeginEnqueue(t) \/ EnqueueLock(t) \/ EndEnqueue(t)
                            \/ CleanDetach(t) \/ CleanOne(t) \/ CleanSplice(t)
                            \/ checkGpuUsageAndDestroyGraphicsAllocations(t) \/ Destroy(t)
      \/ UNCHANGED where
  <2>1. CASE \E t \in Threads : enqueueHandler(t)
    BY <2>1 DEF enqueueHandler, EnqueueOutOfResources, MakeResident, SubmitTask, TaskFlushed, ImplicitFlush, CountTask
  <2>2. CASE \E t \in Threads : flushBatchedSubmissions(t)
    BY <2>2 DEF flushBatchedSubmissions, FlushBatchedLock, FlushBatch, BatchFlushed, FlushBatchedReturn
  <2>3. CASE \E t \in Threads : wait(t)
    BY <2>3 DEF wait, FinishRead, WaitRead, WaitSpin, WaitAgain
  <2>4. CASE \E t \in Threads : Invoke(t)
    BY <2>4 DEF Invoke, clFlush
  <2>5. CASE GpuExecute \/ UNCHANGED vars
    BY <2>5 DEF GpuExecute, vars
  <2> QED
    BY <2>1, <2>2, <2>3, <2>4, <2>5 DEF Next, Step, Spin
<1> QED
  BY <1>0, <1>2, <1>3, <1>4, <1>5, <1>6, <1>7, <1>8, <1>9

\* Whatever the threads enqueue, flush, wait for and release, memory is freed or
\* handed out again only when no task that was submitted, batched or is being
\* built accesses it: the task counts it is stored with are never too small.
THEOREM MemoryCorrect == Spec => MemoryIsIdle
<1>1. IInv /\ MemInv /\ (IInv /\ MemInv)' /\ [Next]_vars =>
        [\A a \in Allocations : Recycled(a) => a \notin InUse]_vars
  BY NextIdle
<1>2. Spec => [][\A a \in Allocations : Recycled(a) => a \notin InUse]_vars
  BY <1>1, MemHolds, PTL DEF Spec
<1> QED
  BY <1>2 DEF MemoryIsIdle, Recycled

\* When the destructors of the queue, the device and the receiver are through,
\* every allocation is free.
THEOREM DestroyedCorrect == Spec => []NothingLeftWhenDestroyed
BY MemHolds, PTL DEF MemInv, EndInv
=============================================================================
