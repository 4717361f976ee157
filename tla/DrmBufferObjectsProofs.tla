----------------------- MODULE DrmBufferObjectsProofs -----------------------
(* Reference counts of buffer objects are exact, for any number of threads, *)
(* objects and imports, and what follows from it: no object is used after   *)
(* it was deleted, and no import loses its handle.                          *)
EXTENDS DrmBufferObjects, FiniteSetTheorems, SequenceTheorems, TLAPS

Dropping == {"u_lock", "u_sub", "u_close", "u_delete"}
Deleting == {"u_close", "u_delete"}
Destroying == {"d_notify", "d_pin", "d_worker", "d_close", "destroyed"}
ThreadLabels == {"idle", "flush_reference", "push", "push_notify", "free_wait", "clean_wait",
                 "import_handle", "import_find", "u_spin"} \cup Dropping \cup Destroying
WorkerLabels == {"w_loop", "w_lock", "w_check", "w_sleep", "w_wait", "w_wake", "w_close", "w_count",
                 "w_final", "w_drain", "w_done", "w_exit"} \cup Dropping

\* Where threads are, and what they work on there.
ThreadOK(t) ==
  /\ pc[t] \in ThreadLabels
  /\ pc[t] \in {"flush_reference", "push"} => bo[t] \in CmdBos /\ holds[t][bo[t]] > 0
  /\ pc[t] = "free_wait" => bo[t] \in CmdBos \cup SharedBos
  /\ pc[t] \in {"clean_wait", "u_spin"} => bo[t] \in Fragments
  /\ pc[t] \in {"import_handle", "import_find"} => bo[t] \in DmaBufs
  /\ pc[t] \in Dropping => bo[t] \in Bos
  /\ pc[t] \in Dropping /\ bo[t] = pinBB => t = Destroyer /\ ~active
  /\ pc[t] \in Destroying => t = Destroyer /\ ~active
ThreadInv == \A t \in Threads : ThreadOK(t)

\* Once the memory manager is being deleted nothing else goes on.
DestroyInv ==
  ~active => /\ \A t \in Threads \ {Destroyer} : pc[t] = "idle"
             /\ pc[Destroyer] \in Destroying \/ (pc[Destroyer] \in Dropping /\ bo[Destroyer] = pinBB)

\* Who has the mutexes.
MtxInv ==
  \A p \in Procs : mtx = p <=> \/ pc[p] = "import_find"
                               \/ pc[p] \in {"u_sub", "u_close"} /\ bo[p] \in SharedBos
MutexInv ==
  /\ closeWorkerMutex \in {Nobody, Worker}
  /\ pc[Worker] \in {"w_check", "w_sleep", "w_drain"} => closeWorkerMutex = Worker
  /\ closeWorkerMutex = Worker => pc[Worker] \in {"w_check", "w_sleep", "w_drain", "w_count"} \cup Dropping
  /\ closeWorkerMutex = Worker /\ pc[Worker] \notin {"w_check", "w_sleep"} => ~active /\ localQueue = <<>>

\* What the worker has left to do.
Closing == IF pc[Worker] \in {"w_count"} \cup Dropping THEN 1 ELSE 0
WorkerInv ==
  /\ pc[Worker] \in WorkerLabels
  /\ pc[Worker] \in Dropping => bo[Worker] \in CmdBos
  /\ queue \in Seq(CmdBos) /\ localQueue \in Seq(CmdBos)
  /\ workCount = Len(queue) + Len(localQueue) + Closing
  /\ pc[Worker] \in {"w_final", "w_drain", "w_done", "w_exit"} => ~active
  /\ pc[Worker] \notin {"w_close", "w_count"} \cup Dropping => localQueue = <<>>
  /\ pc[Worker] \in {"w_done", "w_exit"} => queue = <<>>
  /\ pc[Destroyer] = "destroyed" => pc[Worker] = "w_exit"

\* A private object has one allocation, of its holder.
HolderInv ==
  /\ \A t \in Threads : \A b \in PrivateBos : holds[t][b] > 0 => t = HolderOf[b] /\ holds[t][b] = 1
  /\ active \/ pc[Destroyer] \in {"d_notify", "d_pin"} => holds[Destroyer][pinBB] = 1
  /\ \A b \in Bos : IsFiniteSet(Allocated(b))

\* An object lives while it is referred to, and one process deletes it.
LiveInv == \A b \in Bos : life[b] = "live" \/ refCount[b] = 0
DeleterInv ==
  /\ \A p \in Procs : pc[p] \in Deleting => refCount[bo[p]] = 0 /\ life[bo[p]] = "live"
  /\ \A p, q \in Procs : pc[p] \in Deleting /\ pc[q] \in Deleting /\ bo[p] = bo[q] => p = q

\* What the GPU executes from has still the reference that its holder waits with.
GpuInv ==
  \A b \in gpu :
    /\ b \in CmdBos \cup Fragments
    /\ \/ holds[HolderOf[b]][b] > 0
       \/ pc[HolderOf[b]] \in {"free_wait", "clean_wait"} /\ bo[HolderOf[b]] = b

\* An imported object is in sharingBufferObjects, with a handle of its own, until
\* it is closed.
ListedInv ==
  /\ \A b \in sharing : life[b] = "live" /\ handle[b] \in openHandles
  /\ \A b \in SharedBos \ sharing : handle[b] = None /\ refCount[b] = 0
  /\ \A b, c \in sharing : handle[b] = handle[c] => b = c
ErasedInv == \A p \in Procs : pc[p] = "u_delete" => bo[p] \notin sharing
FinderInv == \A t \in Threads : pc[t] = "import_find" => bo[t] \in openHandles

IInv == TypeOK /\ ThreadInv /\ DestroyInv /\ MtxInv /\ MutexInv /\ WorkerInv /\ HolderInv /\ RefCountExact
          /\ LiveInv /\ DeleterInv /\ GpuInv /\ ListedInv /\ ErasedInv /\ FinderInv

\* The kinds of objects.
LEMMA Kinds ==
  /\ \A b \in CmdBos : b \in Bos /\ b \in PrivateBos /\ b \notin SharedBos /\ b # pinBB
  /\ \A b \in Fragments : b \in Bos /\ b \in PrivateBos /\ b \notin SharedBos /\ b # pinBB
  /\ \A b \in SharedBos : b \in Bos /\ b \notin PrivateBos /\ b # pinBB
  /\ \A b \in PrivateBos : b \in Bos /\ HolderOf[b] \in Threads
  /\ pinBB \in PrivateBos /\ pinBB \in Bos
  /\ None \notin Bos /\ None \notin DmaBufs
  BY BosAssumption DEF Bos, PrivateBos

----------------------------------------------------------------------------
(* Counting.                                                               *)

LEMMA CountIsNat ==
  ASSUME NEW q \in Seq(Bos), NEW b
  PROVE  /\ IsFiniteSet({i \in DOMAIN q : q[i] = b}) /\ Count(q, b) \in Nat
         /\ Count(q, b) = 0 <=> b \notin ToSet(q)
<1> DEFINE S == {i \in DOMAIN q : q[i] = b}
<1>1. IsFiniteSet(S)
  <2>1. DOMAIN q = 1..Len(q) /\ Len(q) \in Nat
    OBVIOUS
  <2>2. IsFiniteSet(1..Len(q))
    BY <2>1, FS_Interval
  <2> QED  BY <2>1, <2>2, FS_Subset
<1>2. Cardinality(S) \in Nat /\ (Cardinality(S) = 0 <=> S = {})
  BY <1>1, FS_CardinalityType, FS_EmptySet
<1>3. S = {} <=> b \notin ToSet(q)
  BY DEF ToSet
<1> QED  BY <1>1, <1>2, <1>3 DEF Count

LEMMA CountEmpty == \A b : Count(<<>>, b) = 0
<1>1. \A b : {i \in DOMAIN <<>> : <<>>[i] = b} = {}
  OBVIOUS
<1> QED  BY <1>1, FS_EmptySet DEF Count

LEMMA CountAppend ==
  ASSUME NEW q \in Seq(Bos), NEW x \in Bos, NEW b
  PROVE  Count(Append(q, x), b) = Count(q, b) + (IF x = b THEN 1 ELSE 0)
<1> DEFINE S == {i \in DOMAIN q : q[i] = b}
           r == Append(q, x)
           T == {i \in DOMAIN r : r[i] = b}
           n == Len(q) + 1
<1>1. /\ DOMAIN q = 1..Len(q) /\ Len(q) \in Nat
      /\ DOMAIN r = 1..n
      /\ \A i \in 1..Len(q) : r[i] = q[i]
      /\ r[n] = x
  OBVIOUS
<1>2. IsFiniteSet(S) /\ Cardinality(S) \in Nat
  BY CountIsNat DEF Count
<1>3. n \notin S
  BY <1>1
<1>4. CASE x = b
  <2>1. T = S \cup {n}
    BY <1>1, <1>4
  <2> QED  BY <2>1, <1>2, <1>3, <1>4, FS_AddElement DEF Count
<1>5. CASE x # b
  <2>1. T = S
    BY <1>1, <1>5
  <2>2. Count(r, b) = Cardinality(S) /\ Count(q, b) = Cardinality(S)
    BY <2>1 DEF Count
  <2> QED  BY <2>2, <1>2, <1>5
<1> QED  BY <1>4, <1>5

LEMMA CountTail ==
  ASSUME NEW q \in Seq(Bos), q # <<>>, NEW b
  PROVE  Count(q, b) = Count(Tail(q), b) + (IF Head(q) = b THEN 1 ELSE 0)
<1> DEFINE S == {i \in DOMAIN q : q[i] = b}
           r == Tail(q)
           T == {i \in DOMAIN r : r[i] = b}
           f == [i \in T |-> i + 1]
<1>1. /\ DOMAIN q = 1..Len(q) /\ Len(q) \in Nat \ {0}
      /\ r \in Seq(Bos) /\ DOMAIN r = 1..(Len(q) - 1)
      /\ \A i \in 1..(Len(q) - 1) : r[i] = q[i + 1]
      /\ Head(q) = q[1]
  OBVIOUS
<1>2. IsFiniteSet(S) /\ Cardinality(S) \in Nat /\ IsFiniteSet(T) /\ Cardinality(T) \in Nat
  BY <1>1, CountIsNat DEF Count
<1>3. f \in Bijection(T, S \ {1})
  <2>1. \A i \in T : i \in Nat \ {0} /\ i + 1 \in S \ {1}
    BY <1>1
  <2>2. \A j \in S \ {1} : j \in Nat /\ j - 1 \in T /\ (j - 1) + 1 = j
    BY <1>1
  <2>3. f \in [T -> S \ {1}] /\ \A i \in T : f[i] = i + 1
    BY <2>1
  <2>4. \A i, j \in T : f[i] = f[j] => i = j
    BY <2>3, <2>1
  <2>5. \A j \in S \ {1} : \E i \in T : f[i] = j
    BY <2>3, <2>2
  <2> HIDE DEF f, S, T
  <2>6. f \in Injection(T, S \ {1})
    BY <2>3, <2>4 DEF Injection, IsInjective
  <2>7. f \in Surjection(T, S \ {1})
    BY <2>3, <2>5 DEF Surjection
  <2> QED  BY <2>6, <2>7 DEF Bijection
<1>4. Cardinality(S \ {1}) = Cardinality(T)
  <2> HIDE DEF f, S, T
  <2> QED  BY <1>2, <1>3, FS_Bijection DEF ExistsBijection
<1>5. Cardinality(S \ {1}) = IF 1 \in S THEN Cardinality(S) - 1 ELSE Cardinality(S)
  <2> HIDE DEF f, S, T
  <2> QED  BY <1>2, FS_RemoveElement
<1>6. 1 \in S <=> Head(q) = b
  BY <1>1
<1>7. Cardinality(S) = Cardinality(T) + (IF Head(q) = b THEN 1 ELSE 0)
  <2> HIDE DEF f, S, T, r
  <2> QED  BY <1>2, <1>4, <1>5, <1>6
<1> QED  BY <1>7 DEF Count

----------------------------------------------------------------------------
(* A step of process p changes the running calls by p at most.             *)

Others(p) == \A q \in Procs \ {p}, b \in Bos : InHand(q, b)' <=> InHand(q, b)

LEMMA ProcsFinite == IsFiniteSet(Procs)
  BY ProcsAssumption, FS_AddElement DEF Procs

LEMMA RunningIsNat ==
  ASSUME NEW b
  PROVE  /\ IsFiniteSet(Running(b)) /\ Cardinality(Running(b)) \in Nat
         /\ Cardinality(Running(b)) = 0 <=> \A p \in Procs : ~InHand(p, b)
<1>1. IsFiniteSet(Running(b))
  BY ProcsFinite, FS_Subset DEF Running
<1>2. Running(b) = {} <=> \A p \in Procs : ~InHand(p, b)
  BY DEF Running
<1> QED  BY <1>1, <1>2, FS_CardinalityType, FS_EmptySet

LEMMA RunningStep ==
  ASSUME NEW p \in Procs, Others(p), NEW b \in Bos
  PROVE  /\ Cardinality(Running(b)) \in Nat
         /\ Cardinality(Running(b))' = Cardinality(Running(b)) + (IF InHand(p, b)' THEN 1 ELSE 0)
                                        - (IF InHand(p, b) THEN 1 ELSE 0)
<1> DEFINE R == Running(b)
           U == {q \in Procs : InHand(q, b)'}
<1>1. IsFiniteSet(R) /\ Cardinality(R) \in Nat
  BY RunningIsNat
<1>2. Running(b)' = U
  BY DEF Running, Procs
<1>3. p \in R <=> InHand(p, b)
  BY DEF Running
<1>4. \A q : q # p => (q \in U <=> q \in R)
  BY DEF Running, Others
<1>5. CASE InHand(p, b)' /\ ~InHand(p, b)
  <2>1. U = R \cup {p}
    BY <1>3, <1>4, <1>5
  <2>2. Cardinality(U) = Cardinality(R) + 1
    BY <2>1, <1>1, <1>3, <1>5, FS_AddElement
  <2> QED  BY <2>2, <1>1, <1>2, <1>5
<1>6. CASE InHand(p, b) /\ ~InHand(p, b)'
  <2>1. U = R \ {p}
    BY <1>3, <1>4, <1>6
  <2> QED  BY <2>1, <1>1, <1>2, <1>3, <1>6, FS_RemoveElement
<1>7. CASE InHand(p, b) <=> InHand(p, b)'
  <2>1. U = R
    BY <1>3, <1>4, <1>7
  <2> QED  BY <2>1, <1>1, <1>2, <1>7
<1> QED  BY <1>5, <1>6, <1>7

----------------------------------------------------------------------------
(* The allocations of an object.                                           *)

LEMMA AllocatedIs ==
  ASSUME NEW b
  PROVE  \A x : x \in Allocated(b) <=> \E t \in Threads : \E i \in 1..holds[t][b] : x = <<t, i>>
  BY DEF Allocated

LEMMA AllocatedIsNat ==
  ASSUME NEW b \in Bos, holds \in [Threads -> [Bos -> Nat]], IsFiniteSet(Allocated(b))
  PROVE  /\ Cardinality(Allocated(b)) \in Nat
         /\ Cardinality(Allocated(b)) = 0 <=> \A t \in Threads : holds[t][b] = 0
<1>1. \A t \in Threads : holds[t][b] \in Nat
  OBVIOUS
<1>2. Allocated(b) = {} => \A t \in Threads : holds[t][b] = 0
  <2>1. SUFFICES ASSUME Allocated(b) = {}, NEW t \in Threads, holds[t][b] # 0  PROVE FALSE
    OBVIOUS
  <2>2. 1 \in 1..holds[t][b]
    BY <1>1, <2>1
  <2>3. <<t, 1>> \in Allocated(b)
    BY <2>2, AllocatedIs
  <2> QED  BY <2>1, <2>3
<1>3. (\A t \in Threads : holds[t][b] = 0) => Allocated(b) = {}
  BY AllocatedIs
<1> QED  BY <1>2, <1>3, FS_CardinalityType, FS_EmptySet

LEMMA AllocatedGain ==
  ASSUME holds \in [Threads -> [Bos -> Nat]], NEW t \in Threads, NEW c \in Bos,
         \A b \in Bos : IsFiniteSet(Allocated(b)),
         holds' = [holds EXCEPT ![t][c] = @ + 1], NEW b \in Bos
  PROVE  /\ IsFiniteSet(Allocated(b)')
         /\ Cardinality(Allocated(b))' = Cardinality(Allocated(b)) + (IF b = c THEN 1 ELSE 0)
<1>1. /\ holds' \in [Threads -> [Bos -> Nat]]
      /\ \A u \in Threads : u # t \/ b # c => holds'[u][b] = holds[u][b]
      /\ b = c => holds'[t][b] = holds[t][b] + 1
      /\ \A u \in Threads : holds[u][b] \in Nat
  OBVIOUS
<1> DEFINE U == UNION {{u} \X (1..holds'[u][b]) : u \in Threads}
           x == <<t, holds[t][b] + 1>>
<1>2. Allocated(b)' = U
  BY DEF Allocated
<1>3. Cardinality(Allocated(b)) \in Nat
  BY FS_CardinalityType
<1>4. CASE b # c
  <2>1. \A u \in Threads : {u} \X (1..holds'[u][b]) = {u} \X (1..holds[u][b])
    BY <1>1, <1>4
  <2>2. U = Allocated(b)
    BY <2>1 DEF Allocated
  <2>3. Allocated(b)' = Allocated(b)
    BY <2>2, <1>2
  <2> HIDE DEF U
  <2> QED  BY <2>3, <1>3, <1>4
<1>5. CASE b = c
  <2>1. U = Allocated(b) \cup {x}
    <3>1. \A u \in Threads : u # t => 1..holds'[u][b] = 1..holds[u][b]
      BY <1>1
    <3>2. 1..holds'[t][b] = (1..holds[t][b]) \cup {holds[t][b] + 1}
      <4>1. \A n \in Nat : 1..(n + 1) = (1..n) \cup {n + 1}
        <5>1. ASSUME NEW n \in Nat, NEW i \in 1..(n + 1) PROVE i \in (1..n) \cup {n + 1}
          OBVIOUS
        <5>2. ASSUME NEW n \in Nat, NEW i \in (1..n) \cup {n + 1} PROVE i \in 1..(n + 1)
          OBVIOUS
        <5>4. ASSUME NEW n \in Nat PROVE 1..(n + 1) = (1..n) \cup {n + 1}
          BY <5>1, <5>2, Zenon
        <5> QED  BY <5>4
      <4>2. holds'[t][b] = holds[t][b] + 1 /\ holds[t][b] \in Nat
        BY <1>1, <1>5
      <4> QED  BY <4>1, <4>2
    <3>3. \A y : y \in U <=> \E u \in Threads : \E i \in 1..holds'[u][b] : y = <<u, i>>
      OBVIOUS
    <3>4. \A u \in Threads : \A i : i \in 1..holds'[u][b] <=> i \in 1..holds[u][b] \/ (u = t /\ i = holds[t][b] + 1)
      BY <3>1, <3>2, Zenon
    <3> HIDE DEF U
    <3>5. \A y : y \in U <=> (y \in Allocated(b) \/ y = x)
      BY <3>3, <3>4, AllocatedIs
    <3> QED  BY <3>5
  <2>2. x \notin Allocated(b)
    <3>1. holds[t][b] + 1 \notin 1..holds[t][b]
      BY <1>1
    <3> QED  BY <3>1, AllocatedIs
  <2>3. IsFiniteSet(U) /\ Cardinality(U) = Cardinality(Allocated(b)) + 1
    <3> HIDE DEF U, x
    <3> QED  BY <2>1, <2>2, FS_AddElement
  <2> HIDE DEF U
  <2> QED  BY <2>3, <1>2, <1>3, <1>5
<1> QED  BY <1>4, <1>5

LEMMA AllocatedLose ==
  ASSUME holds \in [Threads -> [Bos -> Nat]], NEW t \in Threads, NEW c \in Bos, holds[t][c] > 0,
         \A b \in Bos : IsFiniteSet(Allocated(b)),
         holds' = [holds EXCEPT ![t][c] = @ - 1], NEW b \in Bos
  PROVE  /\ IsFiniteSet(Allocated(b)')
         /\ Cardinality(Allocated(b))' = Cardinality(Allocated(b)) - (IF b = c THEN 1 ELSE 0)
<1>1. /\ \A u \in Threads : u # t \/ b # c => holds'[u][b] = holds[u][b]
      /\ b = c => holds'[t][b] = holds[t][b] - 1 /\ holds[t][b] > 0
      /\ \A u \in Threads : holds[u][b] \in Nat
  OBVIOUS
<1> DEFINE U == UNION {{u} \X (1..holds'[u][b]) : u \in Threads}
           x == <<t, holds[t][b]>>
<1>2. Allocated(b)' = U
  BY DEF Allocated
<1>3. Cardinality(Allocated(b)) \in Nat
  BY FS_CardinalityType
<1>4. CASE b # c
  <2>1. \A u \in Threads : {u} \X (1..holds'[u][b]) = {u} \X (1..holds[u][b])
    BY <1>1, <1>4
  <2>2. U = Allocated(b)
    BY <2>1 DEF Allocated
  <2>3. Allocated(b)' = Allocated(b)
    BY <2>2, <1>2
  <2> HIDE DEF U
  <2> QED  BY <2>3, <1>3, <1>4
<1>5. CASE b = c
  <2>1. U = Allocated(b) \ {x}
    <3>1. \A u \in Threads : u # t => 1..holds'[u][b] = 1..holds[u][b]
      BY <1>1
    <3>2. 1..holds'[t][b] = (1..holds[t][b]) \ {holds[t][b]}
      BY <1>1, <1>5
    <3>3. \A y : y \in U <=> \E u \in Threads : \E i \in 1..holds'[u][b] : y = <<u, i>>
      OBVIOUS
    <3>4. \A u \in Threads : \A i : i \in 1..holds'[u][b] <=> i \in 1..holds[u][b] /\ ~(u = t /\ i = holds[t][b])
      BY <3>1, <3>2, Zenon
    <3> HIDE DEF U
    <3>5. \A y : y \in U <=> (y \in Allocated(b) /\ y # x)
      BY <3>3, <3>4, AllocatedIs
    <3> QED  BY <3>5
  <2>2. x \in Allocated(b)
    <3>1. holds[t][b] \in 1..holds[t][b]
      BY <1>1, <1>5
    <3> QED  BY <3>1, AllocatedIs
  <2>3. IsFiniteSet(U) /\ Cardinality(U) = Cardinality(Allocated(b)) - 1
    <3> HIDE DEF U, x
    <3> QED  BY <2>1, <2>2, FS_RemoveElement
  <2> HIDE DEF U
  <2> QED  BY <2>3, <1>2, <1>3, <1>5
<1> QED  BY <1>4, <1>5

----------------------------------------------------------------------------
(* What an exact count of zero says.                                       *)

LEMMA Unreferenced ==
  ASSUME TypeOK, HolderInv, RefCountExact, NEW b \in Bos, refCount[b] = 0
  PROVE  /\ \A t \in Threads : holds[t][b] = 0
         /\ \A p \in Procs : ~InHand(p, b)
         /\ b \notin ToSet(queue) /\ b \notin ToSet(localQueue)
<1>1. /\ Cardinality(Allocated(b)) \in Nat
      /\ Cardinality(Allocated(b)) = 0 => \A t \in Threads : holds[t][b] = 0
  BY AllocatedIsNat DEF TypeOK, HolderInv
<1>2. /\ Cardinality(Running(b)) \in Nat
      /\ Cardinality(Running(b)) = 0 => \A p \in Procs : ~InHand(p, b)
  BY RunningIsNat
<1>3. /\ Count(queue, b) \in Nat /\ Count(localQueue, b) \in Nat
      /\ Count(queue, b) = 0 => b \notin ToSet(queue)
      /\ Count(localQueue, b) = 0 => b \notin ToSet(localQueue)
  BY CountIsNat DEF TypeOK
<1>4. 0 = Cardinality(Allocated(b)) + Cardinality(Running(b)) + Count(queue, b) + Count(localQueue, b)
  BY DEF RefCountExact
<1> HIDE DEF Count, Allocated, Running
<1>5. /\ Cardinality(Allocated(b)) = 0 /\ Cardinality(Running(b)) = 0
      /\ Count(queue, b) = 0 /\ Count(localQueue, b) = 0
  BY <1>1, <1>2, <1>3, <1>4
<1> QED  BY <1>1, <1>2, <1>3, <1>5

LEMMA InitInv == Init => IInv
<1> SUFFICES ASSUME Init PROVE IInv
  OBVIOUS
<1> USE ProcsAssumption, BosAssumption
<1>1. TypeOK
  <2>1. /\ life \in [Bos -> {"none", "live", "deleted"}] /\ refCount \in [Bos -> Nat]
        /\ handle \in [SharedBos -> DmaBufs \cup {None}]
        /\ holds \in [Threads -> [Bos -> Nat]] /\ calls \in [Threads -> Nat]
    BY DEF Init
  <2>2. pc \in [Procs -> Labels] /\ bo \in [Procs -> Bos \cup DmaBufs \cup {None}]
    BY DEF Init, Labels
  <2>3. queue \in Seq(Bos) /\ localQueue \in Seq(Bos)
    BY DEF Init
  <2> QED  BY <2>1, <2>2, <2>3 DEF Init, TypeOK
<1>2. ThreadInv /\ DestroyInv
  BY DEF Init, ThreadInv, ThreadOK, DestroyInv, Procs, ThreadLabels, Dropping, Destroying
<1>3. MtxInv /\ MutexInv
  BY DEF Init, MtxInv, MutexInv, Procs, Dropping
<1>4. WorkerInv
  BY DEF Init, WorkerInv, Procs, WorkerLabels, Dropping, Closing
<1>5. ASSUME NEW b \in Bos
      PROVE  IsFiniteSet(Allocated(b)) /\ Cardinality(Allocated(b)) = IF b \in PrivateBos THEN 1 ELSE 0
  <2>1. CASE b \in PrivateBos
    <3>1. \A t \in Threads : holds[t][b] = IF HolderOf[b] = t THEN 1 ELSE 0
      BY <2>1 DEF Init
    <3>2. 1..1 = {1} /\ 1..0 = {} /\ HolderOf[b] \in Threads
      BY <2>1
    <3>3. \A x : x \in Allocated(b) <=> x = <<HolderOf[b], 1>>
      BY <3>1, <3>2, AllocatedIs
    <3>4. Allocated(b) = {<<HolderOf[b], 1>>}
      BY <3>3
    <3>5. \A x : IsFiniteSet({x}) /\ Cardinality({x}) = 1
      BY FS_Singleton
    <3> QED  BY <2>1, <3>4, <3>5
  <2>2. CASE b \notin PrivateBos
    <3>1. \A t \in Threads : holds[t][b] = 0
      BY <2>2 DEF Init
    <3>2. 1..0 = {}
      OBVIOUS
    <3>3. Allocated(b) = {}
      BY <3>1, <3>2, AllocatedIs
    <3> QED  BY <2>2, <3>3, FS_EmptySet
  <2> QED  BY <2>1, <2>2
<1>6. HolderInv
  <2>1. \A t \in Threads : \A b \in PrivateBos : holds[t][b] > 0 => t = HolderOf[b] /\ holds[t][b] = 1
    BY DEF Init, Bos
  <2>2. holds[Destroyer][pinBB] = 1
    BY DEF Init, Bos, PrivateBos
  <2> QED  BY <1>5, <2>1, <2>2 DEF HolderInv
<1>7. RefCountExact
  <2> SUFFICES ASSUME NEW b \in Bos
               PROVE  refCount[b] = Cardinality(Allocated(b)) + Cardinality(Running(b))
                                    + Count(queue, b) + Count(localQueue, b)
    BY DEF RefCountExact
  <2>1. Cardinality(Running(b)) = 0
    <3>1. \A p \in Procs : ~InHand(p, b)
      BY DEF Init, InHand
    <3> QED  BY <3>1, RunningIsNat
  <2>2. Count(queue, b) = 0 /\ Count(localQueue, b) = 0
    BY CountEmpty DEF Init
  <2>3. refCount[b] = IF b \in PrivateBos THEN 1 ELSE 0
    BY DEF Init
  <2> QED  BY <1>5, <2>1, <2>2, <2>3
<1>8. LiveInv /\ DeleterInv /\ GpuInv /\ ListedInv /\ ErasedInv /\ FinderInv
  BY DEF Init, LiveInv, DeleterInv, GpuInv, ListedInv, ErasedInv, FinderInv, Procs, Deleting, Bos
<1> QED  BY <1>1, <1>2, <1>3, <1>4, <1>6, <1>7, <1>8 DEF IInv

----------------------------------------------------------------------------
(* Steps that move no reference.                                           *)

Steady(p) == Others(p) /\ \A b \in Bos : InHand(p, b)' <=> InHand(p, b)

LEMMA CountsKept ==
  ASSUME TypeOK, HolderInv, RefCountExact, NEW p \in Procs, Steady(p),
         UNCHANGED <<holds, refCount, queue, localQueue>>
  PROVE  RefCountExact' /\ \A b \in Bos : IsFiniteSet(Allocated(b)')
<1>1. \A b \in Bos : Allocated(b)' = Allocated(b)
  BY DEF Allocated
<1>2. \A b \in Bos : Cardinality(Running(b))' = Cardinality(Running(b))
  <2>1. TAKE b \in Bos
  <2>2. /\ Cardinality(Running(b)) \in Nat
        /\ Cardinality(Running(b))' = Cardinality(Running(b)) + (IF InHand(p, b)' THEN 1 ELSE 0)
                                      - (IF InHand(p, b) THEN 1 ELSE 0)
    BY RunningStep DEF Steady
  <2>3. InHand(p, b)' <=> InHand(p, b)
    BY DEF Steady
  <2> QED  BY <2>2, <2>3
<1>3. \A b \in Bos : Count(queue, b)' = Count(queue, b) /\ Count(localQueue, b)' = Count(localQueue, b)
  BY DEF Count
<1>4. RefCountExact'
  BY <1>1, <1>2, <1>3 DEF RefCountExact
<1> QED  BY <1>1, <1>4 DEF HolderInv

\* The references to an object before a step of process p.
LEMMA References ==
  ASSUME TypeOK, HolderInv, RefCountExact, NEW p \in Procs, Others(p), NEW b \in Bos
  PROVE  /\ Cardinality(Allocated(b)) \in Nat /\ Cardinality(Running(b)) \in Nat
         /\ Count(queue, b) \in Nat /\ Count(localQueue, b) \in Nat
         /\ refCount[b] = Cardinality(Allocated(b)) + Cardinality(Running(b))
                          + Count(queue, b) + Count(localQueue, b)
         /\ Cardinality(Running(b))' = Cardinality(Running(b)) + (IF InHand(p, b)' THEN 1 ELSE 0)
                                       - (IF InHand(p, b) THEN 1 ELSE 0)
<1>1. /\ Cardinality(Running(b)) \in Nat
      /\ Cardinality(Running(b))' = Cardinality(Running(b)) + (IF InHand(p, b)' THEN 1 ELSE 0)
                                    - (IF InHand(p, b) THEN 1 ELSE 0)
  BY RunningStep
<1>2. Cardinality(Allocated(b)) \in Nat
  BY AllocatedIsNat DEF TypeOK, HolderInv
<1>3. Count(queue, b) \in Nat /\ Count(localQueue, b) \in Nat
  BY CountIsNat DEF TypeOK
<1> QED  BY <1>1, <1>2, <1>3 DEF RefCountExact

LEMMA FlushExecInv ==
  ASSUME IInv, NEW t \in Threads, NEW b \in Bos,
         FlushExec(t, b)
  PROVE  IInv'
<1> USE ProcsAssumption, Kinds
<1>1. TypeOK /\ ThreadInv /\ DestroyInv /\ MtxInv /\ MutexInv /\ WorkerInv /\ HolderInv /\ RefCountExact
        /\ LiveInv /\ DeleterInv /\ GpuInv /\ ListedInv /\ ErasedInv /\ FinderInv
  BY DEF IInv
<1>2. /\ pc[t] = "idle" /\ active /\ b \in CmdBos /\ holds[t][b] > 0
      /\ pc' = [pc EXCEPT ![t] = "flush_reference"] /\ bo' = [bo EXCEPT ![t] = b]
      /\ calls' = [calls EXCEPT ![t] = @ + 1]
      /\ gpu \subseteq gpu' /\ \A f \in gpu' : f \in gpu \/ (f \in CmdBos \cup Fragments /\ holds[t][f] > 0)
      /\ UNCHANGED <<life, refCount, handle, openHandles, sharing, holds, mtx, queue, localQueue, workCount, active, workerDone, closeWorkerMutex>>
  BY DEF FlushExec, boVars, workerVars, Begin, Counted, At, Goto, NotifyAndGoto
<1>3. /\ pc'[t] = "flush_reference" /\ bo'[t] = b
      /\ \A q \in Procs \ {t} : pc'[q] = pc[q] /\ bo'[q] = bo[q]
  BY <1>1, <1>2 DEF TypeOK, Procs
<1>4. pc' \in [Procs -> Labels] /\ bo' \in [Procs -> Bos \cup DmaBufs \cup {None}]
  BY <1>1, <1>2 DEF TypeOK, Procs, Labels
<1>5. \A q \in Procs : pc'[q] \in Deleting => pc'[q] = pc[q] /\ bo'[q] = bo[q]
  BY <1>2, <1>3 DEF Deleting, Procs
<1>6. Steady(t)
  BY <1>1, <1>2, <1>3 DEF Steady, Others, InHand, ThreadInv, ThreadOK, WorkerInv, TypeOK, Procs
<1>7. RefCountExact' /\ \A c \in Bos : IsFiniteSet(Allocated(c)')
  BY <1>1, <1>2, <1>6, CountsKept DEF Procs
<1>10. TypeOK'
  <2>1. gpu' \subseteq Bos
    BY <1>1, <1>2 DEF TypeOK
  <2>2. calls' \in [Threads -> Nat]
    BY <1>1, <1>2 DEF TypeOK
  <2> QED  BY <1>1, <1>2, <1>4, <2>1, <2>2 DEF TypeOK
<1>11. ThreadInv'
  <2>1. \A u \in Threads \ {t} : ThreadOK(u)'
    BY <1>1, <1>2, <1>3 DEF ThreadInv, ThreadOK, Procs
  <2>2. ThreadOK(t)'
    BY <1>1, <1>2, <1>3 DEF TypeOK, ThreadInv, ThreadOK, DestroyInv, Procs, ThreadLabels, Dropping, Destroying
  <2> QED  BY <2>1, <2>2 DEF ThreadInv
<1>12. DestroyInv'
  BY <1>1, <1>2, <1>3 DEF TypeOK, ThreadInv, ThreadOK, DestroyInv, Procs, Dropping, Destroying
<1>13. MtxInv'
  BY <1>1, <1>2, <1>3 DEF TypeOK, ThreadInv, ThreadOK, MtxInv, WorkerInv, Procs, Dropping, ThreadLabels, Destroying, WorkerLabels
<1>14. MutexInv'
  BY <1>1, <1>2, <1>3 DEF TypeOK, MutexInv, WorkerInv, Procs, Dropping, WorkerLabels
<1>15. WorkerInv'
  BY <1>1, <1>2, <1>3 DEF TypeOK, WorkerInv, MutexInv, Closing, Procs, Dropping, WorkerLabels
<1>16. HolderInv'
  BY <1>1, <1>2, <1>3, <1>7 DEF TypeOK, HolderInv, ThreadInv, ThreadOK, DestroyInv, Procs, Dropping, Destroying, ThreadLabels
<1>17. LiveInv'
  BY <1>1, <1>2, <1>3 DEF TypeOK, LiveInv
<1>18. DeleterInv'
  BY <1>1, <1>2, <1>3, <1>5 DEF DeleterInv
<1>19. GpuInv'
  BY SMTT(60), <1>1, <1>2, <1>3 DEF TypeOK, GpuInv, ThreadInv, ThreadOK, HolderInv, Procs
<1>20. ListedInv'
  BY <1>1, <1>2, <1>3 DEF TypeOK, ListedInv
<1>21. ErasedInv'
  BY <1>1, <1>2, <1>3, <1>5 DEF ErasedInv, Deleting
<1>22. FinderInv'
  BY <1>1, <1>2, <1>3 DEF TypeOK, FinderInv, ThreadInv, ThreadOK, Procs
<1> QED  BY <1>10, <1>11, <1>12, <1>13, <1>14, <1>15, <1>16, <1>17, <1>18, <1>19, <1>20, <1>21, <1>22, <1>7 DEF IInv

LEMMA PushNotifyInv ==
  ASSUME IInv, NEW t \in Threads,
         PushNotify(t)
  PROVE  IInv'
<1> USE ProcsAssumption, Kinds
<1>1. TypeOK /\ ThreadInv /\ DestroyInv /\ MtxInv /\ MutexInv /\ WorkerInv /\ HolderInv /\ RefCountExact
        /\ LiveInv /\ DeleterInv /\ GpuInv /\ ListedInv /\ ErasedInv /\ FinderInv
  BY DEF IInv
<1>2. /\ pc[t] = "push_notify"
      /\ pc' = [pc EXCEPT ![t] = "idle", ![Worker] = IF @ = "w_wait" THEN "w_wake" ELSE @]
      /\ UNCHANGED <<life, refCount, handle, openHandles, sharing, holds, mtx, gpu, queue, localQueue, workCount, active, workerDone, closeWorkerMutex, bo, calls>>
  BY DEF PushNotify, boVars, workerVars, Begin, Counted, At, Goto, NotifyAndGoto
<1>3. /\ pc'[t] = "idle" /\ \A q \in Procs : bo'[q] = bo[q]
      /\ \A q \in Threads \ {t} : pc'[q] = pc[q]
      /\ \/ pc[Worker] = "w_wait" /\ pc'[Worker] = "w_wake"
         \/ pc'[Worker] = pc[Worker]
  BY <1>1, <1>2 DEF TypeOK, Procs
<1>4. pc' \in [Procs -> Labels] /\ bo' \in [Procs -> Bos \cup DmaBufs \cup {None}]
  BY <1>1, <1>2 DEF TypeOK, Procs, Labels
<1>5. \A q \in Procs : pc'[q] \in Deleting => pc'[q] = pc[q] /\ bo'[q] = bo[q]
  BY <1>2, <1>3 DEF Deleting, Procs
<1>6. Steady(t)
  BY <1>1, <1>2, <1>3 DEF Steady, Others, InHand, ThreadInv, ThreadOK, WorkerInv, TypeOK, Procs
<1>7. RefCountExact' /\ \A c \in Bos : IsFiniteSet(Allocated(c)')
  BY <1>1, <1>2, <1>6, CountsKept DEF Procs
<1>10. TypeOK'
  BY <1>1, <1>2, <1>3, <1>4 DEF TypeOK, Procs
<1>11. ThreadInv'
  <2>1. \A u \in Threads \ {t} : ThreadOK(u)'
    BY <1>1, <1>2, <1>3 DEF ThreadInv, ThreadOK, Procs
  <2>2. ThreadOK(t)'
    BY <1>1, <1>2, <1>3 DEF TypeOK, ThreadInv, ThreadOK, DestroyInv, Procs, ThreadLabels, Dropping, Destroying
  <2> QED  BY <2>1, <2>2 DEF ThreadInv
<1>12. DestroyInv'
  BY <1>1, <1>2, <1>3 DEF TypeOK, ThreadInv, ThreadOK, DestroyInv, Procs, Dropping, Destroying
<1>13. MtxInv'
  <2>1. \A q \in Procs : /\ pc'[q] = "import_find" <=> pc[q] = "import_find"
                         /\ pc'[q] \in {"u_sub", "u_close"} <=> pc[q] \in {"u_sub", "u_close"}
    BY <1>2, <1>3 DEF Procs
  <2> QED
    BY <1>1, <1>2, <2>1 DEF MtxInv
<1>14. MutexInv'
  BY <1>1, <1>2, <1>3 DEF TypeOK, MutexInv, WorkerInv, Procs, Dropping, WorkerLabels
<1>15. WorkerInv'
  BY <1>1, <1>2, <1>3 DEF TypeOK, WorkerInv, MutexInv, Closing, Procs, Dropping, WorkerLabels
<1>16. HolderInv'
  BY <1>1, <1>2, <1>3, <1>7 DEF TypeOK, HolderInv, ThreadInv, ThreadOK, DestroyInv, Procs, Dropping, Destroying, ThreadLabels
<1>17. LiveInv'
  BY <1>1, <1>2, <1>3 DEF TypeOK, LiveInv
<1>18. DeleterInv'
  BY <1>1, <1>2, <1>3, <1>5 DEF DeleterInv
<1>19. GpuInv'
  BY <1>1, <1>2, <1>3 DEF TypeOK, GpuInv, ThreadInv, ThreadOK, HolderInv, Procs
<1>20. ListedInv'
  BY <1>1, <1>2, <1>3 DEF TypeOK, ListedInv
<1>21. ErasedInv'
  BY <1>1, <1>2, <1>3, <1>5 DEF ErasedInv, Deleting
<1>22. FinderInv'
  BY <1>1, <1>2, <1>3 DEF TypeOK, FinderInv, ThreadInv, ThreadOK, Procs
<1> QED  BY <1>10, <1>11, <1>12, <1>13, <1>14, <1>15, <1>16, <1>17, <1>18, <1>19, <1>20, <1>21, <1>22, <1>7 DEF IInv

LEMMA WaitIdleInv ==
  ASSUME IInv, NEW t \in Threads,
         WaitIdle(t)
  PROVE  IInv'
<1> USE ProcsAssumption, Kinds
<1>1. TypeOK /\ ThreadInv /\ DestroyInv /\ MtxInv /\ MutexInv /\ WorkerInv /\ HolderInv /\ RefCountExact
        /\ LiveInv /\ DeleterInv /\ GpuInv /\ ListedInv /\ ErasedInv /\ FinderInv
  BY DEF IInv
<1>2. /\ bo[t] \notin gpu
      /\ \/ pc[t] = "free_wait" /\ pc' = [pc EXCEPT ![t] = "u_lock"]
         \/ pc[t] = "clean_wait" /\ pc' = [pc EXCEPT ![t] = "u_spin"]
      /\ UNCHANGED <<life, refCount, handle, openHandles, sharing, holds, mtx, gpu, queue, localQueue, workCount, active, workerDone, closeWorkerMutex, bo, calls>>
  BY DEF WaitIdle, boVars, workerVars, Begin, Counted, At, Goto, NotifyAndGoto
<1>3. /\ \/ pc[t] = "free_wait" /\ pc'[t] = "u_lock"
         \/ pc[t] = "clean_wait" /\ pc'[t] = "u_spin"
      /\ \A q \in Procs \ {t} : pc'[q] = pc[q] /\ bo'[q] = bo[q]
  BY <1>1, <1>2 DEF TypeOK, Procs
<1>4. pc' \in [Procs -> Labels] /\ bo' \in [Procs -> Bos \cup DmaBufs \cup {None}]
  BY <1>1, <1>2 DEF TypeOK, Procs, Labels
<1>5. \A q \in Procs : pc'[q] \in Deleting => pc'[q] = pc[q] /\ bo'[q] = bo[q]
  BY <1>2, <1>3 DEF Deleting, Procs
<1>6. Steady(t)
  BY <1>1, <1>2, <1>3 DEF Steady, Others, InHand, ThreadInv, ThreadOK, WorkerInv, TypeOK, Procs
<1>7. RefCountExact' /\ \A c \in Bos : IsFiniteSet(Allocated(c)')
  BY <1>1, <1>2, <1>6, CountsKept DEF Procs
<1>10. TypeOK'
  BY <1>1, <1>2, <1>3, <1>4 DEF TypeOK, Procs
<1>11. ThreadInv'
  <2>1. \A u \in Threads \ {t} : ThreadOK(u)'
    BY <1>1, <1>2, <1>3 DEF ThreadInv, ThreadOK, Procs
  <2>2. ThreadOK(t)'
    BY <1>1, <1>2, <1>3 DEF TypeOK, ThreadInv, ThreadOK, DestroyInv, Procs, ThreadLabels, Dropping, Destroying
  <2> QED  BY <2>1, <2>2 DEF ThreadInv
<1>12. DestroyInv'
  BY <1>1, <1>2, <1>3 DEF TypeOK, ThreadInv, ThreadOK, DestroyInv, Procs, Dropping, Destroying
<1>13. MtxInv'
  BY <1>1, <1>2, <1>3 DEF TypeOK, ThreadInv, ThreadOK, MtxInv, WorkerInv, Procs, Dropping, ThreadLabels, Destroying, WorkerLabels
<1>14. MutexInv'
  BY <1>1, <1>2, <1>3 DEF TypeOK, MutexInv, WorkerInv, Procs, Dropping, WorkerLabels
<1>15. WorkerInv'
  BY <1>1, <1>2, <1>3 DEF TypeOK, WorkerInv, MutexInv, Closing, Procs, Dropping, WorkerLabels
<1>16. HolderInv'
  BY <1>1, <1>2, <1>3, <1>7 DEF TypeOK, HolderInv, ThreadInv, ThreadOK, DestroyInv, Procs, Dropping, Destroying, ThreadLabels
<1>17. LiveInv'
  BY <1>1, <1>2, <1>3 DEF TypeOK, LiveInv
<1>18. DeleterInv'
  BY <1>1, <1>2, <1>3, <1>5 DEF DeleterInv
<1>19. GpuInv'
  <2>1. \A b \in gpu : HolderOf[b] # t \/ bo[t] # b
    BY <1>2
  <2>2. \A b \in gpu : HolderOf[b] \in Threads
    BY <1>1 DEF GpuInv
  <2> QED  BY <1>1, <1>2, <1>3, <2>1, <2>2 DEF GpuInv, Procs
<1>20. ListedInv'
  BY <1>1, <1>2, <1>3 DEF TypeOK, ListedInv
<1>21. ErasedInv'
  BY <1>1, <1>2, <1>3, <1>5 DEF ErasedInv, Deleting
<1>22. FinderInv'
  BY <1>1, <1>2, <1>3 DEF TypeOK, FinderInv, ThreadInv, ThreadOK, Procs
<1> QED  BY <1>10, <1>11, <1>12, <1>13, <1>14, <1>15, <1>16, <1>17, <1>18, <1>19, <1>20, <1>21, <1>22, <1>7 DEF IInv

LEMMA WorkerLoopInv ==
  ASSUME IInv, WorkerLoop
  PROVE  IInv'
<1> USE ProcsAssumption, Kinds
<1>1. TypeOK /\ ThreadInv /\ DestroyInv /\ MtxInv /\ MutexInv /\ WorkerInv /\ HolderInv /\ RefCountExact
        /\ LiveInv /\ DeleterInv /\ GpuInv /\ ListedInv /\ ErasedInv /\ FinderInv
  BY DEF IInv
<1>2. /\ pc[Worker] = "w_loop" /\ pc' = [pc EXCEPT ![Worker] = IF active THEN "w_lock" ELSE "w_final"]
      /\ UNCHANGED <<life, refCount, handle, openHandles, sharing, holds, mtx, gpu, queue, localQueue, workCount, active, workerDone, closeWorkerMutex, bo, calls>>
  BY DEF WorkerLoop, boVars, workerVars, Begin, Counted, At, Goto, NotifyAndGoto
<1>3. /\ pc'[Worker] = IF active THEN "w_lock" ELSE "w_final"
      /\ \A q \in Procs \ {Worker} : pc'[q] = pc[q] /\ bo'[q] = bo[q]
  BY <1>1, <1>2 DEF TypeOK, Procs
<1>4. pc' \in [Procs -> Labels] /\ bo' \in [Procs -> Bos \cup DmaBufs \cup {None}]
  BY <1>1, <1>2 DEF TypeOK, Procs, Labels
<1>5. \A q \in Procs : pc'[q] \in Deleting => pc'[q] = pc[q] /\ bo'[q] = bo[q]
  BY <1>2, <1>3 DEF Deleting, Procs
<1>6. Steady(Worker)
  BY <1>1, <1>2, <1>3 DEF Steady, Others, InHand, ThreadInv, ThreadOK, WorkerInv, TypeOK, Procs
<1>7. RefCountExact' /\ \A c \in Bos : IsFiniteSet(Allocated(c)')
  BY <1>1, <1>2, <1>6, CountsKept DEF Procs
<1>10. TypeOK'
  BY <1>1, <1>2, <1>3, <1>4 DEF TypeOK, Procs
<1>11. ThreadInv'
  BY <1>1, <1>2, <1>3 DEF ThreadInv, ThreadOK, Procs
<1>12. DestroyInv'
  BY <1>1, <1>2, <1>3 DEF TypeOK, ThreadInv, ThreadOK, DestroyInv, Procs, Dropping, Destroying
<1>13. MtxInv'
  BY <1>1, <1>2, <1>3 DEF TypeOK, ThreadInv, ThreadOK, MtxInv, WorkerInv, Procs, Dropping, ThreadLabels, Destroying, WorkerLabels
<1>14. MutexInv'
  BY <1>1, <1>2, <1>3 DEF TypeOK, MutexInv, WorkerInv, Procs, Dropping, WorkerLabels
<1>15. WorkerInv'
  BY <1>1, <1>2, <1>3 DEF TypeOK, WorkerInv, MutexInv, Closing, Procs, Dropping, WorkerLabels
<1>16. HolderInv'
  BY <1>1, <1>2, <1>3, <1>7 DEF TypeOK, HolderInv, ThreadInv, ThreadOK, DestroyInv, Procs, Dropping, Destroying, ThreadLabels
<1>17. LiveInv'
  BY <1>1, <1>2, <1>3 DEF TypeOK, LiveInv
<1>18. DeleterInv'
  BY <1>1, <1>2, <1>3, <1>5 DEF DeleterInv
<1>19. GpuInv'
  BY <1>1, <1>2, <1>3 DEF TypeOK, GpuInv, ThreadInv, ThreadOK, HolderInv, Procs
<1>20. ListedInv'
  BY <1>1, <1>2, <1>3 DEF TypeOK, ListedInv
<1>21. ErasedInv'
  BY <1>1, <1>2, <1>3, <1>5 DEF ErasedInv, Deleting
<1>22. FinderInv'
  BY <1>1, <1>2, <1>3 DEF TypeOK, FinderInv, ThreadInv, ThreadOK, Procs
<1> QED  BY <1>10, <1>11, <1>12, <1>13, <1>14, <1>15, <1>16, <1>17, <1>18, <1>19, <1>20, <1>21, <1>22, <1>7 DEF IInv

LEMMA WorkerLockInv ==
  ASSUME IInv, WorkerLock
  PROVE  IInv'
<1> USE ProcsAssumption, Kinds
<1>1. TypeOK /\ ThreadInv /\ DestroyInv /\ MtxInv /\ MutexInv /\ WorkerInv /\ HolderInv /\ RefCountExact
        /\ LiveInv /\ DeleterInv /\ GpuInv /\ ListedInv /\ ErasedInv /\ FinderInv
  BY DEF IInv
<1>2. /\ closeWorkerMutex = Nobody /\ closeWorkerMutex' = Worker
      /\ \/ pc[Worker] \in {"w_lock", "w_wake"} /\ pc' = [pc EXCEPT ![Worker] = "w_check"]
         \/ pc[Worker] = "w_final" /\ pc' = [pc EXCEPT ![Worker] = "w_drain"]
      /\ UNCHANGED <<life, refCount, handle, openHandles, sharing, holds, mtx, gpu, queue, localQueue, workCount, active, workerDone, bo, calls>>
  BY DEF WorkerLock, boVars, workerVars, Begin, Counted, At, Goto, NotifyAndGoto
<1>3. /\ \/ pc[Worker] \in {"w_lock", "w_wake"} /\ pc'[Worker] = "w_check"
         \/ pc[Worker] = "w_final" /\ pc'[Worker] = "w_drain"
      /\ \A q \in Procs \ {Worker} : pc'[q] = pc[q] /\ bo'[q] = bo[q]
  BY <1>1, <1>2 DEF TypeOK, Procs
<1>4. pc' \in [Procs -> Labels] /\ bo' \in [Procs -> Bos \cup DmaBufs \cup {None}]
  BY <1>1, <1>2 DEF TypeOK, Procs, Labels
<1>5. \A q \in Procs : pc'[q] \in Deleting => pc'[q] = pc[q] /\ bo'[q] = bo[q]
  BY <1>2, <1>3 DEF Deleting, Procs
<1>6. Steady(Worker)
  BY <1>1, <1>2, <1>3 DEF Steady, Others, InHand, ThreadInv, ThreadOK, WorkerInv, TypeOK, Procs
<1>7. RefCountExact' /\ \A c \in Bos : IsFiniteSet(Allocated(c)')
  BY <1>1, <1>2, <1>6, CountsKept DEF Procs
<1>10. TypeOK'
  BY <1>1, <1>2, <1>3, <1>4 DEF TypeOK, Procs
<1>11. ThreadInv'
  BY <1>1, <1>2, <1>3 DEF ThreadInv, ThreadOK, Procs
<1>12. DestroyInv'
  BY <1>1, <1>2, <1>3 DEF TypeOK, ThreadInv, ThreadOK, DestroyInv, Procs, Dropping, Destroying
<1>13. MtxInv'
  BY <1>1, <1>2, <1>3 DEF TypeOK, ThreadInv, ThreadOK, MtxInv, WorkerInv, Procs, Dropping, ThreadLabels, Destroying, WorkerLabels
<1>14. MutexInv'
  BY <1>1, <1>2, <1>3 DEF TypeOK, MutexInv, WorkerInv, Procs, Dropping, WorkerLabels
<1>15. WorkerInv'
  BY <1>1, <1>2, <1>3 DEF TypeOK, WorkerInv, MutexInv, Closing, Procs, Dropping, WorkerLabels
<1>16. HolderInv'
  BY <1>1, <1>2, <1>3, <1>7 DEF TypeOK, HolderInv, ThreadInv, ThreadOK, DestroyInv, Procs, Dropping, Destroying, ThreadLabels
<1>17. LiveInv'
  BY <1>1, <1>2, <1>3 DEF TypeOK, LiveInv
<1>18. DeleterInv'
  BY <1>1, <1>2, <1>3, <1>5 DEF DeleterInv
<1>19. GpuInv'
  BY <1>1, <1>2, <1>3 DEF TypeOK, GpuInv, ThreadInv, ThreadOK, HolderInv, Procs
<1>20. ListedInv'
  BY <1>1, <1>2, <1>3 DEF TypeOK, ListedInv
<1>21. ErasedInv'
  BY <1>1, <1>2, <1>3, <1>5 DEF ErasedInv, Deleting
<1>22. FinderInv'
  BY <1>1, <1>2, <1>3 DEF TypeOK, FinderInv, ThreadInv, ThreadOK, Procs
<1> QED  BY <1>10, <1>11, <1>12, <1>13, <1>14, <1>15, <1>16, <1>17, <1>18, <1>19, <1>20, <1>21, <1>22, <1>7 DEF IInv

LEMMA WorkerSleepInv ==
  ASSUME IInv, WorkerSleep
  PROVE  IInv'
<1> USE ProcsAssumption, Kinds
<1>1. TypeOK /\ ThreadInv /\ DestroyInv /\ MtxInv /\ MutexInv /\ WorkerInv /\ HolderInv /\ RefCountExact
        /\ LiveInv /\ DeleterInv /\ GpuInv /\ ListedInv /\ ErasedInv /\ FinderInv
  BY DEF IInv
<1>2. /\ closeWorkerMutex' = Nobody
      /\ pc[Worker] = "w_sleep" /\ pc' = [pc EXCEPT ![Worker] = "w_wait"]
      /\ UNCHANGED <<life, refCount, handle, openHandles, sharing, holds, mtx, gpu, queue, localQueue, workCount, active, workerDone, bo, calls>>
  BY DEF WorkerSleep, boVars, workerVars, Begin, Counted, At, Goto, NotifyAndGoto
<1>3. /\ pc'[Worker] = "w_wait"
      /\ \A q \in Procs \ {Worker} : pc'[q] = pc[q] /\ bo'[q] = bo[q]
  BY <1>1, <1>2 DEF TypeOK, Procs
<1>4. pc' \in [Procs -> Labels] /\ bo' \in [Procs -> Bos \cup DmaBufs \cup {None}]
  BY <1>1, <1>2 DEF TypeOK, Procs, Labels
<1>5. \A q \in Procs : pc'[q] \in Deleting => pc'[q] = pc[q] /\ bo'[q] = bo[q]
  BY <1>2, <1>3 DEF Deleting, Procs
<1>6. Steady(Worker)
  BY <1>1, <1>2, <1>3 DEF Steady, Others, InHand, ThreadInv, ThreadOK, WorkerInv, TypeOK, Procs
<1>7. RefCountExact' /\ \A c \in Bos : IsFiniteSet(Allocated(c)')
  BY <1>1, <1>2, <1>6, CountsKept DEF Procs
<1>10. TypeOK'
  BY <1>1, <1>2, <1>3, <1>4 DEF TypeOK, Procs
<1>11. ThreadInv'
  BY <1>1, <1>2, <1>3 DEF ThreadInv, ThreadOK, Procs
<1>12. DestroyInv'
  BY <1>1, <1>2, <1>3 DEF TypeOK, ThreadInv, ThreadOK, DestroyInv, Procs, Dropping, Destroying
<1>13. MtxInv'
  BY <1>1, <1>2, <1>3 DEF TypeOK, ThreadInv, ThreadOK, MtxInv, WorkerInv, Procs, Dropping, ThreadLabels, Destroying, WorkerLabels
<1>14. MutexInv'
  BY <1>1, <1>2, <1>3 DEF TypeOK, MutexInv, WorkerInv, Procs, Dropping, WorkerLabels
<1>15. WorkerInv'
  BY <1>1, <1>2, <1>3 DEF TypeOK, WorkerInv, MutexInv, Closing, Procs, Dropping, WorkerLabels
<1>16. HolderInv'
  BY <1>1, <1>2, <1>3, <1>7 DEF TypeOK, HolderInv, ThreadInv, ThreadOK, DestroyInv, Procs, Dropping, Destroying, ThreadLabels
<1>17. LiveInv'
  BY <1>1, <1>2, <1>3 DEF TypeOK, LiveInv
<1>18. DeleterInv'
  BY <1>1, <1>2, <1>3, <1>5 DEF DeleterInv
<1>19. GpuInv'
  BY <1>1, <1>2, <1>3 DEF TypeOK, GpuInv, ThreadInv, ThreadOK, HolderInv, Procs
<1>20. ListedInv'
  BY <1>1, <1>2, <1>3 DEF TypeOK, ListedInv
<1>21. ErasedInv'
  BY <1>1, <1>2, <1>3, <1>5 DEF ErasedInv, Deleting
<1>22. FinderInv'
  BY <1>1, <1>2, <1>3 DEF TypeOK, FinderInv, ThreadInv, ThreadOK, Procs
<1> QED  BY <1>10, <1>11, <1>12, <1>13, <1>14, <1>15, <1>16, <1>17, <1>18, <1>19, <1>20, <1>21, <1>22, <1>7 DEF IInv

LEMMA SpuriousWakeInv ==
  ASSUME IInv, SpuriousWake
  PROVE  IInv'
<1> USE ProcsAssumption, Kinds
<1>1. TypeOK /\ ThreadInv /\ DestroyInv /\ MtxInv /\ MutexInv /\ WorkerInv /\ HolderInv /\ RefCountExact
        /\ LiveInv /\ DeleterInv /\ GpuInv /\ ListedInv /\ ErasedInv /\ FinderInv
  BY DEF IInv
<1>2. /\ pc[Worker] = "w_wait" /\ pc' = [pc EXCEPT ![Worker] = "w_wake"]
      /\ UNCHANGED <<life, refCount, handle, openHandles, sharing, holds, mtx, gpu, queue, localQueue, workCount, active, workerDone, closeWorkerMutex, bo, calls>>
  BY DEF SpuriousWake, boVars, workerVars, Begin, Counted, At, Goto, NotifyAndGoto
<1>3. /\ pc'[Worker] = "w_wake"
      /\ \A q \in Procs \ {Worker} : pc'[q] = pc[q] /\ bo'[q] = bo[q]
  BY <1>1, <1>2 DEF TypeOK, Procs
<1>4. pc' \in [Procs -> Labels] /\ bo' \in [Procs -> Bos \cup DmaBufs \cup {None}]
  BY <1>1, <1>2 DEF TypeOK, Procs, Labels
<1>5. \A q \in Procs : pc'[q] \in Deleting => pc'[q] = pc[q] /\ bo'[q] = bo[q]
  BY <1>2, <1>3 DEF Deleting, Procs
<1>6. Steady(Worker)
  BY <1>1, <1>2, <1>3 DEF Steady, Others, InHand, ThreadInv, ThreadOK, WorkerInv, TypeOK, Procs
<1>7. RefCountExact' /\ \A c \in Bos : IsFiniteSet(Allocated(c)')
  BY <1>1, <1>2, <1>6, CountsKept DEF Procs
<1>10. TypeOK'
  BY <1>1, <1>2, <1>3, <1>4 DEF TypeOK, Procs
<1>11. ThreadInv'
  BY <1>1, <1>2, <1>3 DEF ThreadInv, ThreadOK, Procs
<1>12. DestroyInv'
  BY <1>1, <1>2, <1>3 DEF TypeOK, ThreadInv, ThreadOK, DestroyInv, Procs, Dropping, Destroying
<1>13. MtxInv'
  BY <1>1, <1>2, <1>3 DEF TypeOK, ThreadInv, ThreadOK, MtxInv, WorkerInv, Procs, Dropping, ThreadLabels, Destroying, WorkerLabels
<1>14. MutexInv'
  BY <1>1, <1>2, <1>3 DEF TypeOK, MutexInv, WorkerInv, Procs, Dropping, WorkerLabels
<1>15. WorkerInv'
  BY <1>1, <1>2, <1>3 DEF TypeOK, WorkerInv, MutexInv, Closing, Procs, Dropping, WorkerLabels
<1>16. HolderInv'
  BY <1>1, <1>2, <1>3, <1>7 DEF TypeOK, HolderInv, ThreadInv, ThreadOK, DestroyInv, Procs, Dropping, Destroying, ThreadLabels
<1>17. LiveInv'
  BY <1>1, <1>2, <1>3 DEF TypeOK, LiveInv
<1>18. DeleterInv'
  BY <1>1, <1>2, <1>3, <1>5 DEF DeleterInv
<1>19. GpuInv'
  BY <1>1, <1>2, <1>3 DEF TypeOK, GpuInv, ThreadInv, ThreadOK, HolderInv, Procs
<1>20. ListedInv'
  BY <1>1, <1>2, <1>3 DEF TypeOK, ListedInv
<1>21. ErasedInv'
  BY <1>1, <1>2, <1>3, <1>5 DEF ErasedInv, Deleting
<1>22. FinderInv'
  BY <1>1, <1>2, <1>3 DEF TypeOK, FinderInv, ThreadInv, ThreadOK, Procs
<1> QED  BY <1>10, <1>11, <1>12, <1>13, <1>14, <1>15, <1>16, <1>17, <1>18, <1>19, <1>20, <1>21, <1>22, <1>7 DEF IInv

LEMMA WorkerCountInv ==
  ASSUME IInv, WorkerCount
  PROVE  IInv'
<1> USE ProcsAssumption, Kinds
<1>1. TypeOK /\ ThreadInv /\ DestroyInv /\ MtxInv /\ MutexInv /\ WorkerInv /\ HolderInv /\ RefCountExact
        /\ LiveInv /\ DeleterInv /\ GpuInv /\ ListedInv /\ ErasedInv /\ FinderInv
  BY DEF IInv
<1>2. /\ pc[Worker] = "w_count" /\ workCount' = workCount - 1
      /\ \/ closeWorkerMutex = Worker /\ pc' = [pc EXCEPT ![Worker] = "w_drain"]
         \/ closeWorkerMutex # Worker /\ pc' = [pc EXCEPT ![Worker] = "w_close"]
      /\ UNCHANGED <<life, refCount, handle, openHandles, sharing, holds, mtx, gpu, queue, localQueue, active, workerDone, closeWorkerMutex, bo, calls>>
  BY DEF WorkerCount, boVars, workerVars, Begin, Counted, At, Goto, NotifyAndGoto
<1>3. /\ \/ closeWorkerMutex = Worker /\ pc'[Worker] = "w_drain"
         \/ closeWorkerMutex # Worker /\ pc'[Worker] = "w_close"
      /\ \A q \in Procs \ {Worker} : pc'[q] = pc[q] /\ bo'[q] = bo[q]
  BY <1>1, <1>2 DEF TypeOK, Procs
<1>4. pc' \in [Procs -> Labels] /\ bo' \in [Procs -> Bos \cup DmaBufs \cup {None}]
  BY <1>1, <1>2 DEF TypeOK, Procs, Labels
<1>5. \A q \in Procs : pc'[q] \in Deleting => pc'[q] = pc[q] /\ bo'[q] = bo[q]
  BY <1>2, <1>3 DEF Deleting, Procs
<1>6. Steady(Worker)
  BY <1>1, <1>2, <1>3 DEF Steady, Others, InHand, ThreadInv, ThreadOK, WorkerInv, TypeOK, Procs
<1>7. RefCountExact' /\ \A c \in Bos : IsFiniteSet(Allocated(c)')
  BY <1>1, <1>2, <1>6, CountsKept DEF Procs
<1>10. TypeOK'
  <2>1. workCount' \in Nat
    BY <1>1, <1>2 DEF TypeOK, WorkerInv, Closing
  <2> QED  BY <1>1, <1>2, <1>4, <2>1 DEF TypeOK
<1>11. ThreadInv'
  BY <1>1, <1>2, <1>3 DEF ThreadInv, ThreadOK, Procs
<1>12. DestroyInv'
  BY <1>1, <1>2, <1>3 DEF TypeOK, ThreadInv, ThreadOK, DestroyInv, Procs, Dropping, Destroying
<1>13. MtxInv'
  BY <1>1, <1>2, <1>3 DEF TypeOK, ThreadInv, ThreadOK, MtxInv, WorkerInv, Procs, Dropping, ThreadLabels, Destroying, WorkerLabels
<1>14. MutexInv'
  BY <1>1, <1>2, <1>3 DEF TypeOK, MutexInv, WorkerInv, Procs, Dropping, WorkerLabels
<1>15. WorkerInv'
  <2>1. workCount' = Len(queue') + Len(localQueue') + Closing'
    BY <1>1, <1>2, <1>3 DEF TypeOK, WorkerInv, Closing, Dropping
  <2> QED  BY <1>1, <1>2, <1>3, <2>1 DEF WorkerInv, MutexInv, Procs, Dropping, WorkerLabels
<1>16. HolderInv'
  BY <1>1, <1>2, <1>3, <1>7 DEF TypeOK, HolderInv, ThreadInv, ThreadOK, DestroyInv, Procs, Dropping, Destroying, ThreadLabels
<1>17. LiveInv'
  BY <1>1, <1>2, <1>3 DEF TypeOK, LiveInv
<1>18. DeleterInv'
  BY <1>1, <1>2, <1>3, <1>5 DEF DeleterInv
<1>19. GpuInv'
  BY <1>1, <1>2, <1>3 DEF TypeOK, GpuInv, ThreadInv, ThreadOK, HolderInv, Procs
<1>20. ListedInv'
  BY <1>1, <1>2, <1>3 DEF TypeOK, ListedInv
<1>21. ErasedInv'
  BY <1>1, <1>2, <1>3, <1>5 DEF ErasedInv, Deleting
<1>22. FinderInv'
  BY <1>1, <1>2, <1>3 DEF TypeOK, FinderInv, ThreadInv, ThreadOK, Procs
<1> QED  BY <1>10, <1>11, <1>12, <1>13, <1>14, <1>15, <1>16, <1>17, <1>18, <1>19, <1>20, <1>21, <1>22, <1>7 DEF IInv

LEMMA WorkerDoneInv ==
  ASSUME IInv, WorkerDone
  PROVE  IInv'
<1> USE ProcsAssumption, Kinds
<1>1. TypeOK /\ ThreadInv /\ DestroyInv /\ MtxInv /\ MutexInv /\ WorkerInv /\ HolderInv /\ RefCountExact
        /\ LiveInv /\ DeleterInv /\ GpuInv /\ ListedInv /\ ErasedInv /\ FinderInv
  BY DEF IInv
<1>2. /\ pc[Worker] = "w_done" /\ pc' = [pc EXCEPT ![Worker] = "w_exit"] /\ workerDone' = TRUE
      /\ UNCHANGED <<life, refCount, handle, openHandles, sharing, holds, mtx, gpu, queue, localQueue, workCount, active, closeWorkerMutex, bo, calls>>
  BY DEF WorkerDone, boVars, workerVars, Begin, Counted, At, Goto, NotifyAndGoto
<1>3. /\ pc'[Worker] = "w_exit"
      /\ \A q \in Procs \ {Worker} : pc'[q] = pc[q] /\ bo'[q] = bo[q]
  BY <1>1, <1>2 DEF TypeOK, Procs
<1>4. pc' \in [Procs -> Labels] /\ bo' \in [Procs -> Bos \cup DmaBufs \cup {None}]
  BY <1>1, <1>2 DEF TypeOK, Procs, Labels
<1>5. \A q \in Procs : pc'[q] \in Deleting => pc'[q] = pc[q] /\ bo'[q] = bo[q]
  BY <1>2, <1>3 DEF Deleting, Procs
<1>6. Steady(Worker)
  BY <1>1, <1>2, <1>3 DEF Steady, Others, InHand, ThreadInv, ThreadOK, WorkerInv, TypeOK, Procs
<1>7. RefCountExact' /\ \A c \in Bos : IsFiniteSet(Allocated(c)')
  BY <1>1, <1>2, <1>6, CountsKept DEF Procs
<1>10. TypeOK'
  BY <1>1, <1>2, <1>3, <1>4 DEF TypeOK, Procs
<1>11. ThreadInv'
  BY <1>1, <1>2, <1>3 DEF ThreadInv, ThreadOK, Procs
<1>12. DestroyInv'
  BY <1>1, <1>2, <1>3 DEF TypeOK, ThreadInv, ThreadOK, DestroyInv, Procs, Dropping, Destroying
<1>13. MtxInv'
  BY <1>1, <1>2, <1>3 DEF TypeOK, ThreadInv, ThreadOK, MtxInv, WorkerInv, Procs, Dropping, ThreadLabels, Destroying, WorkerLabels
<1>14. MutexInv'
  BY <1>1, <1>2, <1>3 DEF TypeOK, MutexInv, WorkerInv, Procs, Dropping, WorkerLabels
<1>15. WorkerInv'
  BY <1>1, <1>2, <1>3 DEF TypeOK, WorkerInv, MutexInv, Closing, Procs, Dropping, WorkerLabels
<1>16. HolderInv'
  BY <1>1, <1>2, <1>3, <1>7 DEF TypeOK, HolderInv, ThreadInv, ThreadOK, DestroyInv, Procs, Dropping, Destroying, ThreadLabels
<1>17. LiveInv'
  BY <1>1, <1>2, <1>3 DEF TypeOK, LiveInv
<1>18. DeleterInv'
  BY <1>1, <1>2, <1>3, <1>5 DEF DeleterInv
<1>19. GpuInv'
  BY <1>1, <1>2, <1>3 DEF TypeOK, GpuInv, ThreadInv, ThreadOK, HolderInv, Procs
<1>20. ListedInv'
  BY <1>1, <1>2, <1>3 DEF TypeOK, ListedInv
<1>21. ErasedInv'
  BY <1>1, <1>2, <1>3, <1>5 DEF ErasedInv, Deleting
<1>22. FinderInv'
  BY <1>1, <1>2, <1>3 DEF TypeOK, FinderInv, ThreadInv, ThreadOK, Procs
<1> QED  BY <1>10, <1>11, <1>12, <1>13, <1>14, <1>15, <1>16, <1>17, <1>18, <1>19, <1>20, <1>21, <1>22, <1>7 DEF IInv

LEMMA DestroyStartsInv ==
  ASSUME IInv, Destroy
  PROVE  IInv'
<1> USE ProcsAssumption, Kinds
<1>1. TypeOK /\ ThreadInv /\ DestroyInv /\ MtxInv /\ MutexInv /\ WorkerInv /\ HolderInv /\ RefCountExact
        /\ LiveInv /\ DeleterInv /\ GpuInv /\ ListedInv /\ ErasedInv /\ FinderInv
  BY DEF IInv
<1>2. /\ \A t \in Threads : pc[t] = "idle"
      /\ active /\ active' = FALSE /\ pc' = [pc EXCEPT ![Destroyer] = "d_notify"]
      /\ UNCHANGED <<life, refCount, handle, openHandles, sharing, holds, mtx, gpu, queue, localQueue, workCount, workerDone, closeWorkerMutex, bo, calls>>
  BY DEF Destroy, boVars, workerVars, Begin, Counted, At, Goto, NotifyAndGoto
<1>3. /\ pc'[Destroyer] = "d_notify"
      /\ \A q \in Procs \ {Destroyer} : pc'[q] = pc[q] /\ bo'[q] = bo[q]
  BY <1>1, <1>2 DEF TypeOK, Procs
<1>4. pc' \in [Procs -> Labels] /\ bo' \in [Procs -> Bos \cup DmaBufs \cup {None}]
  BY <1>1, <1>2 DEF TypeOK, Procs, Labels
<1>5. \A q \in Procs : pc'[q] \in Deleting => pc'[q] = pc[q] /\ bo'[q] = bo[q]
  BY <1>2, <1>3 DEF Deleting, Procs
<1>6. Steady(Destroyer)
  BY <1>1, <1>2, <1>3 DEF Steady, Others, InHand, ThreadInv, ThreadOK, WorkerInv, TypeOK, Procs
<1>7. RefCountExact' /\ \A c \in Bos : IsFiniteSet(Allocated(c)')
  BY <1>1, <1>2, <1>6, CountsKept DEF Procs
<1>10. TypeOK'
  BY <1>1, <1>2, <1>3, <1>4 DEF TypeOK, Procs
<1>11. ThreadInv'
  <2>1. \A u \in Threads \ {Destroyer} : ThreadOK(u)'
    BY <1>1, <1>2, <1>3 DEF ThreadInv, ThreadOK, Procs
  <2>2. ThreadOK(Destroyer)'
    BY <1>1, <1>2, <1>3 DEF TypeOK, ThreadInv, ThreadOK, DestroyInv, Procs, ThreadLabels, Dropping, Destroying
  <2> QED  BY <2>1, <2>2 DEF ThreadInv
<1>12. DestroyInv'
  BY <1>1, <1>2, <1>3 DEF TypeOK, ThreadInv, ThreadOK, DestroyInv, Procs, Dropping, Destroying
<1>13. MtxInv'
  BY <1>1, <1>2, <1>3 DEF TypeOK, ThreadInv, ThreadOK, MtxInv, WorkerInv, Procs, Dropping, ThreadLabels, Destroying, WorkerLabels
<1>14. MutexInv'
  BY <1>1, <1>2, <1>3 DEF TypeOK, MutexInv, WorkerInv, Procs, Dropping, WorkerLabels
<1>15. WorkerInv'
  BY <1>1, <1>2, <1>3 DEF TypeOK, WorkerInv, MutexInv, Closing, Procs, Dropping, WorkerLabels
<1>16. HolderInv'
  BY <1>1, <1>2, <1>3, <1>7 DEF TypeOK, HolderInv, ThreadInv, ThreadOK, DestroyInv, Procs, Dropping, Destroying, ThreadLabels
<1>17. LiveInv'
  BY <1>1, <1>2, <1>3 DEF TypeOK, LiveInv
<1>18. DeleterInv'
  BY <1>1, <1>2, <1>3, <1>5 DEF DeleterInv
<1>19. GpuInv'
  BY <1>1, <1>2, <1>3 DEF TypeOK, GpuInv, ThreadInv, ThreadOK, HolderInv, Procs
<1>20. ListedInv'
  BY <1>1, <1>2, <1>3 DEF TypeOK, ListedInv
<1>21. ErasedInv'
  BY <1>1, <1>2, <1>3, <1>5 DEF ErasedInv, Deleting
<1>22. FinderInv'
  BY <1>1, <1>2, <1>3 DEF TypeOK, FinderInv, ThreadInv, ThreadOK, Procs
<1> QED  BY <1>10, <1>11, <1>12, <1>13, <1>14, <1>15, <1>16, <1>17, <1>18, <1>19, <1>20, <1>21, <1>22, <1>7 DEF IInv

LEMMA DestroyNotifyInv ==
  ASSUME IInv, DestroyNotify
  PROVE  IInv'
<1> USE ProcsAssumption, Kinds
<1>1. TypeOK /\ ThreadInv /\ DestroyInv /\ MtxInv /\ MutexInv /\ WorkerInv /\ HolderInv /\ RefCountExact
        /\ LiveInv /\ DeleterInv /\ GpuInv /\ ListedInv /\ ErasedInv /\ FinderInv
  BY DEF IInv
<1>2. /\ pc[Destroyer] = "d_notify"
      /\ pc' = [pc EXCEPT ![Destroyer] = "d_pin", ![Worker] = IF @ = "w_wait" THEN "w_wake" ELSE @]
      /\ UNCHANGED <<life, refCount, handle, openHandles, sharing, holds, mtx, gpu, queue, localQueue, workCount, active, workerDone, closeWorkerMutex, bo, calls>>
  BY DEF DestroyNotify, boVars, workerVars, Begin, Counted, At, Goto, NotifyAndGoto
<1>3. /\ pc'[Destroyer] = "d_pin"
      /\ \A q \in Threads \ {Destroyer} : pc'[q] = pc[q]
      /\ \A q \in Procs : bo'[q] = bo[q]
      /\ \/ pc[Worker] = "w_wait" /\ pc'[Worker] = "w_wake"
         \/ pc'[Worker] = pc[Worker]
  BY <1>1, <1>2 DEF TypeOK, Procs
<1>4. pc' \in [Procs -> Labels] /\ bo' \in [Procs -> Bos \cup DmaBufs \cup {None}]
  BY <1>1, <1>2 DEF TypeOK, Procs, Labels
<1>5. \A q \in Procs : pc'[q] \in Deleting => pc'[q] = pc[q] /\ bo'[q] = bo[q]
  BY <1>2, <1>3 DEF Deleting, Procs
<1>6. Steady(Destroyer)
  BY <1>1, <1>2, <1>3 DEF Steady, Others, InHand, ThreadInv, ThreadOK, WorkerInv, TypeOK, Procs
<1>7. RefCountExact' /\ \A c \in Bos : IsFiniteSet(Allocated(c)')
  BY <1>1, <1>2, <1>6, CountsKept DEF Procs
<1>10. TypeOK'
  BY <1>1, <1>2, <1>3, <1>4 DEF TypeOK, Procs
<1>11. ThreadInv'
  <2>1. \A u \in Threads \ {Destroyer} : ThreadOK(u)'
    BY <1>1, <1>2, <1>3 DEF ThreadInv, ThreadOK, Procs
  <2>2. ThreadOK(Destroyer)'
    BY <1>1, <1>2, <1>3 DEF TypeOK, ThreadInv, ThreadOK, DestroyInv, Procs, ThreadLabels, Dropping, Destroying
  <2> QED  BY <2>1, <2>2 DEF ThreadInv
<1>12. DestroyInv'
  BY <1>1, <1>2, <1>3 DEF TypeOK, ThreadInv, ThreadOK, DestroyInv, Procs, Dropping, Destroying
<1>13. MtxInv'
  <2>1. \A q \in Procs : /\ pc'[q] = "import_find" <=> pc[q] = "import_find"
                         /\ pc'[q] \in {"u_sub", "u_close"} <=> pc[q] \in {"u_sub", "u_close"}
    BY <1>2, <1>3 DEF Procs
  <2> QED
    BY <1>1, <1>2, <2>1 DEF MtxInv
<1>14. MutexInv'
  BY <1>1, <1>2, <1>3 DEF TypeOK, MutexInv, WorkerInv, Procs, Dropping, WorkerLabels
<1>15. WorkerInv'
  BY <1>1, <1>2, <1>3 DEF TypeOK, WorkerInv, MutexInv, Closing, Procs, Dropping, WorkerLabels
<1>16. HolderInv'
  BY <1>1, <1>2, <1>3, <1>7 DEF TypeOK, HolderInv, ThreadInv, ThreadOK, DestroyInv, Procs, Dropping, Destroying, ThreadLabels
<1>17. LiveInv'
  BY <1>1, <1>2, <1>3 DEF TypeOK, LiveInv
<1>18. DeleterInv'
  BY <1>1, <1>2, <1>3, <1>5 DEF DeleterInv
<1>19. GpuInv'
  BY <1>1, <1>2, <1>3 DEF TypeOK, GpuInv, ThreadInv, ThreadOK, HolderInv, Procs
<1>20. ListedInv'
  BY <1>1, <1>2, <1>3 DEF TypeOK, ListedInv
<1>21. ErasedInv'
  BY <1>1, <1>2, <1>3, <1>5 DEF ErasedInv, Deleting
<1>22. FinderInv'
  BY <1>1, <1>2, <1>3 DEF TypeOK, FinderInv, ThreadInv, ThreadOK, Procs
<1> QED  BY <1>10, <1>11, <1>12, <1>13, <1>14, <1>15, <1>16, <1>17, <1>18, <1>19, <1>20, <1>21, <1>22, <1>7 DEF IInv

LEMMA DestroyWorkerInv ==
  ASSUME IInv, DestroyWorker
  PROVE  IInv'
<1> USE ProcsAssumption, Kinds
<1>1. TypeOK /\ ThreadInv /\ DestroyInv /\ MtxInv /\ MutexInv /\ WorkerInv /\ HolderInv /\ RefCountExact
        /\ LiveInv /\ DeleterInv /\ GpuInv /\ ListedInv /\ ErasedInv /\ FinderInv
  BY DEF IInv
<1>2. /\ pc[Destroyer] = "d_worker" /\ active' = FALSE
      /\ pc' = [pc EXCEPT ![Destroyer] = "d_close"]
      /\ UNCHANGED <<life, refCount, handle, openHandles, sharing, holds, mtx, gpu, queue, localQueue, workCount, workerDone, closeWorkerMutex, bo, calls>>
  BY DEF DestroyWorker, boVars, workerVars, Begin, Counted, At, Goto, NotifyAndGoto
<1>3. /\ pc'[Destroyer] = "d_close"
      /\ \A q \in Procs \ {Destroyer} : pc'[q] = pc[q] /\ bo'[q] = bo[q]
  BY <1>1, <1>2 DEF TypeOK, Procs
<1>4. pc' \in [Procs -> Labels] /\ bo' \in [Procs -> Bos \cup DmaBufs \cup {None}]
  BY <1>1, <1>2 DEF TypeOK, Procs, Labels
<1>5. \A q \in Procs : pc'[q] \in Deleting => pc'[q] = pc[q] /\ bo'[q] = bo[q]
  BY <1>2, <1>3 DEF Deleting, Procs
<1>6. Steady(Destroyer)
  BY <1>1, <1>2, <1>3 DEF Steady, Others, InHand, ThreadInv, ThreadOK, WorkerInv, TypeOK, Procs
<1>7. RefCountExact' /\ \A c \in Bos : IsFiniteSet(Allocated(c)')
  BY <1>1, <1>2, <1>6, CountsKept DEF Procs
<1>10. TypeOK'
  BY <1>1, <1>2, <1>3, <1>4 DEF TypeOK, Procs
<1>11. ThreadInv'
  <2>1. \A u \in Threads \ {Destroyer} : ThreadOK(u)'
    BY <1>1, <1>2, <1>3 DEF ThreadInv, ThreadOK, Procs
  <2>2. ThreadOK(Destroyer)'
    BY <1>1, <1>2, <1>3 DEF TypeOK, ThreadInv, ThreadOK, DestroyInv, Procs, ThreadLabels, Dropping, Destroying
  <2> QED  BY <2>1, <2>2 DEF ThreadInv
<1>12. DestroyInv'
  BY <1>1, <1>2, <1>3 DEF TypeOK, ThreadInv, ThreadOK, DestroyInv, Procs, Dropping, Destroying
<1>13. MtxInv'
  <2>1. \A q \in Procs : /\ pc'[q] = "import_find" <=> pc[q] = "import_find"
                         /\ pc'[q] \in {"u_sub", "u_close"} <=> pc[q] \in {"u_sub", "u_close"}
    BY <1>2, <1>3 DEF Procs
  <2> QED
    BY <1>1, <1>2, <2>1 DEF MtxInv
<1>14. MutexInv'
  BY <1>1, <1>2, <1>3 DEF TypeOK, MutexInv, WorkerInv, Procs, Dropping, WorkerLabels
<1>15. WorkerInv'
  BY <1>1, <1>2, <1>3 DEF TypeOK, WorkerInv, MutexInv, Closing, Procs, Dropping, WorkerLabels
<1>16. HolderInv'
  BY <1>1, <1>2, <1>3, <1>7 DEF TypeOK, HolderInv, ThreadInv, ThreadOK, DestroyInv, Procs, Dropping, Destroying, ThreadLabels
<1>17. LiveInv'
  BY <1>1, <1>2, <1>3 DEF TypeOK, LiveInv
<1>18. DeleterInv'
  BY <1>1, <1>2, <1>3, <1>5 DEF DeleterInv
<1>19. GpuInv'
  BY <1>1, <1>2, <1>3 DEF TypeOK, GpuInv, ThreadInv, ThreadOK, HolderInv, Procs
<1>20. ListedInv'
  BY <1>1, <1>2, <1>3 DEF TypeOK, ListedInv
<1>21. ErasedInv'
  BY <1>1, <1>2, <1>3, <1>5 DEF ErasedInv, Deleting
<1>22. FinderInv'
  BY <1>1, <1>2, <1>3 DEF TypeOK, FinderInv, ThreadInv, ThreadOK, Procs
<1> QED  BY <1>10, <1>11, <1>12, <1>13, <1>14, <1>15, <1>16, <1>17, <1>18, <1>19, <1>20, <1>21, <1>22, <1>7 DEF IInv

LEMMA CloseThreadInv ==
  ASSUME IInv, closeThread
  PROVE  IInv'
<1> USE ProcsAssumption, Kinds
<1>1. TypeOK /\ ThreadInv /\ DestroyInv /\ MtxInv /\ MutexInv /\ WorkerInv /\ HolderInv /\ RefCountExact
        /\ LiveInv /\ DeleterInv /\ GpuInv /\ ListedInv /\ ErasedInv /\ FinderInv
  BY DEF IInv
<1>2. /\ pc[Destroyer] = "d_close"
      /\ \/ pc' = [pc EXCEPT ![Destroyer] = "d_close", ![Worker] = IF @ = "w_wait" THEN "w_wake" ELSE @]
         \/ pc[Worker] = "w_exit" /\ pc' = [pc EXCEPT ![Destroyer] = "destroyed"]
      /\ UNCHANGED <<life, refCount, handle, openHandles, sharing, holds, mtx, gpu, queue, localQueue, workCount, active, workerDone, closeWorkerMutex, bo, calls>>
  BY DEF closeThread, boVars, workerVars, Begin, Counted, At, Goto, NotifyAndGoto
<1>3. /\ \/ pc'[Destroyer] = "d_close"
         \/ pc'[Destroyer] = "destroyed" /\ pc[Worker] = "w_exit"
      /\ \A q \in Threads \ {Destroyer} : pc'[q] = pc[q]
      /\ \A q \in Procs : bo'[q] = bo[q]
      /\ \/ pc[Worker] = "w_wait" /\ pc'[Worker] = "w_wake"
         \/ pc'[Worker] = pc[Worker]
  BY <1>1, <1>2 DEF TypeOK, Procs
<1>4. pc' \in [Procs -> Labels] /\ bo' \in [Procs -> Bos \cup DmaBufs \cup {None}]
  BY SMTT(60), <1>1, <1>2 DEF TypeOK, Procs, Labels
<1>5. \A q \in Procs : pc'[q] \in Deleting => pc'[q] = pc[q] /\ bo'[q] = bo[q]
  BY <1>2, <1>3 DEF Deleting, Procs
<1>6. Steady(Destroyer)
  BY <1>1, <1>2, <1>3 DEF Steady, Others, InHand, ThreadInv, ThreadOK, WorkerInv, TypeOK, Procs
<1>7. RefCountExact' /\ \A c \in Bos : IsFiniteSet(Allocated(c)')
  BY <1>1, <1>2, <1>6, CountsKept DEF Procs
<1>10. TypeOK'
  BY <1>1, <1>2, <1>3, <1>4 DEF TypeOK, Procs
<1>11. ThreadInv'
  <2>1. \A u \in Threads \ {Destroyer} : ThreadOK(u)'
    BY <1>1, <1>2, <1>3 DEF ThreadInv, ThreadOK, Procs
  <2>2. ThreadOK(Destroyer)'
    BY <1>1, <1>2, <1>3 DEF TypeOK, ThreadInv, ThreadOK, DestroyInv, Procs, ThreadLabels, Dropping, Destroying
  <2> QED  BY <2>1, <2>2 DEF ThreadInv
<1>12. DestroyInv'
  BY <1>1, <1>2, <1>3 DEF TypeOK, ThreadInv, ThreadOK, DestroyInv, Procs, Dropping, Destroying
<1>13. MtxInv'
  BY <1>1, <1>2, <1>3 DEF TypeOK, ThreadInv, ThreadOK, MtxInv, WorkerInv, Procs, Dropping, ThreadLabels, Destroying, WorkerLabels
<1>14. MutexInv'
  BY <1>1, <1>2, <1>3 DEF TypeOK, MutexInv, WorkerInv, Procs, Dropping, WorkerLabels
<1>15. WorkerInv'
  BY <1>1, <1>2, <1>3 DEF TypeOK, WorkerInv, MutexInv, Closing, Procs, Dropping, WorkerLabels
<1>16. HolderInv'
  BY <1>1, <1>2, <1>3, <1>7 DEF TypeOK, HolderInv, ThreadInv, ThreadOK, DestroyInv, Procs, Dropping, Destroying, ThreadLabels
<1>17. LiveInv'
  BY <1>1, <1>2, <1>3 DEF TypeOK, LiveInv
<1>18. DeleterInv'
  BY <1>1, <1>2, <1>3, <1>5 DEF DeleterInv
<1>19. GpuInv'
  BY <1>1, <1>2, <1>3 DEF TypeOK, GpuInv, ThreadInv, ThreadOK, HolderInv, Procs
<1>20. ListedInv'
  BY <1>1, <1>2, <1>3 DEF TypeOK, ListedInv
<1>21. ErasedInv'
  BY <1>1, <1>2, <1>3, <1>5 DEF ErasedInv, Deleting
<1>22. FinderInv'
  BY <1>1, <1>2, <1>3 DEF TypeOK, FinderInv, ThreadInv, ThreadOK, Procs
<1> QED  BY <1>10, <1>11, <1>12, <1>13, <1>14, <1>15, <1>16, <1>17, <1>18, <1>19, <1>20, <1>21, <1>22, <1>7 DEF IInv

LEMMA FlushReferenceInv ==
  ASSUME IInv, NEW t \in Threads,
         FlushReference(t)
  PROVE  IInv'
<1> USE ProcsAssumption, Kinds
<1>1. TypeOK /\ ThreadInv /\ DestroyInv /\ MtxInv /\ MutexInv /\ WorkerInv /\ HolderInv /\ RefCountExact
        /\ LiveInv /\ DeleterInv /\ GpuInv /\ ListedInv /\ ErasedInv /\ FinderInv
  BY DEF IInv
<1>2. /\ pc[t] = "flush_reference" /\ pc' = [pc EXCEPT ![t] = "push"]
      /\ refCount' = [refCount EXCEPT ![bo[t]] = @ + 1]
      /\ UNCHANGED <<life, handle, openHandles, sharing, holds, mtx, gpu, queue, localQueue, workCount, active, workerDone, closeWorkerMutex, bo, calls>>
  BY DEF FlushReference, boVars, workerVars, Begin, Counted, At, Goto, NotifyAndGoto
<1>3. /\ pc'[t] = "push" /\ bo'[t] = bo[t]
      /\ \A q \in Procs \ {t} : pc'[q] = pc[q] /\ bo'[q] = bo[q]
  BY <1>1, <1>2 DEF TypeOK, Procs
<1>4. pc' \in [Procs -> Labels] /\ bo' \in [Procs -> Bos \cup DmaBufs \cup {None}]
  BY <1>1, <1>2 DEF TypeOK, Procs, Labels
<1>5. \A q \in Procs : pc'[q] \in Deleting => pc'[q] = pc[q] /\ bo'[q] = bo[q]
  BY <1>2, <1>3 DEF Deleting, Procs
<1>6. bo[t] \in CmdBos /\ bo[t] \in Bos /\ refCount[bo[t]] # 0
  <2>1. bo[t] \in CmdBos /\ bo[t] \in Bos /\ holds[t][bo[t]] # 0
    BY <1>1, <1>2 DEF ThreadInv, ThreadOK, TypeOK
  <2> QED  BY <1>1, <2>1, Unreferenced
<1>7. /\ refCount' \in [Bos -> Nat] /\ refCount'[bo[t]] = refCount[bo[t]] + 1
      /\ \A c \in Bos \ {bo[t]} : refCount'[c] = refCount[c]
  BY <1>1, <1>2, <1>6 DEF TypeOK
<1>10. TypeOK'
  BY <1>1, <1>2, <1>4, <1>7 DEF TypeOK
<1>11. ThreadInv'
  <2>1. \A u \in Threads \ {t} : ThreadOK(u)'
    BY <1>1, <1>2, <1>3 DEF ThreadInv, ThreadOK, Procs
  <2>2. ThreadOK(t)'
    BY <1>1, <1>2, <1>3 DEF TypeOK, ThreadInv, ThreadOK, DestroyInv, Procs, ThreadLabels, Dropping, Destroying
  <2> QED  BY <2>1, <2>2 DEF ThreadInv
<1>12. DestroyInv'
  BY <1>1, <1>2, <1>3 DEF TypeOK, ThreadInv, ThreadOK, DestroyInv, Procs, Dropping, Destroying
<1>13. MtxInv'
  BY <1>1, <1>2, <1>3 DEF TypeOK, ThreadInv, ThreadOK, MtxInv, WorkerInv, Procs, Dropping, ThreadLabels, Destroying, WorkerLabels
<1>14. MutexInv'
  BY <1>1, <1>2, <1>3 DEF TypeOK, MutexInv, WorkerInv, Procs, Dropping, WorkerLabels
<1>15. WorkerInv'
  BY <1>1, <1>2, <1>3 DEF TypeOK, WorkerInv, MutexInv, Closing, Procs, Dropping, WorkerLabels
<1>16. HolderInv'
  <2>1. \A c \in Bos : Allocated(c)' = Allocated(c)
    BY <1>2 DEF Allocated
  <2> QED  BY <1>1, <1>2, <1>3, <2>1 DEF TypeOK, HolderInv, ThreadInv, ThreadOK, DestroyInv, Procs, Dropping, Destroying, ThreadLabels
<1>17. RefCountExact'
  <2>1. Others(t)
    BY <1>1, <1>2, <1>3 DEF Others, InHand, Procs, TypeOK
  <2> SUFFICES ASSUME NEW c \in Bos
               PROVE  refCount'[c] = Cardinality(Allocated(c))' + Cardinality(Running(c))'
                                     + Count(queue, c)' + Count(localQueue, c)'
    BY DEF RefCountExact
  <2>2. ~InHand(t, c) /\ (InHand(t, c)' <=> c = bo[t])
    BY <1>1, <1>2, <1>3 DEF InHand, ThreadInv, ThreadOK, WorkerInv, TypeOK, Dropping, Procs
  <2>3. Cardinality(Allocated(c))' = Cardinality(Allocated(c))
    BY <1>2 DEF Allocated
  <2>4. Count(queue, c)' = Count(queue, c) /\ Count(localQueue, c)' = Count(localQueue, c)
    BY <1>2 DEF Count
  <2>5. refCount'[c] = refCount[c] + (IF c = bo[t] THEN 1 ELSE 0) /\ refCount[c] \in Nat
    <3>1. refCount[c] \in Nat
      BY <1>1 DEF TypeOK
    <3> QED  BY <3>1, <1>7
  <2>6. /\ Cardinality(Allocated(c)) \in Nat /\ Cardinality(Running(c)) \in Nat
        /\ Count(queue, c) \in Nat /\ Count(localQueue, c) \in Nat
        /\ refCount[c] = Cardinality(Allocated(c)) + Cardinality(Running(c))
                         + Count(queue, c) + Count(localQueue, c)
        /\ Cardinality(Running(c))' = Cardinality(Running(c)) + (IF InHand(t, c)' THEN 1 ELSE 0)
                                      - (IF InHand(t, c) THEN 1 ELSE 0)
    BY <1>1, <2>1, References DEF Procs
  <2> QED  BY <2>2, <2>3, <2>4, <2>5, <2>6
<1>18. LiveInv'
  BY <1>1, <1>2, <1>6, <1>7 DEF LiveInv
<1>19. DeleterInv'
  <2>1. \A q \in Procs : pc[q] \in Deleting => bo[q] \in Bos /\ bo[q] # bo[t]
    BY <1>1, <1>6 DEF DeleterInv, Deleting, ThreadInv, ThreadOK, WorkerInv, Dropping, Procs
  <2> QED  BY <1>1, <1>2, <1>5, <1>7, <2>1 DEF DeleterInv
<1>20. GpuInv'
  BY <1>1, <1>2, <1>3 DEF TypeOK, GpuInv, ThreadInv, ThreadOK, HolderInv, Procs
<1>21. ListedInv'
  BY <1>1, <1>2, <1>6, <1>7 DEF TypeOK, ListedInv
<1>22. ErasedInv'
  BY <1>1, <1>2, <1>3, <1>5 DEF ErasedInv, Deleting
<1>23. FinderInv'
  BY <1>1, <1>2, <1>3 DEF TypeOK, FinderInv, ThreadInv, ThreadOK, Procs
<1> QED  BY <1>10, <1>11, <1>12, <1>13, <1>14, <1>15, <1>16, <1>17, <1>18, <1>19, <1>20, <1>21, <1>22, <1>23 DEF IInv

LEMMA PushInv ==
  ASSUME IInv, NEW t \in Threads,
         Push(t)
  PROVE  IInv'
<1> USE ProcsAssumption, Kinds
<1>1. TypeOK /\ ThreadInv /\ DestroyInv /\ MtxInv /\ MutexInv /\ WorkerInv /\ HolderInv /\ RefCountExact
        /\ LiveInv /\ DeleterInv /\ GpuInv /\ ListedInv /\ ErasedInv /\ FinderInv
  BY DEF IInv
<1>2. /\ pc[t] = "push" /\ pc' = [pc EXCEPT ![t] = "push_notify"] /\ closeWorkerMutex = Nobody
      /\ queue' = Append(queue, bo[t]) /\ workCount' = workCount + 1
      /\ UNCHANGED <<life, refCount, handle, openHandles, sharing, holds, mtx, gpu, localQueue, active, workerDone, closeWorkerMutex, bo, calls>>
  BY DEF Push, boVars, workerVars, Begin, Counted, At, Goto, NotifyAndGoto
<1>3. /\ pc'[t] = "push_notify" /\ bo'[t] = bo[t]
      /\ \A q \in Procs \ {t} : pc'[q] = pc[q] /\ bo'[q] = bo[q]
  BY <1>1, <1>2 DEF TypeOK, Procs
<1>4. pc' \in [Procs -> Labels] /\ bo' \in [Procs -> Bos \cup DmaBufs \cup {None}]
  BY <1>1, <1>2 DEF TypeOK, Procs, Labels
<1>5. \A q \in Procs : pc'[q] \in Deleting => pc'[q] = pc[q] /\ bo'[q] = bo[q]
  BY <1>2, <1>3 DEF Deleting, Procs
<1>6. bo[t] \in CmdBos /\ bo[t] \in Bos
  BY <1>1, <1>2 DEF ThreadInv, ThreadOK
<1>7. queue' \in Seq(CmdBos) /\ queue' \in Seq(Bos) /\ Len(queue') = Len(queue) + 1 /\ Len(queue) \in Nat
  BY <1>1, <1>2, <1>6 DEF TypeOK, WorkerInv
<1>8. active
  BY <1>1, <1>2 DEF DestroyInv, Destroying, Dropping
<1>10. TypeOK'
  BY <1>1, <1>2, <1>4, <1>7 DEF TypeOK
<1>11. ThreadInv'
  <2>1. \A u \in Threads \ {t} : ThreadOK(u)'
    BY <1>1, <1>2, <1>3 DEF ThreadInv, ThreadOK, Procs
  <2>2. ThreadOK(t)'
    BY <1>1, <1>2, <1>3 DEF TypeOK, ThreadInv, ThreadOK, DestroyInv, Procs, ThreadLabels, Dropping, Destroying
  <2> QED  BY <2>1, <2>2 DEF ThreadInv
<1>12. DestroyInv'
  BY <1>1, <1>2, <1>3 DEF TypeOK, ThreadInv, ThreadOK, DestroyInv, Procs, Dropping, Destroying
<1>13. MtxInv'
  BY <1>1, <1>2, <1>3 DEF TypeOK, ThreadInv, ThreadOK, MtxInv, WorkerInv, Procs, Dropping, ThreadLabels, Destroying, WorkerLabels
<1>14. MutexInv'
  BY <1>1, <1>2, <1>3 DEF TypeOK, MutexInv, WorkerInv, Procs, Dropping, WorkerLabels
<1>15. WorkerInv'
  <2>1. Len(queue) \in Nat /\ Len(localQueue) \in Nat /\ Closing \in Nat /\ Closing' = Closing
    BY <1>1, <1>2, <1>3 DEF TypeOK, Closing, Procs
  <2>2. workCount' = Len(queue') + Len(localQueue') + Closing'
    BY <1>1, <1>2, <1>7, <2>1 DEF WorkerInv
  <2> QED  BY <1>1, <1>2, <1>3, <1>7, <1>8, <2>2 DEF WorkerInv, Procs, Dropping, WorkerLabels
<1>16. HolderInv'
  <2>1. \A c \in Bos : Allocated(c)' = Allocated(c)
    BY <1>2 DEF Allocated
  <2> QED  BY <1>1, <1>2, <1>3, <2>1 DEF TypeOK, HolderInv, ThreadInv, ThreadOK, DestroyInv, Procs, Dropping, Destroying, ThreadLabels
<1>17. RefCountExact'
  <2>1. Others(t)
    BY <1>1, <1>2, <1>3 DEF Others, InHand, Procs, TypeOK
  <2> SUFFICES ASSUME NEW c \in Bos
               PROVE  refCount'[c] = Cardinality(Allocated(c))' + Cardinality(Running(c))'
                                     + Count(queue, c)' + Count(localQueue, c)'
    BY DEF RefCountExact
  <2>2. (InHand(t, c) <=> c = bo[t]) /\ ~InHand(t, c)'
    BY <1>1, <1>2, <1>3 DEF InHand, ThreadInv, ThreadOK, WorkerInv, TypeOK, Dropping, Procs
  <2>3. Cardinality(Allocated(c))' = Cardinality(Allocated(c))
    BY <1>2 DEF Allocated
  <2>4. /\ Count(queue, c)' = Count(queue, c) + (IF c = bo[t] THEN 1 ELSE 0)
        /\ Count(localQueue, c)' = Count(localQueue, c)
    <3>1. queue \in Seq(Bos)
      BY <1>1 DEF TypeOK
    <3>2. Count(Append(queue, bo[t]), c) = Count(queue, c) + (IF c = bo[t] THEN 1 ELSE 0)
      BY <1>6, <3>1, CountAppend
    <3> QED  BY <1>2, <3>2 DEF Count
  <2>5. refCount'[c] = refCount[c]
    BY <1>2
  <2>6. /\ Cardinality(Allocated(c)) \in Nat /\ Cardinality(Running(c)) \in Nat
        /\ Count(queue, c) \in Nat /\ Count(localQueue, c) \in Nat
        /\ refCount[c] = Cardinality(Allocated(c)) + Cardinality(Running(c))
                         + Count(queue, c) + Count(localQueue, c)
        /\ Cardinality(Running(c))' = Cardinality(Running(c)) + (IF InHand(t, c)' THEN 1 ELSE 0)
                                      - (IF InHand(t, c) THEN 1 ELSE 0)
    BY <1>1, <2>1, References DEF Procs
  <2> QED  BY <2>2, <2>3, <2>4, <2>5, <2>6
<1>18. LiveInv'
  BY <1>1, <1>2, <1>3 DEF TypeOK, LiveInv
<1>19. DeleterInv'
  BY <1>1, <1>2, <1>3, <1>5 DEF DeleterInv
<1>20. GpuInv'
  BY <1>1, <1>2, <1>3 DEF TypeOK, GpuInv, ThreadInv, ThreadOK, HolderInv, Procs
<1>21. ListedInv'
  BY <1>1, <1>2, <1>3 DEF TypeOK, ListedInv
<1>22. ErasedInv'
  BY <1>1, <1>2, <1>3, <1>5 DEF ErasedInv, Deleting
<1>23. FinderInv'
  BY <1>1, <1>2, <1>3 DEF TypeOK, FinderInv, ThreadInv, ThreadOK, Procs
<1> QED  BY <1>10, <1>11, <1>12, <1>13, <1>14, <1>15, <1>16, <1>17, <1>18, <1>19, <1>20, <1>21, <1>22, <1>23 DEF IInv

LEMMA FreeInv ==
  ASSUME IInv, NEW t \in Threads, NEW b \in Bos,
         freeGraphicsMemory(t, b)
  PROVE  IInv'
<1> USE ProcsAssumption, Kinds
<1>1. TypeOK /\ ThreadInv /\ DestroyInv /\ MtxInv /\ MutexInv /\ WorkerInv /\ HolderInv /\ RefCountExact
        /\ LiveInv /\ DeleterInv /\ GpuInv /\ ListedInv /\ ErasedInv /\ FinderInv
  BY DEF IInv
<1>2. /\ pc[t] = "idle" /\ active /\ b \in CmdBos \cup SharedBos /\ holds[t][b] > 0
      /\ pc' = [pc EXCEPT ![t] = "free_wait"] /\ bo' = [bo EXCEPT ![t] = b]
      /\ holds' = [holds EXCEPT ![t][b] = @ - 1]
      /\ UNCHANGED <<life, refCount, handle, openHandles, sharing, mtx, gpu, queue, localQueue, workCount, active, workerDone, closeWorkerMutex, calls>>
  BY DEF freeGraphicsMemory, Release, boVars, workerVars, Begin, Counted, At, Goto, NotifyAndGoto
<1>3. /\ pc'[t] = "free_wait" /\ bo'[t] = b
      /\ \A q \in Procs \ {t} : pc'[q] = pc[q] /\ bo'[q] = bo[q]
  BY <1>1, <1>2 DEF TypeOK, Procs
<1>4. pc' \in [Procs -> Labels] /\ bo' \in [Procs -> Bos \cup DmaBufs \cup {None}]
  BY <1>1, <1>2 DEF TypeOK, Procs, Labels
<1>5. \A q \in Procs : pc'[q] \in Deleting => pc'[q] = pc[q] /\ bo'[q] = bo[q]
  BY <1>2, <1>3 DEF Deleting, Procs
<1>6. b # pinBB
  BY <1>2
<1>7. /\ holds' \in [Threads -> [Bos -> Nat]] /\ holds'[t][b] = holds[t][b] - 1 /\ holds[t][b] \in Nat
      /\ \A u \in Threads, c \in Bos : u # t \/ c # b => holds'[u][c] = holds[u][c]
  BY <1>1, <1>2 DEF TypeOK
<1>8. \A c \in Bos : /\ IsFiniteSet(Allocated(c)')
                     /\ Cardinality(Allocated(c))' = Cardinality(Allocated(c)) - (IF c = b THEN 1 ELSE 0)
  BY <1>1, <1>2, AllocatedLose DEF TypeOK, HolderInv
<1>10. TypeOK'
  BY <1>1, <1>2, <1>4, <1>7 DEF TypeOK
<1>11. ThreadInv'
  <2>1. ASSUME NEW u \in Threads \ {t} PROVE ThreadOK(u)'
    <3>1. ThreadOK(u) /\ pc'[u] = pc[u] /\ bo'[u] = bo[u] /\ active' = active
      BY <1>1, <1>2, <1>3 DEF ThreadInv, Procs
    <3>2. bo[u] \in Bos => holds'[u][bo[u]] = holds[u][bo[u]]
      BY <1>7
    <3> QED  BY <3>1, <3>2 DEF ThreadOK
  <2>2. ThreadOK(t)'
    BY <1>2, <1>3 DEF ThreadOK, ThreadLabels, Dropping, Destroying
  <2> QED  BY <2>1, <2>2 DEF ThreadInv
<1>12. DestroyInv'
  BY <1>1, <1>2, <1>3 DEF TypeOK, ThreadInv, ThreadOK, DestroyInv, Procs, Dropping, Destroying
<1>13. MtxInv'
  BY <1>1, <1>2, <1>3 DEF TypeOK, ThreadInv, ThreadOK, MtxInv, WorkerInv, Procs, Dropping, ThreadLabels, Destroying, WorkerLabels
<1>14. MutexInv'
  BY <1>1, <1>2, <1>3 DEF TypeOK, MutexInv, WorkerInv, Procs, Dropping, WorkerLabels
<1>15. WorkerInv'
  BY <1>1, <1>2, <1>3 DEF TypeOK, WorkerInv, MutexInv, Closing, Procs, Dropping, WorkerLabels
<1>16. HolderInv'
  <2>1. \A u \in Threads : \A c \in PrivateBos : holds'[u][c] > 0 => u = HolderOf[c] /\ holds'[u][c] = 1
    <3>1. TAKE u \in Threads
    <3>2. TAKE c \in PrivateBos
    <3>3. c \in Bos /\ (holds[u][c] > 0 => u = HolderOf[c] /\ holds[u][c] = 1)
      BY <1>1 DEF HolderInv
    <3>4. CASE u = t /\ c = b
      BY <3>3, <3>4, <1>2, <1>7
    <3>5. CASE u # t \/ c # b
      BY <3>3, <3>5, <1>7
    <3> QED  BY <3>4, <3>5
  <2>2. holds'[Destroyer][pinBB] = holds[Destroyer][pinBB]
    BY <1>6, <1>7
  <2> QED  BY <1>1, <1>2, <1>8, <2>1, <2>2 DEF HolderInv
<1>17. RefCountExact'
  <2>1. Others(t)
    BY <1>1, <1>2, <1>3 DEF Others, InHand, Procs, TypeOK
  <2> SUFFICES ASSUME NEW c \in Bos
               PROVE  refCount'[c] = Cardinality(Allocated(c))' + Cardinality(Running(c))'
                                     + Count(queue, c)' + Count(localQueue, c)'
    BY DEF RefCountExact
  <2>2. ~InHand(t, c) /\ (InHand(t, c)' <=> c = b)
    BY <1>1, <1>2, <1>3 DEF InHand, ThreadInv, ThreadOK, WorkerInv, TypeOK, Dropping, Procs
  <2>3. Cardinality(Allocated(c))' = Cardinality(Allocated(c)) - (IF c = b THEN 1 ELSE 0)
    BY <1>8
  <2>4. Count(queue, c)' = Count(queue, c) /\ Count(localQueue, c)' = Count(localQueue, c)
    BY <1>2 DEF Count
  <2>5. refCount'[c] = refCount[c]
    BY <1>2
  <2>6. /\ Cardinality(Allocated(c)) \in Nat /\ Cardinality(Running(c)) \in Nat
        /\ Count(queue, c) \in Nat /\ Count(localQueue, c) \in Nat
        /\ refCount[c] = Cardinality(Allocated(c)) + Cardinality(Running(c))
                         + Count(queue, c) + Count(localQueue, c)
        /\ Cardinality(Running(c))' = Cardinality(Running(c)) + (IF InHand(t, c)' THEN 1 ELSE 0)
                                      - (IF InHand(t, c) THEN 1 ELSE 0)
    BY <1>1, <2>1, References DEF Procs
  <2> QED  BY <2>2, <2>3, <2>4, <2>5, <2>6
<1>18. LiveInv'
  BY <1>1, <1>2, <1>3 DEF TypeOK, LiveInv
<1>19. DeleterInv'
  BY <1>1, <1>2, <1>3, <1>5 DEF DeleterInv
<1>20. GpuInv'
  <2> SUFFICES ASSUME NEW c \in gpu
               PROVE  /\ c \in CmdBos \cup Fragments
                      /\ \/ holds'[HolderOf[c]][c] > 0
                         \/ pc'[HolderOf[c]] \in {"free_wait", "clean_wait"} /\ bo'[HolderOf[c]] = c
    BY <1>2 DEF GpuInv
  <2>1. /\ c \in CmdBos \cup Fragments /\ HolderOf[c] \in Threads /\ c \in Bos /\ c \in PrivateBos
        /\ \/ holds[HolderOf[c]][c] > 0
           \/ pc[HolderOf[c]] \in {"free_wait", "clean_wait"} /\ bo[HolderOf[c]] = c
    BY <1>1 DEF GpuInv
  <2>2. CASE HolderOf[c] = t /\ c = b
    BY <2>1, <2>2, <1>3
  <2>3. CASE HolderOf[c] = t /\ c # b
    BY <2>1, <2>3, <1>2, <1>7
  <2>4. CASE HolderOf[c] # t
    BY <2>1, <2>4, <1>3, <1>7 DEF Procs
  <2> QED  BY <2>2, <2>3, <2>4
<1>21. ListedInv'
  BY <1>1, <1>2, <1>3 DEF TypeOK, ListedInv
<1>22. ErasedInv'
  BY <1>1, <1>2, <1>3, <1>5 DEF ErasedInv, Deleting
<1>23. FinderInv'
  BY <1>1, <1>2, <1>3 DEF TypeOK, FinderInv, ThreadInv, ThreadOK, Procs
<1> QED  BY <1>10, <1>11, <1>12, <1>13, <1>14, <1>15, <1>16, <1>17, <1>18, <1>19, <1>20, <1>21, <1>22, <1>23 DEF IInv

LEMMA CleanInv ==
  ASSUME IInv, NEW t \in Threads, NEW b \in Bos,
         cleanOsHandles(t, b)
  PROVE  IInv'
<1> USE ProcsAssumption, Kinds
<1>1. TypeOK /\ ThreadInv /\ DestroyInv /\ MtxInv /\ MutexInv /\ WorkerInv /\ HolderInv /\ RefCountExact
        /\ LiveInv /\ DeleterInv /\ GpuInv /\ ListedInv /\ ErasedInv /\ FinderInv
  BY DEF IInv
<1>2. /\ pc[t] = "idle" /\ active /\ b \in Fragments /\ holds[t][b] > 0
      /\ pc' = [pc EXCEPT ![t] = "clean_wait"] /\ bo' = [bo EXCEPT ![t] = b]
      /\ holds' = [holds EXCEPT ![t][b] = @ - 1]
      /\ UNCHANGED <<life, refCount, handle, openHandles, sharing, mtx, gpu, queue, localQueue, workCount, active, workerDone, closeWorkerMutex, calls>>
  BY DEF cleanOsHandles, Release, boVars, workerVars, Begin, Counted, At, Goto, NotifyAndGoto
<1>3. /\ pc'[t] = "clean_wait" /\ bo'[t] = b
      /\ \A q \in Procs \ {t} : pc'[q] = pc[q] /\ bo'[q] = bo[q]
  BY <1>1, <1>2 DEF TypeOK, Procs
<1>4. pc' \in [Procs -> Labels] /\ bo' \in [Procs -> Bos \cup DmaBufs \cup {None}]
  BY <1>1, <1>2 DEF TypeOK, Procs, Labels
<1>5. \A q \in Procs : pc'[q] \in Deleting => pc'[q] = pc[q] /\ bo'[q] = bo[q]
  BY <1>2, <1>3 DEF Deleting, Procs
<1>6. b # pinBB
  BY <1>2
<1>7. /\ holds' \in [Threads -> [Bos -> Nat]] /\ holds'[t][b] = holds[t][b] - 1 /\ holds[t][b] \in Nat
      /\ \A u \in Threads, c \in Bos : u # t \/ c # b => holds'[u][c] = holds[u][c]
  BY <1>1, <1>2 DEF TypeOK
<1>8. \A c \in Bos : /\ IsFiniteSet(Allocated(c)')
                     /\ Cardinality(Allocated(c))' = Cardinality(Allocated(c)) - (IF c = b THEN 1 ELSE 0)
  BY <1>1, <1>2, AllocatedLose DEF TypeOK, HolderInv
<1>10. TypeOK'
  BY <1>1, <1>2, <1>4, <1>7 DEF TypeOK
<1>11. ThreadInv'
  <2>1. ASSUME NEW u \in Threads \ {t} PROVE ThreadOK(u)'
    <3>1. ThreadOK(u) /\ pc'[u] = pc[u] /\ bo'[u] = bo[u] /\ active' = active
      BY <1>1, <1>2, <1>3 DEF ThreadInv, Procs
    <3>2. bo[u] \in Bos => holds'[u][bo[u]] = holds[u][bo[u]]
      BY <1>7
    <3> QED  BY <3>1, <3>2 DEF ThreadOK
  <2>2. ThreadOK(t)'
    BY <1>2, <1>3 DEF ThreadOK, ThreadLabels, Dropping, Destroying
  <2> QED  BY <2>1, <2>2 DEF ThreadInv
<1>12. DestroyInv'
  BY <1>1, <1>2, <1>3 DEF TypeOK, ThreadInv, ThreadOK, DestroyInv, Procs, Dropping, Destroying
<1>13. MtxInv'
  BY <1>1, <1>2, <1>3 DEF TypeOK, ThreadInv, ThreadOK, MtxInv, WorkerInv, Procs, Dropping, ThreadLabels, Destroying, WorkerLabels
<1>14. MutexInv'
  BY <1>1, <1>2, <1>3 DEF TypeOK, MutexInv, WorkerInv, Procs, Dropping, WorkerLabels
<1>15. WorkerInv'
  BY <1>1, <1>2, <1>3 DEF TypeOK, WorkerInv, MutexInv, Closing, Procs, Dropping, WorkerLabels
<1>16. HolderInv'
  <2>1. \A u \in Threads : \A c \in PrivateBos : holds'[u][c] > 0 => u = HolderOf[c] /\ holds'[u][c] = 1
    <3>1. TAKE u \in Threads
    <3>2. TAKE c \in PrivateBos
    <3>3. c \in Bos /\ (holds[u][c] > 0 => u = HolderOf[c] /\ holds[u][c] = 1)
      BY <1>1 DEF HolderInv
    <3>4. CASE u = t /\ c = b
      BY <3>3, <3>4, <1>2, <1>7
    <3>5. CASE u # t \/ c # b
      BY <3>3, <3>5, <1>7
    <3> QED  BY <3>4, <3>5
  <2>2. holds'[Destroyer][pinBB] = holds[Destroyer][pinBB]
    BY <1>6, <1>7
  <2> QED  BY <1>1, <1>2, <1>8, <2>1, <2>2 DEF HolderInv
<1>17. RefCountExact'
  <2>1. Others(t)
    BY <1>1, <1>2, <1>3 DEF Others, InHand, Procs, TypeOK
  <2> SUFFICES ASSUME NEW c \in Bos
               PROVE  refCount'[c] = Cardinality(Allocated(c))' + Cardinality(Running(c))'
                                     + Count(queue, c)' + Count(localQueue, c)'
    BY DEF RefCountExact
  <2>2. ~InHand(t, c) /\ (InHand(t, c)' <=> c = b)
    BY <1>1, <1>2, <1>3 DEF InHand, ThreadInv, ThreadOK, WorkerInv, TypeOK, Dropping, Procs
  <2>3. Cardinality(Allocated(c))' = Cardinality(Allocated(c)) - (IF c = b THEN 1 ELSE 0)
    BY <1>8
  <2>4. Count(queue, c)' = Count(queue, c) /\ Count(localQueue, c)' = Count(localQueue, c)
    BY <1>2 DEF Count
  <2>5. refCount'[c] = refCount[c]
    BY <1>2
  <2>6. /\ Cardinality(Allocated(c)) \in Nat /\ Cardinality(Running(c)) \in Nat
        /\ Count(queue, c) \in Nat /\ Count(localQueue, c) \in Nat
        /\ refCount[c] = Cardinality(Allocated(c)) + Cardinality(Running(c))
                         + Count(queue, c) + Count(localQueue, c)
        /\ Cardinality(Running(c))' = Cardinality(Running(c)) + (IF InHand(t, c)' THEN 1 ELSE 0)
                                      - (IF InHand(t, c) THEN 1 ELSE 0)
    BY <1>1, <2>1, References DEF Procs
  <2> QED  BY <2>2, <2>3, <2>4, <2>5, <2>6
<1>18. LiveInv'
  BY <1>1, <1>2, <1>3 DEF TypeOK, LiveInv
<1>19. DeleterInv'
  BY <1>1, <1>2, <1>3, <1>5 DEF DeleterInv
<1>20. GpuInv'
  <2> SUFFICES ASSUME NEW c \in gpu
               PROVE  /\ c \in CmdBos \cup Fragments
                      /\ \/ holds'[HolderOf[c]][c] > 0
                         \/ pc'[HolderOf[c]] \in {"free_wait", "clean_wait"} /\ bo'[HolderOf[c]] = c
    BY <1>2 DEF GpuInv
  <2>1. /\ c \in CmdBos \cup Fragments /\ HolderOf[c] \in Threads /\ c \in Bos /\ c \in PrivateBos
        /\ \/ holds[HolderOf[c]][c] > 0
           \/ pc[HolderOf[c]] \in {"free_wait", "clean_wait"} /\ bo[HolderOf[c]] = c
    BY <1>1 DEF GpuInv
  <2>2. CASE HolderOf[c] = t /\ c = b
    BY <2>1, <2>2, <1>3
  <2>3. CASE HolderOf[c] = t /\ c # b
    BY <2>1, <2>3, <1>2, <1>7
  <2>4. CASE HolderOf[c] # t
    BY <2>1, <2>4, <1>3, <1>7 DEF Procs
  <2> QED  BY <2>2, <2>3, <2>4
<1>21. ListedInv'
  BY <1>1, <1>2, <1>3 DEF TypeOK, ListedInv
<1>22. ErasedInv'
  BY <1>1, <1>2, <1>3, <1>5 DEF ErasedInv, Deleting
<1>23. FinderInv'
  BY <1>1, <1>2, <1>3 DEF TypeOK, FinderInv, ThreadInv, ThreadOK, Procs
<1> QED  BY <1>10, <1>11, <1>12, <1>13, <1>14, <1>15, <1>16, <1>17, <1>18, <1>19, <1>20, <1>21, <1>22, <1>23 DEF IInv

LEMMA ImportInv ==
  ASSUME IInv, NEW t \in Threads, NEW d \in DmaBufs,
         Import(t, d)
  PROVE  IInv'
<1> USE ProcsAssumption, Kinds
<1>1. TypeOK /\ ThreadInv /\ DestroyInv /\ MtxInv /\ MutexInv /\ WorkerInv /\ HolderInv /\ RefCountExact
        /\ LiveInv /\ DeleterInv /\ GpuInv /\ ListedInv /\ ErasedInv /\ FinderInv
  BY DEF IInv
<1>2. /\ pc[t] = "idle" /\ active
      /\ pc' = [pc EXCEPT ![t] = "import_handle"] /\ bo' = [bo EXCEPT ![t] = d]
      /\ calls' = [calls EXCEPT ![t] = @ + 1]
      /\ UNCHANGED <<life, refCount, handle, openHandles, sharing, holds, mtx, gpu, queue, localQueue, workCount, active, workerDone, closeWorkerMutex>>
  BY DEF Import, boVars, workerVars, Begin, Counted, At, Goto, NotifyAndGoto
<1>3. /\ pc'[t] = "import_handle" /\ bo'[t] = d
      /\ \A q \in Procs \ {t} : pc'[q] = pc[q] /\ bo'[q] = bo[q]
  BY <1>1, <1>2 DEF TypeOK, Procs
<1>4. pc' \in [Procs -> Labels] /\ bo' \in [Procs -> Bos \cup DmaBufs \cup {None}]
  BY <1>1, <1>2 DEF TypeOK, Procs, Labels
<1>5. \A q \in Procs : pc'[q] \in Deleting => pc'[q] = pc[q] /\ bo'[q] = bo[q]
  BY <1>2, <1>3 DEF Deleting, Procs
<1>6. Steady(t)
  BY <1>1, <1>2, <1>3 DEF Steady, Others, InHand, ThreadInv, ThreadOK, WorkerInv, TypeOK, Procs
<1>7. RefCountExact' /\ \A c \in Bos : IsFiniteSet(Allocated(c)')
  BY <1>1, <1>2, <1>6, CountsKept DEF Procs
<1>10. TypeOK'
  <2>2. calls' \in [Threads -> Nat]
    BY <1>1, <1>2 DEF TypeOK
  <2> QED  BY <1>1, <1>2, <1>4, <2>2 DEF TypeOK
<1>11. ThreadInv'
  <2>1. \A u \in Threads \ {t} : ThreadOK(u)'
    BY <1>1, <1>2, <1>3 DEF ThreadInv, ThreadOK, Procs
  <2>2. ThreadOK(t)'
    BY <1>1, <1>2, <1>3 DEF TypeOK, ThreadInv, ThreadOK, DestroyInv, Procs, ThreadLabels, Dropping, Destroying
  <2> QED  BY <2>1, <2>2 DEF ThreadInv
<1>12. DestroyInv'
  BY <1>1, <1>2, <1>3 DEF TypeOK, ThreadInv, ThreadOK, DestroyInv, Procs, Dropping, Destroying
<1>13. MtxInv'
  BY <1>1, <1>2, <1>3 DEF TypeOK, ThreadInv, ThreadOK, MtxInv, WorkerInv, Procs, Dropping, ThreadLabels, Destroying, WorkerLabels
<1>14. MutexInv'
  BY <1>1, <1>2, <1>3 DEF TypeOK, MutexInv, WorkerInv, Procs, Dropping, WorkerLabels
<1>15. WorkerInv'
  BY <1>1, <1>2, <1>3 DEF TypeOK, WorkerInv, MutexInv, Closing, Procs, Dropping, WorkerLabels
<1>16. HolderInv'
  BY <1>1, <1>2, <1>3, <1>7 DEF TypeOK, HolderInv, ThreadInv, ThreadOK, DestroyInv, Procs, Dropping, Destroying, ThreadLabels
<1>17. LiveInv'
  BY <1>1, <1>2, <1>3 DEF TypeOK, LiveInv
<1>18. DeleterInv'
  BY <1>1, <1>2, <1>3, <1>5 DEF DeleterInv
<1>19. GpuInv'
  BY <1>1, <1>2, <1>3 DEF TypeOK, GpuInv, ThreadInv, ThreadOK, HolderInv, Procs
<1>20. ListedInv'
  BY <1>1, <1>2, <1>3 DEF TypeOK, ListedInv
<1>21. ErasedInv'
  BY <1>1, <1>2, <1>3, <1>5 DEF ErasedInv, Deleting
<1>22. FinderInv'
  BY <1>1, <1>2, <1>3 DEF TypeOK, FinderInv, ThreadInv, ThreadOK, Procs
<1> QED  BY <1>10, <1>11, <1>12, <1>13, <1>14, <1>15, <1>16, <1>17, <1>18, <1>19, <1>20, <1>21, <1>22, <1>7 DEF IInv

LEMMA ImportHandleInv ==
  ASSUME IInv, NEW t \in Threads,
         ImportHandle(t)
  PROVE  IInv'
<1> USE ProcsAssumption, Kinds
<1>1. TypeOK /\ ThreadInv /\ DestroyInv /\ MtxInv /\ MutexInv /\ WorkerInv /\ HolderInv /\ RefCountExact
        /\ LiveInv /\ DeleterInv /\ GpuInv /\ ListedInv /\ ErasedInv /\ FinderInv
  BY DEF IInv
<1>2. /\ pc[t] = "import_handle" /\ mtx = Nobody
      /\ \/ /\ openHandles' = openHandles \cup {bo[t]}
            /\ mtx' = t /\ pc' = [pc EXCEPT ![t] = "import_find"]
         \/ pc' = [pc EXCEPT ![t] = "idle"] /\ UNCHANGED <<openHandles, mtx>>
      /\ UNCHANGED <<life, refCount, handle, sharing, holds, gpu, queue, localQueue, workCount, active, workerDone, closeWorkerMutex, bo, calls>>
  BY DEF ImportHandle, boVars, workerVars, Begin, Counted, At, Goto, NotifyAndGoto
<1>3. /\ bo[t] \in DmaBufs
      /\ \/ openHandles' = openHandles \cup {bo[t]} /\ mtx' = t /\ pc'[t] = "import_find"
         \/ openHandles' = openHandles /\ mtx' = mtx /\ pc'[t] = "idle"
      /\ \A q \in Procs \ {t} : pc'[q] = pc[q] /\ bo'[q] = bo[q]
  BY <1>1, <1>2 DEF TypeOK, Procs, ThreadInv, ThreadOK
<1>4. pc' \in [Procs -> Labels] /\ bo' \in [Procs -> Bos \cup DmaBufs \cup {None}]
  BY <1>1, <1>2 DEF TypeOK, Procs, Labels
<1>5. \A q \in Procs : pc'[q] \in Deleting => pc'[q] = pc[q] /\ bo'[q] = bo[q]
  BY <1>2, <1>3 DEF Deleting, Procs
<1>6. Steady(t)
  BY <1>1, <1>2, <1>3 DEF Steady, Others, InHand, ThreadInv, ThreadOK, WorkerInv, TypeOK, Procs
<1>7. RefCountExact' /\ \A c \in Bos : IsFiniteSet(Allocated(c)')
  BY <1>1, <1>2, <1>6, CountsKept DEF Procs
<1>10. TypeOK'
  BY <1>1, <1>2, <1>3, <1>4 DEF TypeOK, Procs
<1>11. ThreadInv'
  <2>1. \A u \in Threads \ {t} : ThreadOK(u)'
    BY <1>1, <1>2, <1>3 DEF ThreadInv, ThreadOK, Procs
  <2>2. ThreadOK(t)'
    BY <1>1, <1>2, <1>3 DEF TypeOK, ThreadInv, ThreadOK, DestroyInv, Procs, ThreadLabels, Dropping, Destroying
  <2> QED  BY <2>1, <2>2 DEF ThreadInv
<1>12. DestroyInv'
  BY <1>1, <1>2, <1>3 DEF TypeOK, ThreadInv, ThreadOK, DestroyInv, Procs, Dropping, Destroying
<1>13. MtxInv'
  BY <1>1, <1>2, <1>3 DEF TypeOK, ThreadInv, ThreadOK, MtxInv, WorkerInv, Procs, Dropping, ThreadLabels, Destroying, WorkerLabels
<1>14. MutexInv'
  BY <1>1, <1>2, <1>3 DEF TypeOK, MutexInv, WorkerInv, Procs, Dropping, WorkerLabels
<1>15. WorkerInv'
  BY <1>1, <1>2, <1>3 DEF TypeOK, WorkerInv, MutexInv, Closing, Procs, Dropping, WorkerLabels
<1>16. HolderInv'
  BY <1>1, <1>2, <1>3, <1>7 DEF TypeOK, HolderInv, ThreadInv, ThreadOK, DestroyInv, Procs, Dropping, Destroying, ThreadLabels
<1>17. LiveInv'
  BY <1>1, <1>2, <1>3 DEF TypeOK, LiveInv
<1>18. DeleterInv'
  BY <1>1, <1>2, <1>3, <1>5 DEF DeleterInv
<1>19. GpuInv'
  BY <1>1, <1>2, <1>3 DEF TypeOK, GpuInv, ThreadInv, ThreadOK, HolderInv, Procs
<1>20. ListedInv'
  BY <1>1, <1>2, <1>3 DEF TypeOK, ListedInv
<1>21. ErasedInv'
  BY <1>1, <1>2, <1>3, <1>5 DEF ErasedInv, Deleting
<1>22. FinderInv'
  BY <1>1, <1>2, <1>3 DEF TypeOK, FinderInv, ThreadInv, ThreadOK, Procs
<1> QED  BY <1>10, <1>11, <1>12, <1>13, <1>14, <1>15, <1>16, <1>17, <1>18, <1>19, <1>20, <1>21, <1>22, <1>7 DEF IInv

LEMMA UnreferenceSpinInv ==
  ASSUME IInv, NEW p \in Procs,
         UnreferenceSpin(p)
  PROVE  IInv'
<1> USE ProcsAssumption, Kinds
<1>1. TypeOK /\ ThreadInv /\ DestroyInv /\ MtxInv /\ MutexInv /\ WorkerInv /\ HolderInv /\ RefCountExact
        /\ LiveInv /\ DeleterInv /\ GpuInv /\ ListedInv /\ ErasedInv /\ FinderInv
  BY DEF IInv
<1>2. /\ pc[p] = "u_spin" /\ pc' = [pc EXCEPT ![p] = "u_lock"]
      /\ UNCHANGED <<life, refCount, handle, openHandles, sharing, holds, mtx, gpu, queue, localQueue, workCount, active, workerDone, closeWorkerMutex, bo, calls>>
  BY DEF UnreferenceSpin, boVars, workerVars, Begin, Counted, At, Goto, NotifyAndGoto
<1>3. /\ p \in Threads /\ pc'[p] = "u_lock"
      /\ \A q \in Procs \ {p} : pc'[q] = pc[q] /\ bo'[q] = bo[q]
  BY <1>1, <1>2 DEF TypeOK, Procs, WorkerInv, WorkerLabels, Dropping
<1>4. pc' \in [Procs -> Labels] /\ bo' \in [Procs -> Bos \cup DmaBufs \cup {None}]
  BY <1>1, <1>2 DEF TypeOK, Procs, Labels
<1>5. \A q \in Procs : pc'[q] \in Deleting => pc'[q] = pc[q] /\ bo'[q] = bo[q]
  BY <1>2, <1>3 DEF Deleting, Procs
<1>6. Steady(p)
  BY <1>1, <1>2, <1>3 DEF Steady, Others, InHand, ThreadInv, ThreadOK, WorkerInv, TypeOK, Procs
<1>7. RefCountExact' /\ \A c \in Bos : IsFiniteSet(Allocated(c)')
  BY <1>1, <1>2, <1>6, CountsKept DEF Procs
<1>10. TypeOK'
  BY <1>1, <1>2, <1>3, <1>4 DEF TypeOK, Procs
<1>11. ThreadInv'
  <2>1. \A u \in Threads \ {p} : ThreadOK(u)'
    BY <1>1, <1>2, <1>3 DEF ThreadInv, ThreadOK, Procs
  <2>2. ThreadOK(p)'
    BY <1>1, <1>2, <1>3 DEF TypeOK, ThreadInv, ThreadOK, DestroyInv, Procs, ThreadLabels, Dropping, Destroying
  <2> QED  BY <2>1, <2>2 DEF ThreadInv
<1>12. DestroyInv'
  BY <1>1, <1>2, <1>3 DEF TypeOK, ThreadInv, ThreadOK, DestroyInv, Procs, Dropping, Destroying
<1>13. MtxInv'
  BY <1>1, <1>2, <1>3 DEF TypeOK, ThreadInv, ThreadOK, MtxInv, WorkerInv, Procs, Dropping, ThreadLabels, Destroying, WorkerLabels
<1>14. MutexInv'
  BY <1>1, <1>2, <1>3 DEF TypeOK, MutexInv, WorkerInv, Procs, Dropping, WorkerLabels
<1>15. WorkerInv'
  BY <1>1, <1>2, <1>3 DEF TypeOK, WorkerInv, MutexInv, Closing, Procs, Dropping, WorkerLabels
<1>16. HolderInv'
  BY <1>1, <1>2, <1>3, <1>7 DEF TypeOK, HolderInv, ThreadInv, ThreadOK, DestroyInv, Procs, Dropping, Destroying, ThreadLabels
<1>17. LiveInv'
  BY <1>1, <1>2, <1>3 DEF TypeOK, LiveInv
<1>18. DeleterInv'
  BY <1>1, <1>2, <1>3, <1>5 DEF DeleterInv
<1>19. GpuInv'
  BY <1>1, <1>2, <1>3 DEF TypeOK, GpuInv, ThreadInv, ThreadOK, HolderInv, Procs
<1>20. ListedInv'
  BY <1>1, <1>2, <1>3 DEF TypeOK, ListedInv
<1>21. ErasedInv'
  BY <1>1, <1>2, <1>3, <1>5 DEF ErasedInv, Deleting
<1>22. FinderInv'
  BY <1>1, <1>2, <1>3 DEF TypeOK, FinderInv, ThreadInv, ThreadOK, Procs
<1> QED  BY <1>10, <1>11, <1>12, <1>13, <1>14, <1>15, <1>16, <1>17, <1>18, <1>19, <1>20, <1>21, <1>22, <1>7 DEF IInv

LEMMA UnreferenceLockInv ==
  ASSUME IInv, NEW p \in Procs,
         UnreferenceLock(p)
  PROVE  IInv'
<1> USE ProcsAssumption, Kinds
<1>1. TypeOK /\ ThreadInv /\ DestroyInv /\ MtxInv /\ MutexInv /\ WorkerInv /\ HolderInv /\ RefCountExact
        /\ LiveInv /\ DeleterInv /\ GpuInv /\ ListedInv /\ ErasedInv /\ FinderInv
  BY DEF IInv
<1>2. /\ pc[p] = "u_lock" /\ pc' = [pc EXCEPT ![p] = "u_sub"]
      /\ \/ bo[p] \in SharedBos /\ mtx = Nobody /\ mtx' = p
         \/ bo[p] \notin SharedBos /\ mtx' = mtx
      /\ UNCHANGED <<life, refCount, handle, openHandles, sharing, holds, gpu, queue, localQueue, workCount, active, workerDone, closeWorkerMutex, bo, calls>>
  BY DEF UnreferenceLock, isReused, boVars, workerVars, Begin, Counted, At, Goto, NotifyAndGoto
<1>3. /\ pc'[p] = "u_sub" /\ bo[p] \in Bos /\ bo'[p] = bo[p]
      /\ \A q \in Procs \ {p} : pc'[q] = pc[q] /\ bo'[q] = bo[q]
  BY <1>1, <1>2 DEF TypeOK, Procs, ThreadInv, ThreadOK, WorkerInv, WorkerLabels, Dropping
<1>4. pc' \in [Procs -> Labels] /\ bo' \in [Procs -> Bos \cup DmaBufs \cup {None}]
  BY <1>1, <1>2 DEF TypeOK, Procs, Labels
<1>5. \A q \in Procs : pc'[q] \in Deleting => pc'[q] = pc[q] /\ bo'[q] = bo[q]
  BY <1>2, <1>3 DEF Deleting, Procs
<1>6. Steady(p)
  BY <1>1, <1>2, <1>3 DEF Steady, Others, InHand, ThreadInv, ThreadOK, WorkerInv, TypeOK, Procs
<1>7. RefCountExact' /\ \A c \in Bos : IsFiniteSet(Allocated(c)')
  BY <1>1, <1>2, <1>6, CountsKept DEF Procs
<1>10. TypeOK'
  BY SMTT(60), <1>1, <1>2, <1>3, <1>4 DEF TypeOK, Procs
<1>11. ThreadInv'
  <2>1. \A u \in Threads \ {p} : ThreadOK(u)'
    BY <1>1, <1>2, <1>3 DEF ThreadInv, ThreadOK, Procs
  <2>2. p \in Threads => ThreadOK(p)'
    BY <1>1, <1>2, <1>3 DEF TypeOK, ThreadInv, ThreadOK, DestroyInv, Procs, ThreadLabels, Dropping, Destroying
  <2> QED  BY <2>1, <2>2 DEF ThreadInv
<1>12. DestroyInv'
  BY <1>1, <1>2, <1>3 DEF TypeOK, ThreadInv, ThreadOK, DestroyInv, Procs, Dropping, Destroying
<1>13. MtxInv'
  <2>1. CASE bo[p] \in SharedBos
    BY <1>1, <1>2, <1>3, <2>1 DEF MtxInv, Procs
  <2>2. CASE bo[p] \notin SharedBos
    BY <1>1, <1>2, <1>3, <2>2 DEF MtxInv, Procs
  <2> QED  BY <2>1, <2>2
<1>14. MutexInv'
  BY <1>1, <1>2, <1>3 DEF TypeOK, MutexInv, WorkerInv, Procs, Dropping, WorkerLabels
<1>15. WorkerInv'
  BY <1>1, <1>2, <1>3 DEF TypeOK, WorkerInv, MutexInv, Closing, Procs, Dropping, WorkerLabels
<1>16. HolderInv'
  BY <1>1, <1>2, <1>3, <1>7 DEF TypeOK, HolderInv, ThreadInv, ThreadOK, DestroyInv, Procs, Dropping, Destroying, ThreadLabels
<1>17. LiveInv'
  BY <1>1, <1>2, <1>3 DEF TypeOK, LiveInv
<1>18. DeleterInv'
  BY <1>1, <1>2, <1>3, <1>5 DEF DeleterInv
<1>19. GpuInv'
  BY <1>1, <1>2, <1>3 DEF TypeOK, GpuInv, ThreadInv, ThreadOK, HolderInv, Procs
<1>20. ListedInv'
  BY <1>1, <1>2, <1>3 DEF TypeOK, ListedInv
<1>21. ErasedInv'
  BY <1>1, <1>2, <1>3, <1>5 DEF ErasedInv, Deleting
<1>22. FinderInv'
  BY <1>1, <1>2, <1>3 DEF TypeOK, FinderInv, ThreadInv, ThreadOK, Procs
<1> QED  BY <1>10, <1>11, <1>12, <1>13, <1>14, <1>15, <1>16, <1>17, <1>18, <1>19, <1>20, <1>21, <1>22, <1>7 DEF IInv

LEMMA UnreferenceDropInv ==
  ASSUME IInv, NEW p \in Procs,
         UnreferenceSub(p), refCount[bo[p]] # 1
  PROVE  IInv'
<1> USE ProcsAssumption, Kinds
<1>1. TypeOK /\ ThreadInv /\ DestroyInv /\ MtxInv /\ MutexInv /\ WorkerInv /\ HolderInv /\ RefCountExact
        /\ LiveInv /\ DeleterInv /\ GpuInv /\ ListedInv /\ ErasedInv /\ FinderInv
  BY DEF IInv
<1>2. /\ pc[p] = "u_sub" /\ mtx' = (IF mtx = p THEN Nobody ELSE mtx)
      /\ refCount' = [refCount EXCEPT ![bo[p]] = @ - 1]
      /\ pc' = [pc EXCEPT ![p] = IF p = Worker THEN "w_count" ELSE IF bo[p] = pinBB THEN "d_worker" ELSE "idle"]
      /\ UNCHANGED <<life, handle, openHandles, sharing, holds, gpu, queue, localQueue, workCount, active, workerDone, closeWorkerMutex, bo, calls>>
  BY DEF UnreferenceSub, AfterUnreference, Unlocked, boVars, workerVars, Begin, Counted, At, Goto, NotifyAndGoto
<1>3. /\ bo[p] \in Bos /\ bo'[p] = bo[p]
      /\ p = Worker => pc'[p] = "w_count"
      /\ p # Worker => p \in Threads
      /\ p # Worker /\ bo[p] = pinBB => pc'[p] = "d_worker"
      /\ p # Worker /\ bo[p] # pinBB => pc'[p] = "idle"
      /\ pc'[p] \in {"w_count", "d_worker", "idle"}
      /\ \A q \in Procs \ {p} : pc'[q] = pc[q] /\ bo'[q] = bo[q]
  BY <1>1, <1>2 DEF TypeOK, Procs, ThreadInv, ThreadOK, WorkerInv, WorkerLabels, Dropping
<1>4. pc' \in [Procs -> Labels] /\ bo' \in [Procs -> Bos \cup DmaBufs \cup {None}]
  BY <1>1, <1>2 DEF TypeOK, Procs, Labels
<1>5. \A q \in Procs : pc'[q] \in Deleting => pc'[q] = pc[q] /\ bo'[q] = bo[q]
  BY <1>2, <1>3 DEF Deleting, Procs
<1>6. InHand(p, bo[p]) /\ refCount[bo[p]] # 0
  <2>1. InHand(p, bo[p])
    BY <1>2 DEF InHand
  <2> QED  BY <1>1, <1>3, <2>1, Unreferenced
<1>7. /\ refCount' \in [Bos -> Nat] /\ refCount'[bo[p]] = refCount[bo[p]] - 1
      /\ \A c \in Bos \ {bo[p]} : refCount'[c] = refCount[c]
  BY <1>1, <1>2, <1>3, <1>6 DEF TypeOK
<1>10. TypeOK'
  BY <1>1, <1>2, <1>4, <1>7 DEF TypeOK
<1>11. ThreadInv'
  <2>1. \A u \in Threads \ {p} : ThreadOK(u)'
    BY <1>1, <1>2, <1>3 DEF ThreadInv, ThreadOK, Procs
  <2>2. p \in Threads => ThreadOK(p)'
    BY <1>1, <1>2, <1>3 DEF TypeOK, ThreadInv, ThreadOK, DestroyInv, Procs, ThreadLabels, Dropping, Destroying
  <2> QED  BY <2>1, <2>2 DEF ThreadInv
<1>12. DestroyInv'
  BY <1>1, <1>2, <1>3 DEF TypeOK, ThreadInv, ThreadOK, DestroyInv, Procs, Dropping, Destroying
<1>13. MtxInv'
  BY <1>1, <1>2, <1>3 DEF TypeOK, ThreadInv, ThreadOK, MtxInv, WorkerInv, Procs, Dropping, ThreadLabels, Destroying, WorkerLabels
<1>14. MutexInv'
  BY <1>1, <1>2, <1>3 DEF TypeOK, MutexInv, WorkerInv, Procs, Dropping, WorkerLabels
<1>15. WorkerInv'
  BY <1>1, <1>2, <1>3 DEF TypeOK, WorkerInv, MutexInv, Closing, Procs, Dropping, WorkerLabels
<1>16. HolderInv'
  <2>1. \A c \in Bos : Allocated(c)' = Allocated(c)
    BY <1>2 DEF Allocated
  <2> QED  BY <1>1, <1>2, <1>3, <2>1 DEF TypeOK, HolderInv, ThreadInv, ThreadOK, DestroyInv, Procs, Dropping, Destroying, ThreadLabels
<1>17. RefCountExact'
  <2>1. Others(p)
    BY <1>1, <1>2, <1>3 DEF Others, InHand, Procs, TypeOK
  <2> SUFFICES ASSUME NEW c \in Bos
               PROVE  refCount'[c] = Cardinality(Allocated(c))' + Cardinality(Running(c))'
                                     + Count(queue, c)' + Count(localQueue, c)'
    BY DEF RefCountExact
  <2>2. (InHand(p, c) <=> c = bo[p]) /\ ~InHand(p, c)'
    BY <1>1, <1>2, <1>3 DEF InHand, ThreadInv, ThreadOK, WorkerInv, TypeOK, Dropping, Procs
  <2>3. Cardinality(Allocated(c))' = Cardinality(Allocated(c))
    BY <1>2 DEF Allocated
  <2>4. Count(queue, c)' = Count(queue, c) /\ Count(localQueue, c)' = Count(localQueue, c)
    BY <1>2 DEF Count
  <2>5. refCount'[c] = refCount[c] - (IF c = bo[p] THEN 1 ELSE 0) /\ refCount[c] \in Nat
    <3>1. refCount[c] \in Nat
      BY <1>1 DEF TypeOK
    <3> QED  BY <3>1, <1>7
  <2>6. /\ Cardinality(Allocated(c)) \in Nat /\ Cardinality(Running(c)) \in Nat
        /\ Count(queue, c) \in Nat /\ Count(localQueue, c) \in Nat
        /\ refCount[c] = Cardinality(Allocated(c)) + Cardinality(Running(c))
                         + Count(queue, c) + Count(localQueue, c)
        /\ Cardinality(Running(c))' = Cardinality(Running(c)) + (IF InHand(p, c)' THEN 1 ELSE 0)
                                      - (IF InHand(p, c) THEN 1 ELSE 0)
    BY <1>1, <2>1, References DEF Procs
  <2> QED  BY <2>2, <2>3, <2>4, <2>5, <2>6
<1>18. LiveInv'
  BY <1>1, <1>2, <1>6, <1>7 DEF LiveInv
<1>19. DeleterInv'
  <2>1. \A q \in Procs : pc[q] \in Deleting => bo[q] \in Bos /\ bo[q] # bo[p]
    BY <1>1, <1>6 DEF DeleterInv, Deleting, ThreadInv, ThreadOK, WorkerInv, Dropping, Procs
  <2> QED  BY <1>1, <1>2, <1>5, <1>7, <2>1 DEF DeleterInv
<1>20. GpuInv'
  BY <1>1, <1>2, <1>3 DEF TypeOK, GpuInv, ThreadInv, ThreadOK, HolderInv, Procs
<1>21. ListedInv'
  BY <1>1, <1>2, <1>3, <1>6, <1>7 DEF TypeOK, ListedInv
<1>22. ErasedInv'
  BY <1>1, <1>2, <1>3, <1>5 DEF ErasedInv, Deleting
<1>23. FinderInv'
  BY <1>1, <1>2, <1>3 DEF TypeOK, FinderInv, ThreadInv, ThreadOK, Procs
<1> QED  BY <1>10, <1>11, <1>12, <1>13, <1>14, <1>15, <1>16, <1>17, <1>18, <1>19, <1>20, <1>21, <1>22, <1>23 DEF IInv

LEMMA UnreferenceLastInv ==
  ASSUME IInv, NEW p \in Procs,
         UnreferenceSub(p), refCount[bo[p]] = 1
  PROVE  IInv'
<1> USE ProcsAssumption, Kinds
<1>1. TypeOK /\ ThreadInv /\ DestroyInv /\ MtxInv /\ MutexInv /\ WorkerInv /\ HolderInv /\ RefCountExact
        /\ LiveInv /\ DeleterInv /\ GpuInv /\ ListedInv /\ ErasedInv /\ FinderInv
  BY DEF IInv
<1>2. /\ pc[p] = "u_sub" /\ pc' = [pc EXCEPT ![p] = "u_close"]
      /\ refCount' = [refCount EXCEPT ![bo[p]] = @ - 1]
      /\ UNCHANGED <<life, handle, openHandles, sharing, holds, mtx, gpu, queue, localQueue, workCount, active, workerDone, closeWorkerMutex, bo, calls>>
  BY DEF UnreferenceSub, boVars, workerVars, Begin, Counted, At, Goto, NotifyAndGoto
<1>3. /\ bo[p] \in Bos /\ bo'[p] = bo[p] /\ pc'[p] = "u_close"
      /\ \A q \in Procs \ {p} : pc'[q] = pc[q] /\ bo'[q] = bo[q]
  BY <1>1, <1>2 DEF TypeOK, Procs, ThreadInv, ThreadOK, WorkerInv, WorkerLabels, Dropping
<1>4. pc' \in [Procs -> Labels] /\ bo' \in [Procs -> Bos \cup DmaBufs \cup {None}]
  BY <1>1, <1>2 DEF TypeOK, Procs, Labels
<1>5. life[bo[p]] = "live"
  BY <1>1, <1>3 DEF LiveInv
<1>6. \A q \in Procs : pc[q] \in Deleting => bo[q] \in Bos /\ bo[q] # bo[p]
  BY <1>1 DEF DeleterInv, Deleting, ThreadInv, ThreadOK, WorkerInv, Dropping, Procs
<1>7. /\ refCount' \in [Bos -> Nat] /\ refCount'[bo[p]] = 0
      /\ \A c \in Bos \ {bo[p]} : refCount'[c] = refCount[c]
  BY <1>1, <1>2, <1>3 DEF TypeOK
<1>10. TypeOK'
  BY <1>1, <1>2, <1>4, <1>7 DEF TypeOK
<1>11. ThreadInv'
  <2>1. \A u \in Threads \ {p} : ThreadOK(u)'
    BY <1>1, <1>2, <1>3 DEF ThreadInv, ThreadOK, Procs
  <2>2. p \in Threads => ThreadOK(p)'
    BY <1>1, <1>2, <1>3 DEF TypeOK, ThreadInv, ThreadOK, DestroyInv, Procs, ThreadLabels, Dropping, Destroying
  <2> QED  BY <2>1, <2>2 DEF ThreadInv
<1>12. DestroyInv'
  BY <1>1, <1>2, <1>3 DEF TypeOK, ThreadInv, ThreadOK, DestroyInv, Procs, Dropping, Destroying
<1>13. MtxInv'
  BY <1>1, <1>2, <1>3 DEF TypeOK, ThreadInv, ThreadOK, MtxInv, WorkerInv, Procs, Dropping, ThreadLabels, Destroying, WorkerLabels
<1>14. MutexInv'
  BY <1>1, <1>2, <1>3 DEF TypeOK, MutexInv, WorkerInv, Procs, Dropping, WorkerLabels
<1>15. WorkerInv'
  BY <1>1, <1>2, <1>3 DEF TypeOK, WorkerInv, MutexInv, Closing, Procs, Dropping, WorkerLabels
<1>16. HolderInv'
  <2>1. \A c \in Bos : Allocated(c)' = Allocated(c)
    BY <1>2 DEF Allocated
  <2> QED  BY <1>1, <1>2, <1>3, <2>1 DEF TypeOK, HolderInv, ThreadInv, ThreadOK, DestroyInv, Procs, Dropping, Destroying, ThreadLabels
<1>17. RefCountExact'
  <2>1. Others(p)
    BY <1>1, <1>2, <1>3 DEF Others, InHand, Procs, TypeOK
  <2> SUFFICES ASSUME NEW c \in Bos
               PROVE  refCount'[c] = Cardinality(Allocated(c))' + Cardinality(Running(c))'
                                     + Count(queue, c)' + Count(localQueue, c)'
    BY DEF RefCountExact
  <2>2. (InHand(p, c) <=> c = bo[p]) /\ ~InHand(p, c)'
    BY <1>1, <1>2, <1>3 DEF InHand, ThreadInv, ThreadOK, WorkerInv, TypeOK, Dropping, Procs
  <2>3. Cardinality(Allocated(c))' = Cardinality(Allocated(c))
    BY <1>2 DEF Allocated
  <2>4. Count(queue, c)' = Count(queue, c) /\ Count(localQueue, c)' = Count(localQueue, c)
    BY <1>2 DEF Count
  <2>5. refCount'[c] = refCount[c] - (IF c = bo[p] THEN 1 ELSE 0) /\ refCount[c] \in Nat
    <3>1. refCount[c] \in Nat
      BY <1>1 DEF TypeOK
    <3> QED  BY <3>1, <1>7
  <2>6. /\ Cardinality(Allocated(c)) \in Nat /\ Cardinality(Running(c)) \in Nat
        /\ Count(queue, c) \in Nat /\ Count(localQueue, c) \in Nat
        /\ refCount[c] = Cardinality(Allocated(c)) + Cardinality(Running(c))
                         + Count(queue, c) + Count(localQueue, c)
        /\ Cardinality(Running(c))' = Cardinality(Running(c)) + (IF InHand(p, c)' THEN 1 ELSE 0)
                                      - (IF InHand(p, c) THEN 1 ELSE 0)
    BY <1>1, <2>1, References DEF Procs
  <2> QED  BY <2>2, <2>3, <2>4, <2>5, <2>6
<1>18. LiveInv'
  BY <1>1, <1>2, <1>7 DEF LiveInv
<1>19. DeleterInv'
  <2>1. \A q \in Procs \ {p} : pc'[q] \in Deleting => /\ pc[q] \in Deleting /\ bo'[q] # bo'[p]
                                                     /\ refCount'[bo'[q]] = refCount[bo[q]]
    BY <1>3, <1>6, <1>7
  <2>2. \A q \in Procs : pc'[q] \in Deleting => refCount'[bo'[q]] = 0 /\ life'[bo'[q]] = "live"
    BY <1>1, <1>2, <1>3, <1>5, <1>7, <2>1 DEF DeleterInv
  <2>3. \A q, r \in Procs : pc'[q] \in Deleting /\ pc'[r] \in Deleting /\ bo'[q] = bo'[r] => q = r
    BY <1>1, <1>3, <2>1 DEF DeleterInv
  <2> QED  BY <2>2, <2>3 DEF DeleterInv
<1>20. GpuInv'
  BY <1>1, <1>2, <1>3 DEF TypeOK, GpuInv, ThreadInv, ThreadOK, HolderInv, Procs
<1>21. ListedInv'
  BY <1>1, <1>2, <1>3, <1>7 DEF TypeOK, ListedInv
<1>22. ErasedInv'
  BY <1>1, <1>2, <1>3 DEF ErasedInv
<1>23. FinderInv'
  BY <1>1, <1>2, <1>3 DEF TypeOK, FinderInv, ThreadInv, ThreadOK, Procs
<1> QED  BY <1>10, <1>11, <1>12, <1>13, <1>14, <1>15, <1>16, <1>17, <1>18, <1>19, <1>20, <1>21, <1>22, <1>23 DEF IInv

LEMMA UnreferenceCloseInv ==
  ASSUME IInv, NEW p \in Procs,
         UnreferenceClose(p)
  PROVE  IInv'
<1> USE ProcsAssumption, Kinds
<1>1. TypeOK /\ ThreadInv /\ DestroyInv /\ MtxInv /\ MutexInv /\ WorkerInv /\ HolderInv /\ RefCountExact
        /\ LiveInv /\ DeleterInv /\ GpuInv /\ ListedInv /\ ErasedInv /\ FinderInv
  BY DEF IInv
<1>2. /\ pc[p] = "u_close" /\ pc' = [pc EXCEPT ![p] = "u_delete"] /\ mtx' = (IF mtx = p THEN Nobody ELSE mtx)
      /\ sharing' = sharing \ {bo[p]}
      /\ \/ /\ bo[p] \in SharedBos /\ openHandles' = openHandles \ {handle[bo[p]]}
            /\ handle' = [handle EXCEPT ![bo[p]] = None]
         \/ bo[p] \notin SharedBos /\ UNCHANGED <<openHandles, handle>>
      /\ UNCHANGED <<life, refCount, holds, gpu, queue, localQueue, workCount, active, workerDone, closeWorkerMutex, bo, calls>>
  BY DEF UnreferenceClose, isReused, Unlocked, boVars, workerVars, Begin, Counted, At, Goto, NotifyAndGoto
<1>3. /\ bo[p] \in Bos /\ bo'[p] = bo[p] /\ pc'[p] = "u_delete"
      /\ \A q \in Procs \ {p} : pc'[q] = pc[q] /\ bo'[q] = bo[q]
  BY <1>1, <1>2 DEF TypeOK, Procs, ThreadInv, ThreadOK, WorkerInv, WorkerLabels, Dropping
<1>4. pc' \in [Procs -> Labels] /\ bo' \in [Procs -> Bos \cup DmaBufs \cup {None}]
  BY <1>1, <1>2 DEF TypeOK, Procs, Labels
<1>6. Steady(p)
  BY <1>1, <1>2, <1>3 DEF Steady, Others, InHand, ThreadInv, ThreadOK, WorkerInv, TypeOK, Procs
<1>7. RefCountExact' /\ \A c \in Bos : IsFiniteSet(Allocated(c)')
  BY <1>1, <1>2, <1>6, CountsKept DEF Procs
<1>5. /\ handle' \in [SharedBos -> DmaBufs \cup {None}] /\ openHandles' \subseteq openHandles
      /\ bo[p] \in SharedBos => handle'[bo[p]] = None
      /\ \A c \in SharedBos \ {bo[p]} : handle'[c] = handle[c]
      /\ \A d \in openHandles : d \in openHandles' \/ (bo[p] \in SharedBos /\ d = handle[bo[p]])
  BY <1>1, <1>2 DEF TypeOK
<1>10. TypeOK'
  BY <1>1, <1>2, <1>4, <1>5 DEF TypeOK, Procs
<1>11. ThreadInv'
  <2>1. \A u \in Threads \ {p} : ThreadOK(u)'
    BY <1>1, <1>2, <1>3 DEF ThreadInv, ThreadOK, Procs
  <2>2. p \in Threads => ThreadOK(p)'
    BY <1>1, <1>2, <1>3 DEF TypeOK, ThreadInv, ThreadOK, DestroyInv, Procs, ThreadLabels, Dropping, Destroying
  <2> QED  BY <2>1, <2>2 DEF ThreadInv
<1>12. DestroyInv'
  BY <1>1, <1>2, <1>3 DEF TypeOK, ThreadInv, ThreadOK, DestroyInv, Procs, Dropping, Destroying
<1>13. MtxInv'
  <2>1. CASE bo[p] \in SharedBos
    BY <1>1, <1>2, <1>3, <2>1 DEF MtxInv, Procs
  <2>2. CASE bo[p] \notin SharedBos
    BY <1>1, <1>2, <1>3, <2>2 DEF MtxInv, Procs
  <2> QED  BY <2>1, <2>2
<1>14. MutexInv'
  BY <1>1, <1>2, <1>3 DEF TypeOK, MutexInv, WorkerInv, Procs, Dropping, WorkerLabels
<1>15. WorkerInv'
  BY <1>1, <1>2, <1>3 DEF TypeOK, WorkerInv, MutexInv, Closing, Procs, Dropping, WorkerLabels
<1>16. HolderInv'
  BY <1>1, <1>2, <1>3, <1>7 DEF TypeOK, HolderInv, ThreadInv, ThreadOK, DestroyInv, Procs, Dropping, Destroying, ThreadLabels
<1>17. LiveInv'
  BY <1>1, <1>2, <1>3 DEF TypeOK, LiveInv
<1>18. DeleterInv'
  <2>1. \A q \in Procs : (pc'[q] \in Deleting <=> pc[q] \in Deleting) /\ bo'[q] = bo[q]
    BY <1>2, <1>3 DEF Deleting
  <2> QED  BY <1>1, <1>2, <2>1 DEF DeleterInv
<1>19. GpuInv'
  BY <1>1, <1>2, <1>3 DEF TypeOK, GpuInv, ThreadInv, ThreadOK, HolderInv, Procs
<1>20. ListedInv'
  <2>1. refCount[bo[p]] = 0
    BY <1>1, <1>2 DEF DeleterInv, Deleting
  <2>2. \A c \in sharing' : c \in sharing /\ c # bo[p] /\ handle'[c] = handle[c]
    BY <1>1, <1>2, <1>5 DEF TypeOK
  <2>3. \A c \in sharing' : handle'[c] \in openHandles'
    <3>1. TAKE c \in sharing'
    <3>2. handle[c] \in openHandles /\ handle[c] \in DmaBufs /\ c \in sharing
      BY <1>1, <2>2 DEF ListedInv, TypeOK
    <3>3. CASE bo[p] \in sharing
      BY <1>1, <1>5, <2>2, <3>2, <3>3 DEF ListedInv
    <3>4. CASE bo[p] \notin sharing
      BY <1>1, <1>5, <2>2, <3>2, <3>4 DEF ListedInv
    <3> QED  BY <3>3, <3>4
  <2>4. \A c \in SharedBos \ sharing' : handle'[c] = None /\ refCount'[c] = 0
    BY <1>1, <1>2, <1>5, <2>1 DEF ListedInv
  <2> QED  BY <1>1, <1>2, <2>2, <2>3, <2>4 DEF ListedInv
<1>21. ErasedInv'
  BY <1>1, <1>2, <1>3 DEF ErasedInv
<1>22. FinderInv'
  <2>1. CASE bo[p] \in SharedBos
    <3>1. \A t \in Threads : pc[t] # "import_find"
      BY <1>1, <1>2, <2>1 DEF MtxInv, Procs
    <3> QED  BY <1>2, <1>3, <3>1 DEF FinderInv, Procs
  <2>2. CASE bo[p] \notin SharedBos
    BY <1>1, <1>2, <1>3, <2>2 DEF FinderInv, Procs
  <2> QED  BY <2>1, <2>2
<1> QED  BY <1>10, <1>11, <1>12, <1>13, <1>14, <1>15, <1>16, <1>17, <1>18, <1>19, <1>20, <1>21, <1>22, <1>7 DEF IInv

LEMMA UnreferenceDeleteInv ==
  ASSUME IInv, NEW p \in Procs,
         UnreferenceDelete(p)
  PROVE  IInv'
<1> USE ProcsAssumption, Kinds
<1>1. TypeOK /\ ThreadInv /\ DestroyInv /\ MtxInv /\ MutexInv /\ WorkerInv /\ HolderInv /\ RefCountExact
        /\ LiveInv /\ DeleterInv /\ GpuInv /\ ListedInv /\ ErasedInv /\ FinderInv
  BY DEF IInv
<1>2. /\ pc[p] = "u_delete" /\ life' = [life EXCEPT ![bo[p]] = "deleted"]
      /\ pc' = [pc EXCEPT ![p] = IF p = Worker THEN "w_count" ELSE IF bo[p] = pinBB THEN "d_worker" ELSE "idle"]
      /\ UNCHANGED <<refCount, handle, openHandles, sharing, holds, mtx, gpu, queue, localQueue, workCount, active, workerDone, closeWorkerMutex, bo, calls>>
  BY DEF UnreferenceDelete, AfterUnreference, boVars, workerVars, Begin, Counted, At, Goto, NotifyAndGoto
<1>3. /\ bo[p] \in Bos /\ bo'[p] = bo[p]
      /\ p = Worker => pc'[p] = "w_count"
      /\ p # Worker => p \in Threads
      /\ p # Worker /\ bo[p] = pinBB => pc'[p] = "d_worker"
      /\ p # Worker /\ bo[p] # pinBB => pc'[p] = "idle"
      /\ pc'[p] \in {"w_count", "d_worker", "idle"}
      /\ \A q \in Procs \ {p} : pc'[q] = pc[q] /\ bo'[q] = bo[q]
  BY <1>1, <1>2 DEF TypeOK, Procs, ThreadInv, ThreadOK, WorkerInv, WorkerLabels, Dropping
<1>4. pc' \in [Procs -> Labels] /\ bo' \in [Procs -> Bos \cup DmaBufs \cup {None}]
  BY <1>1, <1>2 DEF TypeOK, Procs, Labels
<1>5. \A q \in Procs : pc'[q] \in Deleting => pc'[q] = pc[q] /\ bo'[q] = bo[q]
  BY <1>2, <1>3 DEF Deleting, Procs
<1>6. Steady(p)
  BY <1>1, <1>2, <1>3 DEF Steady, Others, InHand, ThreadInv, ThreadOK, WorkerInv, TypeOK, Procs
<1>7. RefCountExact' /\ \A c \in Bos : IsFiniteSet(Allocated(c)')
  BY <1>1, <1>2, <1>6, CountsKept DEF Procs
<1>8. /\ life' \in [Bos -> {"none", "live", "deleted"}]
      /\ \A c \in Bos \ {bo[p]} : life'[c] = life[c]
      /\ refCount[bo[p]] = 0 /\ bo[p] \notin sharing
      /\ \A q \in Procs \ {p} : pc[q] \in Deleting => bo[q] \in Bos /\ bo[q] # bo[p]
  <2>1. \A q \in Procs : pc[q] \in Deleting => bo[q] \in Bos
    BY <1>1 DEF Deleting, ThreadInv, ThreadOK, WorkerInv, Dropping, Procs
  <2>2. pc[p] \in Deleting
    BY <1>2 DEF Deleting
  <2>3. refCount[bo[p]] = 0 /\ \A q \in Procs \ {p} : pc[q] \in Deleting => bo[q] # bo[p]
    BY <1>1, <2>2 DEF DeleterInv
  <2>4. bo[p] \notin sharing
    BY <1>1, <1>2 DEF ErasedInv
  <2> QED  BY <1>1, <1>2, <2>1, <2>3, <2>4 DEF TypeOK
<1>10. TypeOK'
  BY <1>1, <1>2, <1>4, <1>8 DEF TypeOK
<1>11. ThreadInv'
  <2>1. \A u \in Threads \ {p} : ThreadOK(u)'
    BY <1>1, <1>2, <1>3 DEF ThreadInv, ThreadOK, Procs
  <2>2. p \in Threads => ThreadOK(p)'
    BY <1>1, <1>2, <1>3 DEF TypeOK, ThreadInv, ThreadOK, DestroyInv, Procs, ThreadLabels, Dropping, Destroying
  <2> QED  BY <2>1, <2>2 DEF ThreadInv
<1>12. DestroyInv'
  BY <1>1, <1>2, <1>3 DEF TypeOK, ThreadInv, ThreadOK, DestroyInv, Procs, Dropping, Destroying
<1>13. MtxInv'
  BY <1>1, <1>2, <1>3 DEF TypeOK, ThreadInv, ThreadOK, MtxInv, WorkerInv, Procs, Dropping, ThreadLabels, Destroying, WorkerLabels
<1>14. MutexInv'
  BY <1>1, <1>2, <1>3 DEF TypeOK, MutexInv, WorkerInv, Procs, Dropping, WorkerLabels
<1>15. WorkerInv'
  BY <1>1, <1>2, <1>3 DEF TypeOK, WorkerInv, MutexInv, Closing, Procs, Dropping, WorkerLabels
<1>16. HolderInv'
  BY <1>1, <1>2, <1>3, <1>7 DEF TypeOK, HolderInv, ThreadInv, ThreadOK, DestroyInv, Procs, Dropping, Destroying, ThreadLabels
<1>17. LiveInv'
  BY <1>1, <1>2, <1>8 DEF LiveInv
<1>18. DeleterInv'
  BY <1>1, <1>2, <1>3, <1>5, <1>8 DEF DeleterInv, Deleting
<1>19. GpuInv'
  BY <1>1, <1>2, <1>3 DEF TypeOK, GpuInv, ThreadInv, ThreadOK, HolderInv, Procs
<1>20. ListedInv'
  BY <1>1, <1>2, <1>8 DEF TypeOK, ListedInv
<1>21. ErasedInv'
  BY <1>1, <1>2, <1>3, <1>5 DEF ErasedInv, Deleting
<1>22. FinderInv'
  BY <1>1, <1>2, <1>3 DEF TypeOK, FinderInv, ThreadInv, ThreadOK, Procs
<1> QED  BY <1>10, <1>11, <1>12, <1>13, <1>14, <1>15, <1>16, <1>17, <1>18, <1>19, <1>20, <1>21, <1>22, <1>7 DEF IInv

LEMMA GpuCompleteInv ==
  ASSUME IInv, GpuComplete
  PROVE  IInv'
<1> USE ProcsAssumption, Kinds
<1>1. TypeOK /\ ThreadInv /\ DestroyInv /\ MtxInv /\ MutexInv /\ WorkerInv /\ HolderInv /\ RefCountExact
        /\ LiveInv /\ DeleterInv /\ GpuInv /\ ListedInv /\ ErasedInv /\ FinderInv
  BY DEF IInv
<1>2. /\ gpu' \subseteq gpu /\ UNCHANGED pc
      /\ UNCHANGED <<life, refCount, handle, openHandles, sharing, holds, mtx, queue, localQueue, workCount, active, workerDone, closeWorkerMutex, bo, calls>>
  BY DEF GpuComplete, boVars, workerVars, Begin, Counted, At, Goto, NotifyAndGoto
<1>3. \A q \in Procs : pc'[q] = pc[q] /\ bo'[q] = bo[q]
  BY <1>1, <1>2 DEF TypeOK, Procs
<1>4. pc' \in [Procs -> Labels] /\ bo' \in [Procs -> Bos \cup DmaBufs \cup {None}]
  BY <1>1, <1>2 DEF TypeOK, Procs, Labels
<1>5. \A q \in Procs : pc'[q] \in Deleting => pc'[q] = pc[q] /\ bo'[q] = bo[q]
  BY <1>2, <1>3 DEF Deleting, Procs
<1>6. Steady(Worker)
  BY <1>1, <1>2, <1>3 DEF Steady, Others, InHand, ThreadInv, ThreadOK, WorkerInv, TypeOK, Procs
<1>7. RefCountExact' /\ \A c \in Bos : IsFiniteSet(Allocated(c)')
  BY <1>1, <1>2, <1>6, CountsKept DEF Procs
<1>10. TypeOK'
  BY <1>1, <1>2, <1>4 DEF TypeOK
<1>11. ThreadInv'
  BY <1>1, <1>2, <1>3 DEF ThreadInv, ThreadOK, Procs
<1>12. DestroyInv'
  BY <1>1, <1>2, <1>3 DEF TypeOK, ThreadInv, ThreadOK, DestroyInv, Procs, Dropping, Destroying
<1>13. MtxInv'
  BY <1>1, <1>2, <1>3 DEF TypeOK, ThreadInv, ThreadOK, MtxInv, WorkerInv, Procs, Dropping, ThreadLabels, Destroying, WorkerLabels
<1>14. MutexInv'
  BY <1>1, <1>2, <1>3 DEF TypeOK, MutexInv, WorkerInv, Procs, Dropping, WorkerLabels
<1>15. WorkerInv'
  BY <1>1, <1>2, <1>3 DEF TypeOK, WorkerInv, MutexInv, Closing, Procs, Dropping, WorkerLabels
<1>16. HolderInv'
  BY <1>1, <1>2, <1>3, <1>7 DEF TypeOK, HolderInv, ThreadInv, ThreadOK, DestroyInv, Procs, Dropping, Destroying, ThreadLabels
<1>17. LiveInv'
  BY <1>1, <1>2, <1>3 DEF TypeOK, LiveInv
<1>18. DeleterInv'
  BY <1>1, <1>2, <1>3, <1>5 DEF DeleterInv
<1>19. GpuInv'
  BY <1>1, <1>2, <1>3 DEF TypeOK, GpuInv, ThreadInv, ThreadOK, HolderInv, Procs
<1>20. ListedInv'
  BY <1>1, <1>2, <1>3 DEF TypeOK, ListedInv
<1>21. ErasedInv'
  BY <1>1, <1>2, <1>3, <1>5 DEF ErasedInv, Deleting
<1>22. FinderInv'
  BY <1>1, <1>2, <1>3 DEF TypeOK, FinderInv, ThreadInv, ThreadOK, Procs
<1> QED  BY <1>10, <1>11, <1>12, <1>13, <1>14, <1>15, <1>16, <1>17, <1>18, <1>19, <1>20, <1>21, <1>22, <1>7 DEF IInv

LEMMA DestroyPinInv ==
  ASSUME IInv, DestroyPin
  PROVE  IInv'
<1> USE ProcsAssumption, Kinds
<1>1. TypeOK /\ ThreadInv /\ DestroyInv /\ MtxInv /\ MutexInv /\ WorkerInv /\ HolderInv /\ RefCountExact
        /\ LiveInv /\ DeleterInv /\ GpuInv /\ ListedInv /\ ErasedInv /\ FinderInv
  BY DEF IInv
<1>2. /\ pc[Destroyer] = "d_pin" /\ pc' = [pc EXCEPT ![Destroyer] = "u_lock"]
      /\ bo' = [bo EXCEPT ![Destroyer] = pinBB] /\ holds' = [holds EXCEPT ![Destroyer][pinBB] = 0]
      /\ UNCHANGED <<life, refCount, handle, openHandles, sharing, mtx, gpu, queue, localQueue, workCount, active, workerDone, closeWorkerMutex, calls>>
  BY DEF DestroyPin, boVars, workerVars, Begin, Counted, At, Goto, NotifyAndGoto
<1>3. /\ pc'[Destroyer] = "u_lock" /\ bo'[Destroyer] = pinBB
      /\ \A q \in Procs \ {Destroyer} : pc'[q] = pc[q] /\ bo'[q] = bo[q]
  BY <1>1, <1>2 DEF TypeOK, Procs
<1>4. pc' \in [Procs -> Labels] /\ bo' \in [Procs -> Bos \cup DmaBufs \cup {None}]
  BY <1>1, <1>2 DEF TypeOK, Procs, Labels
<1>5. \A q \in Procs : pc'[q] \in Deleting => pc'[q] = pc[q] /\ bo'[q] = bo[q]
  BY <1>2, <1>3 DEF Deleting, Procs
<1>6. holds[Destroyer][pinBB] = 1 /\ ~active
  BY <1>1, <1>2 DEF HolderInv, ThreadInv, ThreadOK, Destroying
<1>7. /\ holds' \in [Threads -> [Bos -> Nat]] /\ holds'[Destroyer][pinBB] = 0
      /\ \A u \in Threads, c \in Bos : u # Destroyer \/ c # pinBB => holds'[u][c] = holds[u][c]
  BY <1>1, <1>2 DEF TypeOK
<1>8. \A c \in Bos : /\ IsFiniteSet(Allocated(c)')
                     /\ Cardinality(Allocated(c))' = Cardinality(Allocated(c)) - (IF c = pinBB THEN 1 ELSE 0)
  <2>1. holds' = [holds EXCEPT ![Destroyer][pinBB] = @ - 1]
    BY <1>1, <1>2, <1>6 DEF TypeOK
  <2>2. /\ holds \in [Threads -> [Bos -> Nat]] /\ pinBB \in Bos /\ holds[Destroyer][pinBB] > 0
        /\ \A c \in Bos : IsFiniteSet(Allocated(c))
    BY <1>1, <1>6 DEF TypeOK, HolderInv
  <2> QED  BY <2>1, <2>2, AllocatedLose
<1>10. TypeOK'
  BY <1>1, <1>2, <1>4, <1>7 DEF TypeOK
<1>11. ThreadInv'
  <2>1. ASSUME NEW u \in Threads \ {Destroyer} PROVE ThreadOK(u)'
    <3>1. pc'[u] = "idle"
      BY <1>1, <1>3, <1>6 DEF DestroyInv, Procs
    <3> QED  BY <3>1 DEF ThreadOK, ThreadLabels, Dropping, Destroying
  <2>2. ThreadOK(Destroyer)'
    BY <1>2, <1>3, <1>6 DEF ThreadOK, ThreadLabels, Dropping, Destroying
  <2> QED  BY <2>1, <2>2 DEF ThreadInv
<1>12. DestroyInv'
  BY <1>1, <1>2, <1>3 DEF TypeOK, ThreadInv, ThreadOK, DestroyInv, Procs, Dropping, Destroying
<1>13. MtxInv'
  BY <1>1, <1>2, <1>3 DEF TypeOK, ThreadInv, ThreadOK, MtxInv, WorkerInv, Procs, Dropping, ThreadLabels, Destroying, WorkerLabels
<1>14. MutexInv'
  BY <1>1, <1>2, <1>3 DEF TypeOK, MutexInv, WorkerInv, Procs, Dropping, WorkerLabels
<1>15. WorkerInv'
  BY <1>1, <1>2, <1>3 DEF TypeOK, WorkerInv, MutexInv, Closing, Procs, Dropping, WorkerLabels
<1>16. HolderInv'
  <2>1. \A u \in Threads : \A c \in PrivateBos : holds'[u][c] > 0 => u = HolderOf[c] /\ holds'[u][c] = 1
    BY <1>1, <1>7 DEF HolderInv
  <2> QED  BY <1>2, <1>3, <1>6, <1>8, <2>1 DEF HolderInv
<1>17. RefCountExact'
  <2>1. Others(Destroyer)
    BY <1>1, <1>2, <1>3 DEF Others, InHand, Procs, TypeOK
  <2> SUFFICES ASSUME NEW c \in Bos
               PROVE  refCount'[c] = Cardinality(Allocated(c))' + Cardinality(Running(c))'
                                     + Count(queue, c)' + Count(localQueue, c)'
    BY DEF RefCountExact
  <2>2. ~InHand(Destroyer, c) /\ (InHand(Destroyer, c)' <=> c = pinBB)
    BY <1>1, <1>2, <1>3 DEF InHand, ThreadInv, ThreadOK, WorkerInv, TypeOK, Dropping, Procs
  <2>3. Cardinality(Allocated(c))' = Cardinality(Allocated(c)) - (IF c = pinBB THEN 1 ELSE 0)
    BY <1>8
  <2>4. Count(queue, c)' = Count(queue, c) /\ Count(localQueue, c)' = Count(localQueue, c)
    BY <1>2 DEF Count
  <2>5. refCount'[c] = refCount[c]
    BY <1>2
  <2>6. /\ Cardinality(Allocated(c)) \in Nat /\ Cardinality(Running(c)) \in Nat
        /\ Count(queue, c) \in Nat /\ Count(localQueue, c) \in Nat
        /\ refCount[c] = Cardinality(Allocated(c)) + Cardinality(Running(c))
                         + Count(queue, c) + Count(localQueue, c)
        /\ Cardinality(Running(c))' = Cardinality(Running(c)) + (IF InHand(Destroyer, c)' THEN 1 ELSE 0)
                                      - (IF InHand(Destroyer, c) THEN 1 ELSE 0)
    BY <1>1, <2>1, References DEF Procs
  <2> QED  BY <2>2, <2>3, <2>4, <2>5, <2>6
<1>18. LiveInv'
  BY <1>1, <1>2, <1>3 DEF TypeOK, LiveInv
<1>19. DeleterInv'
  BY <1>1, <1>2, <1>3, <1>5 DEF DeleterInv
<1>20. GpuInv'
  <2>1. \A c \in gpu : c # pinBB /\ c \in Bos /\ HolderOf[c] \in Threads
    BY <1>1 DEF GpuInv
  <2>2. \A c \in gpu : holds'[HolderOf[c]][c] = holds[HolderOf[c]][c]
    BY <1>7, <2>1
  <2>3. \A c \in gpu : holds[HolderOf[c]][c] > 0
    BY <1>1, <1>2, <1>6, <2>1 DEF GpuInv, DestroyInv
  <2> QED  BY <1>1, <1>2, <2>2, <2>3 DEF GpuInv
<1>21. ListedInv'
  BY <1>1, <1>2, <1>3 DEF TypeOK, ListedInv
<1>22. ErasedInv'
  BY <1>1, <1>2, <1>3, <1>5 DEF ErasedInv, Deleting
<1>23. FinderInv'
  BY <1>1, <1>2, <1>3 DEF TypeOK, FinderInv, ThreadInv, ThreadOK, Procs
<1> QED  BY <1>10, <1>11, <1>12, <1>13, <1>14, <1>15, <1>16, <1>17, <1>18, <1>19, <1>20, <1>21, <1>22, <1>23 DEF IInv

LEMMA WorkerTakesInv ==
  ASSUME IInv, WorkerClose, localQueue # <<>>
  PROVE  IInv'
<1> USE ProcsAssumption, Kinds
<1>1. TypeOK /\ ThreadInv /\ DestroyInv /\ MtxInv /\ MutexInv /\ WorkerInv /\ HolderInv /\ RefCountExact
        /\ LiveInv /\ DeleterInv /\ GpuInv /\ ListedInv /\ ErasedInv /\ FinderInv
  BY DEF IInv
<1>2. /\ pc[Worker] = "w_close" /\ pc' = [pc EXCEPT ![Worker] = "u_lock"]
      /\ localQueue # <<>> /\ localQueue' = Tail(localQueue)
      /\ bo' = [bo EXCEPT ![Worker] = Head(localQueue)]
      /\ UNCHANGED <<life, refCount, handle, openHandles, sharing, holds, mtx, gpu, queue, workCount, active, workerDone, closeWorkerMutex, calls>>
  BY DEF WorkerClose, boVars, workerVars, Begin, Counted, At, Goto, NotifyAndGoto
<1>3. /\ pc'[Worker] = "u_lock" /\ bo'[Worker] = Head(localQueue)
      /\ \A q \in Procs \ {Worker} : pc'[q] = pc[q] /\ bo'[q] = bo[q]
  BY <1>1, <1>2 DEF TypeOK, Procs
<1>4. pc' \in [Procs -> Labels] /\ bo' \in [Procs -> Bos \cup DmaBufs \cup {None}]
  BY SMTT(60), <1>1, <1>2 DEF TypeOK, Procs, Labels
<1>5. \A q \in Procs : pc'[q] \in Deleting => pc'[q] = pc[q] /\ bo'[q] = bo[q]
  BY <1>2, <1>3 DEF Deleting, Procs
<1>6. PICK q \in Seq(CmdBos) : q = localQueue
  BY <1>1 DEF WorkerInv
<1>7. /\ q # <<>> /\ q \in Seq(Bos) /\ Head(q) \in CmdBos /\ Tail(q) \in Seq(CmdBos) /\ Tail(q) \in Seq(Bos)
      /\ Len(q) \in Nat /\ Len(Tail(q)) = Len(q) - 1
  BY <1>1, <1>2, <1>6 DEF TypeOK
<1>8. bo'[Worker] = Head(q) /\ localQueue' = Tail(q)
  BY <1>2, <1>3, <1>6
<1>10. TypeOK'
  BY <1>1, <1>2, <1>4, <1>7, <1>8 DEF TypeOK
<1>11. ThreadInv'
  BY <1>1, <1>2, <1>3 DEF ThreadInv, ThreadOK, Procs
<1>12. DestroyInv'
  BY <1>1, <1>2, <1>3 DEF TypeOK, ThreadInv, ThreadOK, DestroyInv, Procs, Dropping, Destroying
<1>13. MtxInv'
  BY <1>1, <1>2, <1>3 DEF TypeOK, ThreadInv, ThreadOK, MtxInv, WorkerInv, Procs, Dropping, ThreadLabels, Destroying, WorkerLabels
<1>14. MutexInv'
  BY <1>1, <1>2, <1>3 DEF TypeOK, MutexInv, WorkerInv, Procs, Dropping, WorkerLabels
<1>15. WorkerInv'
  <2>1. Len(queue) \in Nat /\ Closing = 0 /\ Closing' = 1
    BY <1>1, <1>2, <1>3 DEF TypeOK, Closing, Dropping
  <2>2. workCount' = Len(queue') + Len(localQueue') + Closing'
    BY <1>1, <1>2, <1>6, <1>7, <1>8, <2>1 DEF WorkerInv
  <2> QED  BY <1>1, <1>2, <1>3, <1>6, <1>7, <1>8, <2>2 DEF WorkerInv, MutexInv, Procs, Dropping, WorkerLabels
<1>16. HolderInv'
  <2>1. \A c \in Bos : Allocated(c)' = Allocated(c)
    BY <1>2 DEF Allocated
  <2> QED  BY <1>1, <1>2, <1>3, <2>1 DEF TypeOK, HolderInv, ThreadInv, ThreadOK, DestroyInv, Procs, Dropping, Destroying, ThreadLabels
<1>17. RefCountExact'
  <2>1. Others(Worker)
    BY <1>1, <1>2, <1>3 DEF Others, InHand, Procs, TypeOK
  <2> SUFFICES ASSUME NEW c \in Bos
               PROVE  refCount'[c] = Cardinality(Allocated(c))' + Cardinality(Running(c))'
                                     + Count(queue, c)' + Count(localQueue, c)'
    BY DEF RefCountExact
  <2>2. ~InHand(Worker, c) /\ (InHand(Worker, c)' <=> c = Head(q))
    BY <1>1, <1>2, <1>3, <1>8 DEF InHand, ThreadInv, ThreadOK, WorkerInv, TypeOK, Dropping, Procs
  <2>3. Cardinality(Allocated(c))' = Cardinality(Allocated(c))
    BY <1>2 DEF Allocated
  <2>4. /\ Count(queue, c)' = Count(queue, c)
        /\ Count(localQueue, c)' = Count(localQueue, c) - (IF c = Head(q) THEN 1 ELSE 0)
    <3>1. Count(q, c) = Count(Tail(q), c) + (IF Head(q) = c THEN 1 ELSE 0) /\ Count(Tail(q), c) \in Nat
      BY <1>7, CountTail, CountIsNat
    <3>2. Count(localQueue, c)' = Count(Tail(q), c) /\ Count(localQueue, c) = Count(q, c) /\ Count(queue, c)' = Count(queue, c)
      BY <1>2, <1>6, <1>8 DEF Count
    <3> QED  BY <3>1, <3>2
  <2>5. refCount'[c] = refCount[c]
    BY <1>2
  <2>6. /\ Cardinality(Allocated(c)) \in Nat /\ Cardinality(Running(c)) \in Nat
        /\ Count(queue, c) \in Nat /\ Count(localQueue, c) \in Nat
        /\ refCount[c] = Cardinality(Allocated(c)) + Cardinality(Running(c))
                         + Count(queue, c) + Count(localQueue, c)
        /\ Cardinality(Running(c))' = Cardinality(Running(c)) + (IF InHand(Worker, c)' THEN 1 ELSE 0)
                                      - (IF InHand(Worker, c) THEN 1 ELSE 0)
    BY <1>1, <2>1, References DEF Procs
  <2>7. CASE c = Head(q)
    BY <2>2, <2>3, <2>4, <2>5, <2>6, <2>7
  <2>8. CASE c # Head(q)
    BY <2>2, <2>3, <2>4, <2>5, <2>6, <2>8
  <2> QED  BY <2>7, <2>8
<1>18. LiveInv'
  BY <1>1, <1>2, <1>3 DEF TypeOK, LiveInv
<1>19. DeleterInv'
  BY <1>1, <1>2, <1>3, <1>5 DEF DeleterInv
<1>20. GpuInv'
  BY <1>1, <1>2, <1>3 DEF TypeOK, GpuInv, ThreadInv, ThreadOK, HolderInv, Procs
<1>21. ListedInv'
  BY <1>1, <1>2, <1>3 DEF TypeOK, ListedInv
<1>22. ErasedInv'
  BY <1>1, <1>2, <1>3, <1>5 DEF ErasedInv, Deleting
<1>23. FinderInv'
  BY <1>1, <1>2, <1>3 DEF TypeOK, FinderInv, ThreadInv, ThreadOK, Procs
<1> QED  BY <1>10, <1>11, <1>12, <1>13, <1>14, <1>15, <1>16, <1>17, <1>18, <1>19, <1>20, <1>21, <1>22, <1>23 DEF IInv

LEMMA WorkerClosedInv ==
  ASSUME IInv, WorkerClose, localQueue = <<>>
  PROVE  IInv'
<1> USE ProcsAssumption, Kinds
<1>1. TypeOK /\ ThreadInv /\ DestroyInv /\ MtxInv /\ MutexInv /\ WorkerInv /\ HolderInv /\ RefCountExact
        /\ LiveInv /\ DeleterInv /\ GpuInv /\ ListedInv /\ ErasedInv /\ FinderInv
  BY DEF IInv
<1>2. /\ pc[Worker] = "w_close" /\ pc' = [pc EXCEPT ![Worker] = "w_loop"] /\ localQueue = <<>>
      /\ UNCHANGED <<life, refCount, handle, openHandles, sharing, holds, mtx, gpu, queue, localQueue, workCount, active, workerDone, closeWorkerMutex, bo, calls>>
  BY DEF WorkerClose, boVars, workerVars, Begin, Counted, At, Goto, NotifyAndGoto
<1>3. /\ pc'[Worker] = "w_loop"
      /\ \A q \in Procs \ {Worker} : pc'[q] = pc[q] /\ bo'[q] = bo[q]
  BY <1>1, <1>2 DEF TypeOK, Procs
<1>4. pc' \in [Procs -> Labels] /\ bo' \in [Procs -> Bos \cup DmaBufs \cup {None}]
  BY <1>1, <1>2 DEF TypeOK, Procs, Labels
<1>5. \A q \in Procs : pc'[q] \in Deleting => pc'[q] = pc[q] /\ bo'[q] = bo[q]
  BY <1>2, <1>3 DEF Deleting, Procs
<1>6. Steady(Worker)
  BY <1>1, <1>2, <1>3 DEF Steady, Others, InHand, ThreadInv, ThreadOK, WorkerInv, TypeOK, Procs
<1>7. RefCountExact' /\ \A c \in Bos : IsFiniteSet(Allocated(c)')
  BY <1>1, <1>2, <1>6, CountsKept DEF Procs
<1>10. TypeOK'
  BY <1>1, <1>2, <1>3, <1>4 DEF TypeOK, Procs
<1>11. ThreadInv'
  BY <1>1, <1>2, <1>3 DEF ThreadInv, ThreadOK, Procs
<1>12. DestroyInv'
  BY <1>1, <1>2, <1>3 DEF TypeOK, ThreadInv, ThreadOK, DestroyInv, Procs, Dropping, Destroying
<1>13. MtxInv'
  BY <1>1, <1>2, <1>3 DEF TypeOK, ThreadInv, ThreadOK, MtxInv, WorkerInv, Procs, Dropping, ThreadLabels, Destroying, WorkerLabels
<1>14. MutexInv'
  BY <1>1, <1>2, <1>3 DEF TypeOK, MutexInv, WorkerInv, Procs, Dropping, WorkerLabels
<1>15. WorkerInv'
  BY <1>1, <1>2, <1>3 DEF TypeOK, WorkerInv, MutexInv, Closing, Procs, Dropping, WorkerLabels
<1>16. HolderInv'
  BY <1>1, <1>2, <1>3, <1>7 DEF TypeOK, HolderInv, ThreadInv, ThreadOK, DestroyInv, Procs, Dropping, Destroying, ThreadLabels
<1>17. LiveInv'
  BY <1>1, <1>2, <1>3 DEF TypeOK, LiveInv
<1>18. DeleterInv'
  BY <1>1, <1>2, <1>3, <1>5 DEF DeleterInv
<1>19. GpuInv'
  BY <1>1, <1>2, <1>3 DEF TypeOK, GpuInv, ThreadInv, ThreadOK, HolderInv, Procs
<1>20. ListedInv'
  BY <1>1, <1>2, <1>3 DEF TypeOK, ListedInv
<1>21. ErasedInv'
  BY <1>1, <1>2, <1>3, <1>5 DEF ErasedInv, Deleting
<1>22. FinderInv'
  BY <1>1, <1>2, <1>3 DEF TypeOK, FinderInv, ThreadInv, ThreadOK, Procs
<1> QED  BY <1>10, <1>11, <1>12, <1>13, <1>14, <1>15, <1>16, <1>17, <1>18, <1>19, <1>20, <1>21, <1>22, <1>7 DEF IInv

LEMMA WorkerDrainsInv ==
  ASSUME IInv, WorkerDrain, queue # <<>>
  PROVE  IInv'
<1> USE ProcsAssumption, Kinds
<1>1. TypeOK /\ ThreadInv /\ DestroyInv /\ MtxInv /\ MutexInv /\ WorkerInv /\ HolderInv /\ RefCountExact
        /\ LiveInv /\ DeleterInv /\ GpuInv /\ ListedInv /\ ErasedInv /\ FinderInv
  BY DEF IInv
<1>2. /\ pc[Worker] = "w_drain" /\ pc' = [pc EXCEPT ![Worker] = "u_lock"]
      /\ queue # <<>> /\ queue' = Tail(queue)
      /\ bo' = [bo EXCEPT ![Worker] = Head(queue)]
      /\ UNCHANGED <<life, refCount, handle, openHandles, sharing, holds, mtx, gpu, localQueue, workCount, active, workerDone, closeWorkerMutex, calls>>
  BY DEF WorkerDrain, boVars, workerVars, Begin, Counted, At, Goto, NotifyAndGoto
<1>3. /\ pc'[Worker] = "u_lock" /\ bo'[Worker] = Head(queue)
      /\ \A q \in Procs \ {Worker} : pc'[q] = pc[q] /\ bo'[q] = bo[q]
  BY <1>1, <1>2 DEF TypeOK, Procs
<1>4. pc' \in [Procs -> Labels] /\ bo' \in [Procs -> Bos \cup DmaBufs \cup {None}]
  BY SMTT(60), <1>1, <1>2 DEF TypeOK, Procs, Labels
<1>5. \A q \in Procs : pc'[q] \in Deleting => pc'[q] = pc[q] /\ bo'[q] = bo[q]
  BY <1>2, <1>3 DEF Deleting, Procs
<1>6. PICK q \in Seq(CmdBos) : q = queue
  BY <1>1 DEF WorkerInv
<1>7. /\ q # <<>> /\ q \in Seq(Bos) /\ Head(q) \in CmdBos /\ Tail(q) \in Seq(CmdBos) /\ Tail(q) \in Seq(Bos)
      /\ Len(q) \in Nat /\ Len(Tail(q)) = Len(q) - 1
  BY <1>1, <1>2, <1>6 DEF TypeOK
<1>8. bo'[Worker] = Head(q) /\ queue' = Tail(q)
  BY <1>2, <1>3, <1>6
<1>10. TypeOK'
  BY <1>1, <1>2, <1>4, <1>7, <1>8 DEF TypeOK
<1>11. ThreadInv'
  BY <1>1, <1>2, <1>3 DEF ThreadInv, ThreadOK, Procs
<1>12. DestroyInv'
  BY <1>1, <1>2, <1>3 DEF TypeOK, ThreadInv, ThreadOK, DestroyInv, Procs, Dropping, Destroying
<1>13. MtxInv'
  BY <1>1, <1>2, <1>3 DEF TypeOK, ThreadInv, ThreadOK, MtxInv, WorkerInv, Procs, Dropping, ThreadLabels, Destroying, WorkerLabels
<1>14. MutexInv'
  BY <1>1, <1>2, <1>3 DEF TypeOK, MutexInv, WorkerInv, Procs, Dropping, WorkerLabels
<1>15. WorkerInv'
  <2>1. Len(localQueue) \in Nat /\ Closing = 0 /\ Closing' = 1
    BY <1>1, <1>2, <1>3 DEF TypeOK, Closing, Dropping
  <2>2. workCount' = Len(queue') + Len(localQueue') + Closing'
    BY <1>1, <1>2, <1>6, <1>7, <1>8, <2>1 DEF WorkerInv
  <2> QED  BY <1>1, <1>2, <1>3, <1>6, <1>7, <1>8, <2>2 DEF WorkerInv, MutexInv, Procs, Dropping, WorkerLabels
<1>16. HolderInv'
  <2>1. \A c \in Bos : Allocated(c)' = Allocated(c)
    BY <1>2 DEF Allocated
  <2> QED  BY <1>1, <1>2, <1>3, <2>1 DEF TypeOK, HolderInv, ThreadInv, ThreadOK, DestroyInv, Procs, Dropping, Destroying, ThreadLabels
<1>17. RefCountExact'
  <2>1. Others(Worker)
    BY <1>1, <1>2, <1>3 DEF Others, InHand, Procs, TypeOK
  <2> SUFFICES ASSUME NEW c \in Bos
               PROVE  refCount'[c] = Cardinality(Allocated(c))' + Cardinality(Running(c))'
                                     + Count(queue, c)' + Count(localQueue, c)'
    BY DEF RefCountExact
  <2>2. ~InHand(Worker, c) /\ (InHand(Worker, c)' <=> c = Head(q))
    BY <1>1, <1>2, <1>3, <1>8 DEF InHand, ThreadInv, ThreadOK, WorkerInv, TypeOK, Dropping, Procs
  <2>3. Cardinality(Allocated(c))' = Cardinality(Allocated(c))
    BY <1>2 DEF Allocated
  <2>4. /\ Count(localQueue, c)' = Count(localQueue, c)
        /\ Count(queue, c)' = Count(queue, c) - (IF c = Head(q) THEN 1 ELSE 0)
    <3>1. Count(q, c) = Count(Tail(q), c) + (IF Head(q) = c THEN 1 ELSE 0) /\ Count(Tail(q), c) \in Nat
      BY <1>7, CountTail, CountIsNat
    <3>2. Count(queue, c)' = Count(Tail(q), c) /\ Count(queue, c) = Count(q, c) /\ Count(localQueue, c)' = Count(localQueue, c)
      BY <1>2, <1>6, <1>8 DEF Count
    <3> QED  BY <3>1, <3>2
  <2>5. refCount'[c] = refCount[c]
    BY <1>2
  <2>6. /\ Cardinality(Allocated(c)) \in Nat /\ Cardinality(Running(c)) \in Nat
        /\ Count(queue, c) \in Nat /\ Count(localQueue, c) \in Nat
        /\ refCount[c] = Cardinality(Allocated(c)) + Cardinality(Running(c))
                         + Count(queue, c) + Count(localQueue, c)
        /\ Cardinality(Running(c))' = Cardinality(Running(c)) + (IF InHand(Worker, c)' THEN 1 ELSE 0)
                                      - (IF InHand(Worker, c) THEN 1 ELSE 0)
    BY <1>1, <2>1, References DEF Procs
  <2>7. CASE c = Head(q)
    BY <2>2, <2>3, <2>4, <2>5, <2>6, <2>7
  <2>8. CASE c # Head(q)
    BY <2>2, <2>3, <2>4, <2>5, <2>6, <2>8
  <2> QED  BY <2>7, <2>8
<1>18. LiveInv'
  BY <1>1, <1>2, <1>3 DEF TypeOK, LiveInv
<1>19. DeleterInv'
  BY <1>1, <1>2, <1>3, <1>5 DEF DeleterInv
<1>20. GpuInv'
  BY <1>1, <1>2, <1>3 DEF TypeOK, GpuInv, ThreadInv, ThreadOK, HolderInv, Procs
<1>21. ListedInv'
  BY <1>1, <1>2, <1>3 DEF TypeOK, ListedInv
<1>22. ErasedInv'
  BY <1>1, <1>2, <1>3, <1>5 DEF ErasedInv, Deleting
<1>23. FinderInv'
  BY <1>1, <1>2, <1>3 DEF TypeOK, FinderInv, ThreadInv, ThreadOK, Procs
<1> QED  BY <1>10, <1>11, <1>12, <1>13, <1>14, <1>15, <1>16, <1>17, <1>18, <1>19, <1>20, <1>21, <1>22, <1>23 DEF IInv

LEMMA WorkerDrainedInv ==
  ASSUME IInv, WorkerDrain, queue = <<>>
  PROVE  IInv'
<1> USE ProcsAssumption, Kinds
<1>1. TypeOK /\ ThreadInv /\ DestroyInv /\ MtxInv /\ MutexInv /\ WorkerInv /\ HolderInv /\ RefCountExact
        /\ LiveInv /\ DeleterInv /\ GpuInv /\ ListedInv /\ ErasedInv /\ FinderInv
  BY DEF IInv
<1>2. /\ pc[Worker] = "w_drain" /\ pc' = [pc EXCEPT ![Worker] = "w_done"] /\ queue = <<>>
      /\ closeWorkerMutex' = Nobody
      /\ UNCHANGED <<life, refCount, handle, openHandles, sharing, holds, mtx, gpu, queue, localQueue, workCount, active, workerDone, bo, calls>>
  BY DEF WorkerDrain, boVars, workerVars, Begin, Counted, At, Goto, NotifyAndGoto
<1>3. /\ pc'[Worker] = "w_done"
      /\ \A q \in Procs \ {Worker} : pc'[q] = pc[q] /\ bo'[q] = bo[q]
  BY <1>1, <1>2 DEF TypeOK, Procs
<1>4. pc' \in [Procs -> Labels] /\ bo' \in [Procs -> Bos \cup DmaBufs \cup {None}]
  BY <1>1, <1>2 DEF TypeOK, Procs, Labels
<1>5. \A q \in Procs : pc'[q] \in Deleting => pc'[q] = pc[q] /\ bo'[q] = bo[q]
  BY <1>2, <1>3 DEF Deleting, Procs
<1>6. Steady(Worker)
  BY <1>1, <1>2, <1>3 DEF Steady, Others, InHand, ThreadInv, ThreadOK, WorkerInv, TypeOK, Procs
<1>7. RefCountExact' /\ \A c \in Bos : IsFiniteSet(Allocated(c)')
  BY <1>1, <1>2, <1>6, CountsKept DEF Procs
<1>10. TypeOK'
  BY <1>1, <1>2, <1>3, <1>4 DEF TypeOK, Procs
<1>11. ThreadInv'
  BY <1>1, <1>2, <1>3 DEF ThreadInv, ThreadOK, Procs
<1>12. DestroyInv'
  BY <1>1, <1>2, <1>3 DEF TypeOK, ThreadInv, ThreadOK, DestroyInv, Procs, Dropping, Destroying
<1>13. MtxInv'
  BY <1>1, <1>2, <1>3 DEF TypeOK, ThreadInv, ThreadOK, MtxInv, WorkerInv, Procs, Dropping, ThreadLabels, Destroying, WorkerLabels
<1>14. MutexInv'
  BY <1>1, <1>2, <1>3 DEF TypeOK, MutexInv, WorkerInv, Procs, Dropping, WorkerLabels
<1>15. WorkerInv'
  BY <1>1, <1>2, <1>3 DEF TypeOK, WorkerInv, MutexInv, Closing, Procs, Dropping, WorkerLabels
<1>16. HolderInv'
  BY <1>1, <1>2, <1>3, <1>7 DEF TypeOK, HolderInv, ThreadInv, ThreadOK, DestroyInv, Procs, Dropping, Destroying, ThreadLabels
<1>17. LiveInv'
  BY <1>1, <1>2, <1>3 DEF TypeOK, LiveInv
<1>18. DeleterInv'
  BY <1>1, <1>2, <1>3, <1>5 DEF DeleterInv
<1>19. GpuInv'
  BY <1>1, <1>2, <1>3 DEF TypeOK, GpuInv, ThreadInv, ThreadOK, HolderInv, Procs
<1>20. ListedInv'
  BY <1>1, <1>2, <1>3 DEF TypeOK, ListedInv
<1>21. ErasedInv'
  BY <1>1, <1>2, <1>3, <1>5 DEF ErasedInv, Deleting
<1>22. FinderInv'
  BY <1>1, <1>2, <1>3 DEF TypeOK, FinderInv, ThreadInv, ThreadOK, Procs
<1> QED  BY <1>10, <1>11, <1>12, <1>13, <1>14, <1>15, <1>16, <1>17, <1>18, <1>19, <1>20, <1>21, <1>22, <1>7 DEF IInv

LEMMA WorkerSleepsInv ==
  ASSUME IInv, WorkerCheck, queue = <<>> /\ active
  PROVE  IInv'
<1> USE ProcsAssumption, Kinds
<1>1. TypeOK /\ ThreadInv /\ DestroyInv /\ MtxInv /\ MutexInv /\ WorkerInv /\ HolderInv /\ RefCountExact
        /\ LiveInv /\ DeleterInv /\ GpuInv /\ ListedInv /\ ErasedInv /\ FinderInv
  BY DEF IInv
<1>2. /\ pc[Worker] = "w_check" /\ pc' = [pc EXCEPT ![Worker] = "w_sleep"] /\ queue = <<>> /\ active
      /\ UNCHANGED <<life, refCount, handle, openHandles, sharing, holds, mtx, gpu, queue, localQueue, workCount, active, workerDone, closeWorkerMutex, bo, calls>>
  BY DEF WorkerCheck, boVars, workerVars, Begin, Counted, At, Goto, NotifyAndGoto
<1>3. /\ pc'[Worker] = "w_sleep"
      /\ \A q \in Procs \ {Worker} : pc'[q] = pc[q] /\ bo'[q] = bo[q]
  BY <1>1, <1>2 DEF TypeOK, Procs
<1>4. pc' \in [Procs -> Labels] /\ bo' \in [Procs -> Bos \cup DmaBufs \cup {None}]
  BY <1>1, <1>2 DEF TypeOK, Procs, Labels
<1>5. \A q \in Procs : pc'[q] \in Deleting => pc'[q] = pc[q] /\ bo'[q] = bo[q]
  BY <1>2, <1>3 DEF Deleting, Procs
<1>6. Steady(Worker)
  BY <1>1, <1>2, <1>3 DEF Steady, Others, InHand, ThreadInv, ThreadOK, WorkerInv, TypeOK, Procs
<1>7. RefCountExact' /\ \A c \in Bos : IsFiniteSet(Allocated(c)')
  BY <1>1, <1>2, <1>6, CountsKept DEF Procs
<1>10. TypeOK'
  BY <1>1, <1>2, <1>3, <1>4 DEF TypeOK, Procs
<1>11. ThreadInv'
  BY <1>1, <1>2, <1>3 DEF ThreadInv, ThreadOK, Procs
<1>12. DestroyInv'
  BY <1>1, <1>2, <1>3 DEF TypeOK, ThreadInv, ThreadOK, DestroyInv, Procs, Dropping, Destroying
<1>13. MtxInv'
  BY <1>1, <1>2, <1>3 DEF TypeOK, ThreadInv, ThreadOK, MtxInv, WorkerInv, Procs, Dropping, ThreadLabels, Destroying, WorkerLabels
<1>14. MutexInv'
  BY <1>1, <1>2, <1>3 DEF TypeOK, MutexInv, WorkerInv, Procs, Dropping, WorkerLabels
<1>15. WorkerInv'
  BY <1>1, <1>2, <1>3 DEF TypeOK, WorkerInv, MutexInv, Closing, Procs, Dropping, WorkerLabels
<1>16. HolderInv'
  BY <1>1, <1>2, <1>3, <1>7 DEF TypeOK, HolderInv, ThreadInv, ThreadOK, DestroyInv, Procs, Dropping, Destroying, ThreadLabels
<1>17. LiveInv'
  BY <1>1, <1>2, <1>3 DEF TypeOK, LiveInv
<1>18. DeleterInv'
  BY <1>1, <1>2, <1>3, <1>5 DEF DeleterInv
<1>19. GpuInv'
  BY <1>1, <1>2, <1>3 DEF TypeOK, GpuInv, ThreadInv, ThreadOK, HolderInv, Procs
<1>20. ListedInv'
  BY <1>1, <1>2, <1>3 DEF TypeOK, ListedInv
<1>21. ErasedInv'
  BY <1>1, <1>2, <1>3, <1>5 DEF ErasedInv, Deleting
<1>22. FinderInv'
  BY <1>1, <1>2, <1>3 DEF TypeOK, FinderInv, ThreadInv, ThreadOK, Procs
<1> QED  BY <1>10, <1>11, <1>12, <1>13, <1>14, <1>15, <1>16, <1>17, <1>18, <1>19, <1>20, <1>21, <1>22, <1>7 DEF IInv

LEMMA WorkerSwapsInv ==
  ASSUME IInv, WorkerCheck, queue # <<>> \/ ~active
  PROVE  IInv'
<1> USE ProcsAssumption, Kinds
<1>1. TypeOK /\ ThreadInv /\ DestroyInv /\ MtxInv /\ MutexInv /\ WorkerInv /\ HolderInv /\ RefCountExact
        /\ LiveInv /\ DeleterInv /\ GpuInv /\ ListedInv /\ ErasedInv /\ FinderInv
  BY DEF IInv
<1>2. /\ pc[Worker] = "w_check" /\ pc' = [pc EXCEPT ![Worker] = "w_close"]
      /\ localQueue' = queue /\ queue' = <<>> /\ closeWorkerMutex' = Nobody
      /\ UNCHANGED <<life, refCount, handle, openHandles, sharing, holds, mtx, gpu, workCount, active, workerDone, bo, calls>>
  BY DEF WorkerCheck, boVars, workerVars, Begin, Counted, At, Goto, NotifyAndGoto
<1>3. /\ pc'[Worker] = "w_close"
      /\ \A q \in Procs \ {Worker} : pc'[q] = pc[q] /\ bo'[q] = bo[q]
  BY <1>1, <1>2 DEF TypeOK, Procs
<1>4. pc' \in [Procs -> Labels] /\ bo' \in [Procs -> Bos \cup DmaBufs \cup {None}]
  BY <1>1, <1>2 DEF TypeOK, Procs, Labels
<1>5. \A q \in Procs : pc'[q] \in Deleting => pc'[q] = pc[q] /\ bo'[q] = bo[q]
  BY <1>2, <1>3 DEF Deleting, Procs
<1>6. localQueue = <<>>
  BY <1>1, <1>2 DEF WorkerInv, Dropping
<1>10. TypeOK'
  BY SMTT(60), <1>1, <1>2, <1>3, <1>4 DEF TypeOK, Procs
<1>11. ThreadInv'
  BY <1>1, <1>2, <1>3 DEF ThreadInv, ThreadOK, Procs
<1>12. DestroyInv'
  BY <1>1, <1>2, <1>3 DEF TypeOK, ThreadInv, ThreadOK, DestroyInv, Procs, Dropping, Destroying
<1>13. MtxInv'
  BY <1>1, <1>2, <1>3 DEF TypeOK, ThreadInv, ThreadOK, MtxInv, WorkerInv, Procs, Dropping, ThreadLabels, Destroying, WorkerLabels
<1>14. MutexInv'
  BY <1>1, <1>2, <1>3 DEF TypeOK, MutexInv, WorkerInv, Procs, Dropping, WorkerLabels
<1>15. WorkerInv'
  BY <1>1, <1>2, <1>3 DEF TypeOK, WorkerInv, MutexInv, Closing, Procs, Dropping, WorkerLabels
<1>16. HolderInv'
  <2>1. \A c \in Bos : Allocated(c)' = Allocated(c)
    BY <1>2 DEF Allocated
  <2> QED  BY <1>1, <1>2, <1>3, <2>1 DEF TypeOK, HolderInv, ThreadInv, ThreadOK, DestroyInv, Procs, Dropping, Destroying, ThreadLabels
<1>17. RefCountExact'
  <2>1. Others(Worker)
    BY <1>1, <1>2, <1>3 DEF Others, InHand, Procs, TypeOK
  <2> SUFFICES ASSUME NEW c \in Bos
               PROVE  refCount'[c] = Cardinality(Allocated(c))' + Cardinality(Running(c))'
                                     + Count(queue, c)' + Count(localQueue, c)'
    BY DEF RefCountExact
  <2>2. ~InHand(Worker, c) /\ ~InHand(Worker, c)'
    BY <1>1, <1>2, <1>3 DEF InHand, ThreadInv, ThreadOK, WorkerInv, TypeOK, Dropping, Procs
  <2>3. Cardinality(Allocated(c))' = Cardinality(Allocated(c))
    BY <1>2 DEF Allocated
  <2>4. Count(queue, c)' = Count(localQueue, c) /\ Count(localQueue, c)' = Count(queue, c)
    BY <1>2, <1>6 DEF Count
  <2>5. refCount'[c] = refCount[c]
    BY <1>2
  <2>6. /\ Cardinality(Allocated(c)) \in Nat /\ Cardinality(Running(c)) \in Nat
        /\ Count(queue, c) \in Nat /\ Count(localQueue, c) \in Nat
        /\ refCount[c] = Cardinality(Allocated(c)) + Cardinality(Running(c))
                         + Count(queue, c) + Count(localQueue, c)
        /\ Cardinality(Running(c))' = Cardinality(Running(c)) + (IF InHand(Worker, c)' THEN 1 ELSE 0)
                                      - (IF InHand(Worker, c) THEN 1 ELSE 0)
    BY <1>1, <2>1, References DEF Procs
  <2> QED  BY <2>2, <2>3, <2>4, <2>5, <2>6
<1>18. LiveInv'
  BY <1>1, <1>2, <1>3 DEF TypeOK, LiveInv
<1>19. DeleterInv'
  BY <1>1, <1>2, <1>3, <1>5 DEF DeleterInv
<1>20. GpuInv'
  BY <1>1, <1>2, <1>3 DEF TypeOK, GpuInv, ThreadInv, ThreadOK, HolderInv, Procs
<1>21. ListedInv'
  BY <1>1, <1>2, <1>3 DEF TypeOK, ListedInv
<1>22. ErasedInv'
  BY <1>1, <1>2, <1>3, <1>5 DEF ErasedInv, Deleting
<1>23. FinderInv'
  BY <1>1, <1>2, <1>3 DEF TypeOK, FinderInv, ThreadInv, ThreadOK, Procs
<1> QED  BY <1>10, <1>11, <1>12, <1>13, <1>14, <1>15, <1>16, <1>17, <1>18, <1>19, <1>20, <1>21, <1>22, <1>23 DEF IInv

LEMMA ImportFoundInv ==
  ASSUME IInv, NEW t \in Threads, NEW b \in SharedBos,
         At(t, "import_find"), Goto(t, "idle"), mtx' = Unlocked(t),
         findAndReferenceSharedBufferObject(t, b), holds' = [holds EXCEPT ![t][b] = @ + 1],
         UNCHANGED <<openHandles, gpu, workerVars, bo>>
  PROVE  IInv'
<1> USE ProcsAssumption, Kinds
<1>1. TypeOK /\ ThreadInv /\ DestroyInv /\ MtxInv /\ MutexInv /\ WorkerInv /\ HolderInv /\ RefCountExact
        /\ LiveInv /\ DeleterInv /\ GpuInv /\ ListedInv /\ ErasedInv /\ FinderInv
  BY DEF IInv
<1>2. /\ pc[t] = "import_find" /\ pc' = [pc EXCEPT ![t] = "idle"] /\ mtx' = (IF mtx = t THEN Nobody ELSE mtx)
      /\ holds' = [holds EXCEPT ![t][b] = @ + 1]
      /\ b \in sharing /\ refCount' = [refCount EXCEPT ![b] = @ + 1]
      /\ UNCHANGED <<life, handle, openHandles, sharing, gpu, queue, localQueue, workCount, active, workerDone, closeWorkerMutex, bo, calls>>
  BY DEF findAndReferenceSharedBufferObject, SharedWith, Unlocked, boVars, workerVars, Begin, Counted, At, Goto, NotifyAndGoto
<1>3. /\ pc'[t] = "idle" /\ bo'[t] = bo[t] /\ bo[t] \in DmaBufs
      /\ \A q \in Procs \ {t} : pc'[q] = pc[q] /\ bo'[q] = bo[q]
  BY <1>1, <1>2 DEF TypeOK, Procs, ThreadInv, ThreadOK
<1>4. pc' \in [Procs -> Labels] /\ bo' \in [Procs -> Bos \cup DmaBufs \cup {None}]
  BY SMTT(60), <1>1, <1>2 DEF TypeOK, Procs, Labels
<1>5. \A q \in Procs : pc'[q] \in Deleting => pc'[q] = pc[q] /\ bo'[q] = bo[q]
  BY <1>2, <1>3 DEF Deleting, Procs
<1>6. /\ holds' \in [Threads -> [Bos -> Nat]] /\ holds'[t][b] = holds[t][b] + 1 /\ holds[t][b] \in Nat
      /\ \A u \in Threads, c \in Bos : u # t \/ c # b => holds'[u][c] = holds[u][c]
  BY <1>1, <1>2 DEF TypeOK
<1>7. \A c \in Bos : /\ IsFiniteSet(Allocated(c)')
                     /\ Cardinality(Allocated(c))' = Cardinality(Allocated(c)) + (IF c = b THEN 1 ELSE 0)
  <2>1. /\ holds \in [Threads -> [Bos -> Nat]] /\ b \in Bos
        /\ \A c \in Bos : IsFiniteSet(Allocated(c))
    BY <1>1 DEF TypeOK, HolderInv
  <2> QED  BY <1>2, <2>1, AllocatedGain
<1>8. /\ mtx = t /\ \A q \in Procs : pc[q] = "u_close" => bo[q] \notin SharedBos
      /\ mtx' = Nobody
  BY <1>1, <1>2 DEF MtxInv, Procs
<1>9. \A q \in Procs : pc[q] \in Deleting => bo[q] \in Bos /\ bo[q] \notin sharing
  BY <1>1, <1>8 DEF Deleting, ErasedInv, ThreadInv, ThreadOK, WorkerInv, Dropping, Procs, TypeOK
<1>30. /\ refCount' \in [Bos -> Nat] /\ refCount'[b] = refCount[b] + 1
       /\ \A c \in Bos \ {b} : refCount'[c] = refCount[c]
       /\ life[b] = "live"
  BY <1>1, <1>2 DEF TypeOK, ListedInv
<1>10. TypeOK'
  BY <1>1, <1>2, <1>4, <1>6, <1>8, <1>30 DEF TypeOK
<1>11. ThreadInv'
  <2>1. ASSUME NEW u \in Threads \ {t} PROVE ThreadOK(u)'
    <3>1. ThreadOK(u) /\ pc'[u] = pc[u] /\ bo'[u] = bo[u] /\ active' = active
      BY <1>1, <1>2, <1>3 DEF ThreadInv, Procs
    <3>2. bo[u] \in Bos => holds'[u][bo[u]] = holds[u][bo[u]]
      BY <1>6
    <3> QED  BY <3>1, <3>2 DEF ThreadOK
  <2>2. ThreadOK(t)'
    BY <1>3 DEF ThreadOK, ThreadLabels, Dropping, Destroying
  <2> QED  BY <2>1, <2>2 DEF ThreadInv
<1>12. DestroyInv'
  BY <1>1, <1>2, <1>3 DEF TypeOK, ThreadInv, ThreadOK, DestroyInv, Procs, Dropping, Destroying
<1>13. MtxInv'
  BY <1>1, <1>3, <1>8 DEF MtxInv, Procs
<1>14. MutexInv'
  BY <1>1, <1>2, <1>3 DEF TypeOK, MutexInv, WorkerInv, Procs, Dropping, WorkerLabels
<1>15. WorkerInv'
  BY <1>1, <1>2, <1>3 DEF TypeOK, WorkerInv, MutexInv, Closing, Procs, Dropping, WorkerLabels
<1>16. HolderInv'
  <2>1. \A u \in Threads : \A c \in PrivateBos : holds'[u][c] = holds[u][c]
    BY <1>6
  <2> QED  BY <1>1, <1>2, <1>3, <1>7, <2>1 DEF HolderInv, ThreadInv, ThreadOK, DestroyInv, Procs, Destroying, Dropping
<1>17. RefCountExact'
  <2>1. Others(t)
    BY <1>1, <1>2, <1>3 DEF Others, InHand, Procs, TypeOK
  <2> SUFFICES ASSUME NEW c \in Bos
               PROVE  refCount'[c] = Cardinality(Allocated(c))' + Cardinality(Running(c))'
                                     + Count(queue, c)' + Count(localQueue, c)'
    BY DEF RefCountExact
  <2>2. ~InHand(t, c) /\ ~InHand(t, c)'
    BY <1>1, <1>2, <1>3 DEF InHand, ThreadInv, ThreadOK, WorkerInv, TypeOK, Dropping, Procs
  <2>3. Cardinality(Allocated(c))' = Cardinality(Allocated(c)) + (IF c = b THEN 1 ELSE 0)
    BY <1>7
  <2>4. Count(queue, c)' = Count(queue, c) /\ Count(localQueue, c)' = Count(localQueue, c)
    BY <1>2 DEF Count
  <2>5. refCount'[c] = refCount[c] + (IF c = b THEN 1 ELSE 0)
    <3>1. refCount[c] \in Nat
      BY <1>1 DEF TypeOK
    <3> QED  BY <3>1, <1>30
  <2>6. /\ Cardinality(Allocated(c)) \in Nat /\ Cardinality(Running(c)) \in Nat
        /\ Count(queue, c) \in Nat /\ Count(localQueue, c) \in Nat
        /\ refCount[c] = Cardinality(Allocated(c)) + Cardinality(Running(c))
                         + Count(queue, c) + Count(localQueue, c)
        /\ Cardinality(Running(c))' = Cardinality(Running(c)) + (IF InHand(t, c)' THEN 1 ELSE 0)
                                      - (IF InHand(t, c) THEN 1 ELSE 0)
    BY <1>1, <2>1, References DEF Procs
  <2> QED  BY <2>2, <2>3, <2>4, <2>5, <2>6
<1>18. LiveInv'
  BY <1>1, <1>2, <1>30 DEF LiveInv
<1>19. DeleterInv'
  BY <1>1, <1>2, <1>5, <1>9, <1>30 DEF DeleterInv
<1>20. GpuInv'
  <2>1. \A c \in gpu : c # b /\ c \in Bos /\ HolderOf[c] \in Threads
    BY <1>1 DEF GpuInv
  <2>2. \A c \in gpu : holds'[HolderOf[c]][c] = holds[HolderOf[c]][c]
    BY <1>6, <2>1
  <2> QED  BY <1>1, <1>2, <1>3, <2>1, <2>2 DEF GpuInv, Procs
<1>21. ListedInv'
  BY <1>1, <1>2, <1>30 DEF TypeOK, ListedInv
<1>22. ErasedInv'
  BY <1>1, <1>2, <1>3, <1>5 DEF ErasedInv, Deleting
<1>23. FinderInv'
  BY <1>1, <1>2, <1>3 DEF TypeOK, FinderInv, ThreadInv, ThreadOK, Procs
<1> QED  BY <1>10, <1>11, <1>12, <1>13, <1>14, <1>15, <1>16, <1>17, <1>18, <1>19, <1>20, <1>21, <1>22, <1>23 DEF IInv

LEMMA ImportCreatedInv ==
  ASSUME IInv, NEW t \in Threads, NEW b \in SharedBos,
         At(t, "import_find"), Goto(t, "idle"), mtx' = Unlocked(t),
         createSharedBufferObject(t, b), holds' = [holds EXCEPT ![t][b] = @ + 1],
         UNCHANGED <<openHandles, gpu, workerVars, bo>>
  PROVE  IInv'
<1> USE ProcsAssumption, Kinds
<1>1. TypeOK /\ ThreadInv /\ DestroyInv /\ MtxInv /\ MutexInv /\ WorkerInv /\ HolderInv /\ RefCountExact
        /\ LiveInv /\ DeleterInv /\ GpuInv /\ ListedInv /\ ErasedInv /\ FinderInv
  BY DEF IInv
<1>2. /\ pc[t] = "import_find" /\ pc' = [pc EXCEPT ![t] = "idle"] /\ mtx' = (IF mtx = t THEN Nobody ELSE mtx)
      /\ holds' = [holds EXCEPT ![t][b] = @ + 1]
      /\ life[b] = "none" /\ refCount' = [refCount EXCEPT ![b] = 1]
      /\ life' = [life EXCEPT ![b] = "live"] /\ handle' = [handle EXCEPT ![b] = bo[t]]
      /\ sharing' = sharing \cup {b} /\ {c \in sharing : handle[c] = bo[t]} = {}
      /\ UNCHANGED <<openHandles, gpu, queue, localQueue, workCount, active, workerDone, closeWorkerMutex, bo, calls>>
  BY DEF createSharedBufferObject, SharedWith, Unlocked, boVars, workerVars, Begin, Counted, At, Goto, NotifyAndGoto
<1>3. /\ pc'[t] = "idle" /\ bo'[t] = bo[t] /\ bo[t] \in DmaBufs
      /\ \A q \in Procs \ {t} : pc'[q] = pc[q] /\ bo'[q] = bo[q]
  BY <1>1, <1>2 DEF TypeOK, Procs, ThreadInv, ThreadOK
<1>4. pc' \in [Procs -> Labels] /\ bo' \in [Procs -> Bos \cup DmaBufs \cup {None}]
  BY SMTT(60), <1>1, <1>2 DEF TypeOK, Procs, Labels
<1>5. \A q \in Procs : pc'[q] \in Deleting => pc'[q] = pc[q] /\ bo'[q] = bo[q]
  BY <1>2, <1>3 DEF Deleting, Procs
<1>6. /\ holds' \in [Threads -> [Bos -> Nat]] /\ holds'[t][b] = holds[t][b] + 1 /\ holds[t][b] \in Nat
      /\ \A u \in Threads, c \in Bos : u # t \/ c # b => holds'[u][c] = holds[u][c]
  BY <1>1, <1>2 DEF TypeOK
<1>7. \A c \in Bos : /\ IsFiniteSet(Allocated(c)')
                     /\ Cardinality(Allocated(c))' = Cardinality(Allocated(c)) + (IF c = b THEN 1 ELSE 0)
  <2>1. /\ holds \in [Threads -> [Bos -> Nat]] /\ b \in Bos
        /\ \A c \in Bos : IsFiniteSet(Allocated(c))
    BY <1>1 DEF TypeOK, HolderInv
  <2> QED  BY <1>2, <2>1, AllocatedGain
<1>8. /\ mtx = t /\ \A q \in Procs : pc[q] = "u_close" => bo[q] \notin SharedBos
      /\ mtx' = Nobody
  BY <1>1, <1>2 DEF MtxInv, Procs
<1>9. \A q \in Procs : pc[q] \in Deleting => bo[q] \in Bos /\ bo[q] \notin sharing
  BY <1>1, <1>8 DEF Deleting, ErasedInv, ThreadInv, ThreadOK, WorkerInv, Dropping, Procs, TypeOK
<1>30. /\ refCount' \in [Bos -> Nat] /\ refCount'[b] = refCount[b] + 1
       /\ \A c \in Bos \ {b} : refCount'[c] = refCount[c]
       /\ life' \in [Bos -> {"none", "live", "deleted"}] /\ life'[b] = "live"
       /\ \A c \in Bos \ {b} : life'[c] = life[c]
       /\ handle' \in [SharedBos -> DmaBufs \cup {None}] /\ handle'[b] = bo[t]
       /\ \A c \in SharedBos \ {b} : handle'[c] = handle[c]
  <2>1. refCount[b] = 0
    BY <1>1, <1>2 DEF LiveInv
  <2> QED  BY <1>1, <1>2, <1>3, <2>1 DEF TypeOK
<1>31. \A q \in Procs : pc[q] \in Deleting => bo[q] # b
  BY <1>1, <1>2 DEF DeleterInv
<1>10. TypeOK'
  <2>1. sharing' \subseteq SharedBos
    BY <1>1, <1>2 DEF TypeOK
  <2> QED  BY <1>1, <1>2, <1>4, <1>6, <1>8, <1>30, <2>1 DEF TypeOK
<1>11. ThreadInv'
  <2>1. ASSUME NEW u \in Threads \ {t} PROVE ThreadOK(u)'
    <3>1. ThreadOK(u) /\ pc'[u] = pc[u] /\ bo'[u] = bo[u] /\ active' = active
      BY <1>1, <1>2, <1>3 DEF ThreadInv, Procs
    <3>2. bo[u] \in Bos => holds'[u][bo[u]] = holds[u][bo[u]]
      BY <1>6
    <3> QED  BY <3>1, <3>2 DEF ThreadOK
  <2>2. ThreadOK(t)'
    BY <1>3 DEF ThreadOK, ThreadLabels, Dropping, Destroying
  <2> QED  BY <2>1, <2>2 DEF ThreadInv
<1>12. DestroyInv'
  BY <1>1, <1>2, <1>3 DEF TypeOK, ThreadInv, ThreadOK, DestroyInv, Procs, Dropping, Destroying
<1>13. MtxInv'
  BY <1>1, <1>3, <1>8 DEF MtxInv, Procs
<1>14. MutexInv'
  BY <1>1, <1>2, <1>3 DEF TypeOK, MutexInv, WorkerInv, Procs, Dropping, WorkerLabels
<1>15. WorkerInv'
  BY <1>1, <1>2, <1>3 DEF TypeOK, WorkerInv, MutexInv, Closing, Procs, Dropping, WorkerLabels
<1>16. HolderInv'
  <2>1. \A u \in Threads : \A c \in PrivateBos : holds'[u][c] = holds[u][c]
    BY <1>6
  <2> QED  BY <1>1, <1>2, <1>3, <1>7, <2>1 DEF HolderInv, ThreadInv, ThreadOK, DestroyInv, Procs, Destroying, Dropping
<1>17. RefCountExact'
  <2>1. Others(t)
    BY <1>1, <1>2, <1>3 DEF Others, InHand, Procs, TypeOK
  <2> SUFFICES ASSUME NEW c \in Bos
               PROVE  refCount'[c] = Cardinality(Allocated(c))' + Cardinality(Running(c))'
                                     + Count(queue, c)' + Count(localQueue, c)'
    BY DEF RefCountExact
  <2>2. ~InHand(t, c) /\ ~InHand(t, c)'
    BY <1>1, <1>2, <1>3 DEF InHand, ThreadInv, ThreadOK, WorkerInv, TypeOK, Dropping, Procs
  <2>3. Cardinality(Allocated(c))' = Cardinality(Allocated(c)) + (IF c = b THEN 1 ELSE 0)
    BY <1>7
  <2>4. Count(queue, c)' = Count(queue, c) /\ Count(localQueue, c)' = Count(localQueue, c)
    BY <1>2 DEF Count
  <2>5. refCount'[c] = refCount[c] + (IF c = b THEN 1 ELSE 0)
    <3>1. refCount[c] \in Nat
      BY <1>1 DEF TypeOK
    <3> QED  BY <3>1, <1>30
  <2>6. /\ Cardinality(Allocated(c)) \in Nat /\ Cardinality(Running(c)) \in Nat
        /\ Count(queue, c) \in Nat /\ Count(localQueue, c) \in Nat
        /\ refCount[c] = Cardinality(Allocated(c)) + Cardinality(Running(c))
                         + Count(queue, c) + Count(localQueue, c)
        /\ Cardinality(Running(c))' = Cardinality(Running(c)) + (IF InHand(t, c)' THEN 1 ELSE 0)
                                      - (IF InHand(t, c) THEN 1 ELSE 0)
    BY <1>1, <2>1, References DEF Procs
  <2> QED  BY <2>2, <2>3, <2>4, <2>5, <2>6
<1>18. LiveInv'
  BY <1>1, <1>2, <1>30 DEF LiveInv
<1>19. DeleterInv'
  BY <1>1, <1>2, <1>5, <1>9, <1>30, <1>31 DEF DeleterInv
<1>20. GpuInv'
  <2>1. \A c \in gpu : c # b /\ c \in Bos /\ HolderOf[c] \in Threads
    BY <1>1 DEF GpuInv
  <2>2. \A c \in gpu : holds'[HolderOf[c]][c] = holds[HolderOf[c]][c]
    BY <1>6, <2>1
  <2> QED  BY <1>1, <1>2, <1>3, <2>1, <2>2 DEF GpuInv, Procs
<1>21. ListedInv'
  <2>1. bo[t] \in openHandles
    BY <1>1, <1>2 DEF FinderInv
  <2>2. \A c \in sharing : c \in SharedBos /\ handle[c] # bo[t]
    BY <1>1, <1>2 DEF TypeOK
  <2>3. b \notin sharing
    BY <1>1, <1>2 DEF ListedInv
  <2>4. \A c \in sharing : handle'[c] = handle[c] /\ life'[c] = life[c]
    BY <1>30, <2>2, <2>3
  <2> QED  BY <1>1, <1>2, <1>30, <2>1, <2>2, <2>3, <2>4 DEF ListedInv
<1>22. ErasedInv'
  BY <1>1, <1>2, <1>5, <1>31 DEF ErasedInv, Deleting
<1>23. FinderInv'
  BY <1>1, <1>2, <1>3 DEF TypeOK, FinderInv, ThreadInv, ThreadOK, Procs
<1> QED  BY <1>10, <1>11, <1>12, <1>13, <1>14, <1>15, <1>16, <1>17, <1>18, <1>19, <1>20, <1>21, <1>22, <1>23 DEF IInv

LEMMA ImportFailedInv ==
  ASSUME IInv, NEW t \in Threads,
         At(t, "import_find"), Goto(t, "idle"), mtx' = Unlocked(t),
         UNCHANGED <<life, refCount, handle, sharing, holds>>,
         UNCHANGED <<openHandles, gpu, workerVars, bo>>
  PROVE  IInv'
<1> USE ProcsAssumption, Kinds
<1>1. TypeOK /\ ThreadInv /\ DestroyInv /\ MtxInv /\ MutexInv /\ WorkerInv /\ HolderInv /\ RefCountExact
        /\ LiveInv /\ DeleterInv /\ GpuInv /\ ListedInv /\ ErasedInv /\ FinderInv
  BY DEF IInv
<1>2. /\ pc[t] = "import_find" /\ pc' = [pc EXCEPT ![t] = "idle"] /\ mtx' = (IF mtx = t THEN Nobody ELSE mtx)
      /\ UNCHANGED <<life, refCount, handle, openHandles, sharing, holds, gpu, queue, localQueue, workCount, active, workerDone, closeWorkerMutex, bo, calls>>
  BY DEF Unlocked, boVars, workerVars, Begin, Counted, At, Goto, NotifyAndGoto
<1>3. /\ pc'[t] = "idle"
      /\ \A q \in Procs \ {t} : pc'[q] = pc[q] /\ bo'[q] = bo[q]
  BY <1>1, <1>2 DEF TypeOK, Procs
<1>4. pc' \in [Procs -> Labels] /\ bo' \in [Procs -> Bos \cup DmaBufs \cup {None}]
  BY <1>1, <1>2 DEF TypeOK, Procs, Labels
<1>5. \A q \in Procs : pc'[q] \in Deleting => pc'[q] = pc[q] /\ bo'[q] = bo[q]
  BY <1>2, <1>3 DEF Deleting, Procs
<1>6. Steady(t)
  BY <1>1, <1>2, <1>3 DEF Steady, Others, InHand, ThreadInv, ThreadOK, WorkerInv, TypeOK, Procs
<1>7. RefCountExact' /\ \A c \in Bos : IsFiniteSet(Allocated(c)')
  BY <1>1, <1>2, <1>6, CountsKept DEF Procs
<1>10. TypeOK'
  BY <1>1, <1>2, <1>3, <1>4 DEF TypeOK, Procs
<1>11. ThreadInv'
  <2>1. \A u \in Threads \ {t} : ThreadOK(u)'
    BY <1>1, <1>2, <1>3 DEF ThreadInv, ThreadOK, Procs
  <2>2. ThreadOK(t)'
    BY <1>1, <1>2, <1>3 DEF TypeOK, ThreadInv, ThreadOK, DestroyInv, Procs, ThreadLabels, Dropping, Destroying
  <2> QED  BY <2>1, <2>2 DEF ThreadInv
<1>12. DestroyInv'
  BY <1>1, <1>2, <1>3 DEF TypeOK, ThreadInv, ThreadOK, DestroyInv, Procs, Dropping, Destroying
<1>13. MtxInv'
  <2>1. mtx = t /\ mtx' = Nobody
    BY <1>1, <1>2 DEF MtxInv, Procs
  <2> QED  BY <1>1, <1>3, <2>1 DEF MtxInv, Procs
<1>14. MutexInv'
  BY <1>1, <1>2, <1>3 DEF TypeOK, MutexInv, WorkerInv, Procs, Dropping, WorkerLabels
<1>15. WorkerInv'
  BY <1>1, <1>2, <1>3 DEF TypeOK, WorkerInv, MutexInv, Closing, Procs, Dropping, WorkerLabels
<1>16. HolderInv'
  BY <1>1, <1>2, <1>3, <1>7 DEF TypeOK, HolderInv, ThreadInv, ThreadOK, DestroyInv, Procs, Dropping, Destroying, ThreadLabels
<1>17. LiveInv'
  BY <1>1, <1>2, <1>3 DEF TypeOK, LiveInv
<1>18. DeleterInv'
  BY <1>1, <1>2, <1>3, <1>5 DEF DeleterInv
<1>19. GpuInv'
  BY <1>1, <1>2, <1>3 DEF TypeOK, GpuInv, ThreadInv, ThreadOK, HolderInv, Procs
<1>20. ListedInv'
  BY <1>1, <1>2, <1>3 DEF TypeOK, ListedInv
<1>21. ErasedInv'
  BY <1>1, <1>2, <1>3, <1>5 DEF ErasedInv, Deleting
<1>22. FinderInv'
  BY <1>1, <1>2, <1>3 DEF TypeOK, FinderInv, ThreadInv, ThreadOK, Procs
<1> QED  BY <1>10, <1>11, <1>12, <1>13, <1>14, <1>15, <1>16, <1>17, <1>18, <1>19, <1>20, <1>21, <1>22, <1>7 DEF IInv

----------------------------------------------------------------------------
(* The theorems.                                                           *)

LEMMA UnreferenceInv ==
  ASSUME IInv, NEW p \in Procs, Unreference(p)
  PROVE  IInv'
<1>1. CASE UnreferenceSpin(p)
  BY <1>1, UnreferenceSpinInv
<1>2. CASE UnreferenceLock(p)
  BY <1>2, UnreferenceLockInv
<1>3. CASE UnreferenceSub(p)
  <2>1. CASE refCount[bo[p]] = 1
    BY <1>3, <2>1, UnreferenceLastInv
  <2>2. CASE refCount[bo[p]] # 1
    BY <1>3, <2>2, UnreferenceDropInv
  <2> QED  BY <2>1, <2>2
<1>4. CASE UnreferenceClose(p)
  BY <1>4, UnreferenceCloseInv
<1>5. CASE UnreferenceDelete(p)
  BY <1>5, UnreferenceDeleteInv
<1> QED  BY <1>1, <1>2, <1>3, <1>4, <1>5 DEF Unreference

LEMMA ImportFindInv ==
  ASSUME IInv, NEW t \in Threads, ImportFind(t)
  PROVE  IInv'
<1>1. /\ At(t, "import_find") /\ Goto(t, "idle") /\ mtx' = Unlocked(t)
      /\ UNCHANGED <<openHandles, gpu, workerVars, bo>>
  BY DEF ImportFind
<1>2. ASSUME NEW b \in SharedBos, findAndReferenceSharedBufferObject(t, b),
             holds' = [holds EXCEPT ![t][b] = @ + 1]
      PROVE  IInv'
  BY <1>1, <1>2, ImportFoundInv
<1>3. ASSUME NEW b \in SharedBos, createSharedBufferObject(t, b),
             holds' = [holds EXCEPT ![t][b] = @ + 1]
      PROVE  IInv'
  BY <1>1, <1>3, ImportCreatedInv
<1>4. ASSUME UNCHANGED <<life, refCount, handle, sharing, holds>>
      PROVE  IInv'
  BY <1>1, <1>4, ImportFailedInv
<1> QED  BY <1>2, <1>3, <1>4 DEF ImportFind

LEMMA ThreadStepInv ==
  ASSUME IInv, NEW t \in Threads, Call(t) \/ ThreadStep(t)
  PROVE  IInv'
<1>1. ASSUME NEW b \in Bos, FlushExec(t, b) \/ freeGraphicsMemory(t, b) \/ cleanOsHandles(t, b)
      PROVE  IInv'
  BY <1>1, FlushExecInv, FreeInv, CleanInv
<1>2. ASSUME NEW d \in DmaBufs, Import(t, d)
      PROVE  IInv'
  BY <1>2, ImportInv
<1>3. CASE FlushReference(t) \/ Push(t) \/ PushNotify(t)
  BY <1>3, FlushReferenceInv, PushInv, PushNotifyInv
<1>4. CASE WaitIdle(t) \/ ImportHandle(t) \/ ImportFind(t)
  BY <1>4, WaitIdleInv, ImportHandleInv, ImportFindInv
<1>5. CASE Unreference(t)
  BY <1>5, UnreferenceInv DEF Procs
<1> QED  BY <1>1, <1>2, <1>3, <1>4, <1>5 DEF Call, ThreadStep

LEMMA WorkerStepInv ==
  ASSUME IInv, WorkerStep \/ SpuriousWake
  PROVE  IInv'
<1>1. CASE WorkerLoop \/ WorkerLock \/ WorkerSleep \/ SpuriousWake
  BY <1>1, WorkerLoopInv, WorkerLockInv, WorkerSleepInv, SpuriousWakeInv
<1>2. CASE WorkerCheck
  BY <1>2, WorkerSleepsInv, WorkerSwapsInv
<1>3. CASE WorkerClose
  BY <1>3, WorkerTakesInv, WorkerClosedInv
<1>4. CASE WorkerDrain
  BY <1>4, WorkerDrainsInv, WorkerDrainedInv
<1>5. CASE WorkerCount \/ WorkerDone
  BY <1>5, WorkerCountInv, WorkerDoneInv
<1>6. CASE Unreference(Worker)
  BY <1>6, UnreferenceInv DEF Procs
<1> QED  BY <1>1, <1>2, <1>3, <1>4, <1>5, <1>6 DEF WorkerStep

\* The counts, the life of the objects and the worker's bookkeeping hold together:
\* every step of every process preserves their conjunction.
THEOREM Inductive == Spec => []IInv
<1>1. ASSUME IInv, Next PROVE IInv'
  <2>1. ASSUME NEW t \in Threads, Call(t) \/ ThreadStep(t) PROVE IInv'
    BY <1>1, <2>1, ThreadStepInv
  <2>2. CASE WorkerStep \/ SpuriousWake
    BY <1>1, <2>2, WorkerStepInv
  <2>3. CASE Destroy \/ DestroyStep
    BY <1>1, <2>3, DestroyStartsInv, DestroyNotifyInv, DestroyPinInv, DestroyWorkerInv, CloseThreadInv
       DEF DestroyStep
  <2>4. CASE GpuComplete
    BY <1>1, <2>4, GpuCompleteInv
  <2> QED  BY <1>1, <2>1, <2>2, <2>3, <2>4 DEF Next
<1>2. ASSUME IInv, UNCHANGED vars PROVE IInv'
  <2>1. Steady(Worker) /\ UNCHANGED <<holds, refCount, queue, localQueue>>
    BY <1>2 DEF Steady, Others, InHand, vars, boVars, workerVars
  <2>2. RefCountExact' /\ \A b \in Bos : IsFiniteSet(Allocated(b)')
    BY <1>2, <2>1, CountsKept DEF Procs, IInv
  <2>3. TypeOK' /\ ThreadInv' /\ DestroyInv' /\ MtxInv' /\ MutexInv'
    BY <1>2 DEF IInv, vars, boVars, workerVars, TypeOK, ThreadInv, ThreadOK, DestroyInv, MtxInv, MutexInv
  <2>4. WorkerInv' /\ HolderInv'
    BY <1>2, <2>2 DEF IInv, vars, boVars, workerVars, WorkerInv, Closing, HolderInv
  <2>5. LiveInv' /\ DeleterInv' /\ GpuInv' /\ ListedInv' /\ ErasedInv' /\ FinderInv'
    BY <1>2 DEF IInv, vars, boVars, workerVars, LiveInv, DeleterInv, GpuInv, ListedInv, ErasedInv, FinderInv
  <2> QED  BY <2>2, <2>3, <2>4, <2>5 DEF IInv
<1> QED  BY InitInv, <1>1, <1>2, PTL DEF Spec

\* The reference count of every buffer object is exact at every step of flush,
\* unreference, import and the worker, for any number of threads and objects.
THEOREM RefCountsCorrect == Spec => []RefCountExact
<1>1. IInv => RefCountExact
  BY DEF IInv
<1> QED  BY Inductive, <1>1, PTL

\* Nothing that an allocation, a queue, the table of shared objects, a running call
\* or the GPU refers to was deleted by unreference.
THEOREM DeleteCorrect == Spec => []NoUseAfterDelete
<1>1. ASSUME IInv PROVE NoUseAfterDelete
  <2> SUFFICES ASSUME NEW b \in Bos, life[b] = "deleted"
               PROVE  /\ \A t \in Threads : holds[t][b] = 0
                      /\ b \notin ToSet(queue) \cup ToSet(localQueue) \cup sharing \cup gpu
                      /\ \A p \in Procs : bo[p] = b =>
                           pc[p] \notin {"push", "free_wait", "clean_wait", "u_spin", "u_lock",
                                         "u_sub", "u_close", "u_delete", "flush_reference"}
    BY DEF NoUseAfterDelete
  <2>1. TypeOK /\ ThreadInv /\ WorkerInv /\ HolderInv /\ RefCountExact /\ LiveInv /\ DeleterInv /\ GpuInv /\ ListedInv
    BY <1>1 DEF IInv
  <2>2. refCount[b] = 0
    BY <2>1 DEF LiveInv
  <2>3. /\ \A t \in Threads : holds[t][b] = 0
        /\ \A p \in Procs : ~InHand(p, b)
        /\ b \notin ToSet(queue) /\ b \notin ToSet(localQueue)
    BY <2>1, <2>2, Unreferenced
  <2>4. b \notin sharing
    BY <2>1 DEF ListedInv
  <2>5. b \notin gpu
    BY <2>1, <2>3, Kinds DEF GpuInv, InHand, Procs
  <2>6. \A p \in Procs : bo[p] = b => pc[p] \notin {"u_close", "u_delete", "flush_reference"}
    <3>1. \A p \in Procs : pc[p] \in Deleting => life[bo[p]] = "live"
      BY <2>1 DEF DeleterInv
    <3>2. \A t \in Threads : pc[t] = "flush_reference" => holds[t][bo[t]] > 0
      BY <2>1 DEF ThreadInv, ThreadOK
    <3>3. pc[Worker] # "flush_reference"
      BY <2>1 DEF WorkerInv, WorkerLabels, Dropping
    <3> QED  BY <3>1, <3>2, <3>3, <2>3 DEF Deleting, Procs
  <2>7. \A p \in Procs : bo[p] = b => pc[p] \notin {"push", "free_wait", "clean_wait", "u_spin", "u_lock", "u_sub"}
    BY <2>3 DEF InHand
  <2> QED  BY <2>3, <2>4, <2>5, <2>6, <2>7
<1> QED  BY Inductive, <1>1, PTL

\* An imported object that has an allocation keeps its GEM handle open, whatever
\* other imports of the same dma-buf are closed meanwhile.
THEOREM HandlesCorrect == Spec => []SharedHandleOpen
<1>1. ASSUME IInv PROVE SharedHandleOpen
  <2> SUFFICES ASSUME NEW b \in SharedBos, NEW t \in Threads, holds[t][b] > 0
               PROVE  /\ handle[b] \in openHandles
                      /\ \A c \in SharedBos \ {b} : handle[c] # handle[b]
    BY DEF SharedHandleOpen
  <2>1. TypeOK /\ HolderInv /\ RefCountExact /\ ListedInv
    BY <1>1 DEF IInv
  <2>2. refCount[b] # 0
    BY <2>1, Unreferenced, Kinds
  <2>3. b \in sharing /\ handle[b] \in openHandles /\ handle[b] # None
    BY <2>1, <2>2, Kinds DEF ListedInv, TypeOK
  <2> QED  BY <2>1, <2>3 DEF ListedInv
<1> QED  BY Inductive, <1>1, PTL

\* The destructor leaves no pushed object behind and counts every one of them out.
THEOREM DestroyedCorrect == Spec => []NothingLeftWhenDestroyed
<1>1. ASSUME IInv PROVE NothingLeftWhenDestroyed
  <2>1. WorkerInv
    BY <1>1 DEF IInv
  <2> SUFFICES ASSUME pc[Destroyer] = "destroyed"
               PROVE  queue = <<>> /\ localQueue = <<>> /\ workCount = 0
    BY DEF NothingLeftWhenDestroyed
  <2>2. pc[Worker] = "w_exit"
    BY <2>1 DEF WorkerInv
  <2>3. queue = <<>> /\ localQueue = <<>> /\ Closing = 0
    BY <2>1, <2>2 DEF WorkerInv, Dropping, Closing
  <2>4. workCount = Len(queue) + Len(localQueue) + Closing
    BY <2>1 DEF WorkerInv
  <2> QED  BY <2>3, <2>4
<1> QED  BY Inductive, <1>1, PTL

\* Every variable keeps its type; references never become negative.
THEOREM TypeCorrect == Spec => []TypeOK
<1>1. IInv => TypeOK
  BY DEF IInv
<1> QED  BY Inductive, <1>1, PTL
=============================================================================
